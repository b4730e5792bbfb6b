-------------------------- MODULE FolderTreeProofs --------------------------
(***************************************************************************)
(* Why a record without its folder is always accounted for, whatever       *)
(* requests interleave (theorem NoOtherOrphans), and what holds when       *)
(* requests are served one at a time: nodes satisfy the filters of their   *)
(* folders (NodesFitFolders), locks of the lock system have a locked       *)
(* folder (SystemLocksAreFreed), and a folder's lock reaches its children  *)
(* (LocksReachChildren).                                                   *)
(*                                                                         *)
(* TreeInv is inductive: types; each call belongs to a request of its kind *)
(* and to a uuid given out (Matching, Issued); a call holds a record of    *)
(* its node's kind (KindsKept: a folder stays a folder, so only a deletion *)
(* makes an orphan); a node being created is not yet in anybody's hands    *)
(* (Unborn); what a deletion reports gone is gone (DeletedIsGone); and the *)
(* children a deletion leaves behind are in spared or strayed when it      *)
(* removes the folder (DeletionCovers).                                    *)
(*                                                                         *)
(* A step of a call touches the call itself, the calls it starts, and one  *)
(* record.  CallKeeps states what each of the three may do (Ahead, Others, *)
(* Grown) and concludes TreeInv'; one lemma per action then shows that it  *)
(* does no more.                                                           *)
(*                                                                         *)
(* For one request at a time FiltersInv adds that what a call read or      *)
(* tested is still so when it writes (CopyOK), and that a parent is the    *)
(* root, a folder or a node that was deleted (ParentOK).  LocksInv adds    *)
(* the state of a cascade: one call at work while those above it wait      *)
(* (OneAtWork, Started), none in a circle (Grounded), each with the        *)
(* children behind it as they should be (Progress), and every lock of the  *)
(* lock system below a lock or below an unlock that will reach it.         *)
(***************************************************************************)
EXTENDS FolderTree, FiniteSetTheorems, TLAPS

CreateSteps == {"create", "create.add"}
UpdateSteps == {"update", "update.parent", "update.new", "update.children", "update.write"}
DeleteSteps == {"delete", "delete.parent", "delete.list", "delete.children", "delete.last"}
LockSteps   == {"lock", "lock.parent", "lock.write", "lock.list", "lock.children"}
UnlockSteps == {"unlock", "unlock.write", "unlock.list", "unlock.children"}
Ends        == {"none", "ok", "error"}
Labels      == CreateSteps \cup UpdateSteps \cup DeleteSteps \cup LockSteps \cup UnlockSteps \cup Ends

CallRecord == [at : Labels, rec : TreeRecord \cup {NoRecord}, todo : SUBSET Nodes, child : Nodes]

TreeTypes ==
    /\ records \in [DOMAIN records -> TreeRecord]
    /\ DOMAIN records \subseteq issued /\ issued \subseteq Nodes
    /\ load \in Loads
    /\ req \in [Procs -> Requests \cup {NoRequest}]
    /\ calls \in [Procs \X Nodes -> CallRecord]

\* The calls of a request are for what it asks.
Matching ==
    \A c \in Procs \X Nodes :
       LET op == req[c[1]].op at == calls[c].at IN
       /\ at \in CreateSteps => op = "create"
       /\ at \in UpdateSteps => op = "update"
       /\ at \in DeleteSteps => op = "delete"
       /\ at \in LockSteps   => op = "lock"
       /\ at \in UnlockSteps => op = "unlock"
       /\ op = "none" => at = "none"

\* A call is for a node whose uuid was given out, and so are its children's.
Issued ==
    \A c \in Procs \X Nodes : (calls[c].at # "none" => c[2] \in issued) /\ calls[c].todo \subseteq issued

\* Where a call holds the record of its node, that has its kind.
Holding == {"update.parent", "update.new", "update.children", "update.write", "delete.parent",
            "lock.parent", "lock.write", "unlock.write"}
KindsKept ==
    \A c \in Procs \X Nodes :
       /\ calls[c].at \in Holding \cup {"create.add"} => calls[c].rec \in TreeRecord
       /\ calls[c].at \in Holding /\ c[2] \in DOMAIN records => calls[c].rec.kind = records[c[2]].kind

\* Until a node is created no other call gets past its first reading.
Early == {"none", "update", "delete", "lock", "unlock", "error"}
Unborn ==
    \A c \in Procs \X Nodes : calls[c].at \in CreateSteps =>
       /\ c[2] \notin DOMAIN records
       /\ \A p \in Procs \ {c[1]} : calls[<<p, c[2]>>].at \in Early

DeletedIsGone ==
    \A c \in Procs \X Nodes : req[c[1]].op = "delete" /\ calls[c].at = "ok" => c[2] \notin DOMAIN records

\* The children a deletion has still to account for are those it waits for.
DeletionCovers ==
    \A c \in Procs \X Nodes :
       /\ calls[c].at = "delete.children" => Children(c[2]) \subseteq spared \cup strayed \cup calls[c].todo
       /\ calls[c].at = "delete.last" => Children(c[2]) \subseteq spared \cup strayed

TreeInv ==
    /\ TreeTypes /\ Matching /\ Issued /\ KindsKept /\ Unborn /\ DeletedIsGone
    /\ DeletionCovers /\ OrphansAccounted

----------------------------------------------------------------------------
(* What a step of a call does to the others, to itself and to the records. *)

\* The other calls stay, but for the children's that it starts.
Others(c) ==
    \A d \in (Procs \X Nodes) \ {c} :
       \/ calls'[d] = calls[d]
       \/ /\ d[1] = c[1] /\ d[2] \in issued /\ calls[d].at = "none"
          /\ calls'[d].at = req[c[1]].op /\ calls'[d].at \in {"delete", "lock", "unlock"}
          /\ calls'[d].todo = {}

\* It goes on with its own work, past its first reading only for a node that is
\* there or that it had read.
Ahead(c) ==
    LET at == calls'[c].at op == req[c[1]].op rec == calls'[c].rec IN
    /\ at \in CreateSteps => op = "create" /\ calls[c].at \in CreateSteps
    /\ at \in UpdateSteps => op = "update"
    /\ at \in DeleteSteps => op = "delete"
    /\ at \in LockSteps   => op = "lock"
    /\ at \in UnlockSteps => op = "unlock"
    /\ calls'[c].todo \subseteq issued
    /\ at \in Holding \cup {"create.add"} => rec \in TreeRecord
    /\ at \in Holding /\ c[2] \in DOMAIN records' => rec.kind = records'[c[2]].kind
    /\ at \in CreateSteps => c[2] \notin DOMAIN records'
    /\ at \notin Early => c[2] \in DOMAIN records \/ calls[c].at \notin Early
    /\ op = "delete" /\ at = "ok" => c[2] \notin DOMAIN records'
    /\ at = "delete.children" => Children(c[2])' \subseteq spared' \cup strayed' \cup calls'[c].todo
    /\ at = "delete.last" => Children(c[2])' \subseteq spared' \cup strayed'

\* Records keep their kind, only a creation adds one, and what comes into a
\* folder that is being deleted strays.
Grown(c) ==
    /\ records' \in [DOMAIN records' -> TreeRecord]
    /\ \A n \in DOMAIN records' :
       /\ n \notin DOMAIN records => n = c[2] /\ calls[c].at = "create.add" /\ calls'[c].at = "ok"
       /\ n \in DOMAIN records => records'[n].kind = records[n].kind
       /\ \/ n \in strayed'
          \/ n \in DOMAIN records /\ records'[n].parent = records[n].parent
          \/ ~BeingDeleted(records'[n].parent)

\* A step of a call that keeps within Others, Ahead and Grown, and makes no
\* unaccounted orphan itself, keeps the invariant.
LEMMA CallKeeps ==
  ASSUME TreeInv, NEW c \in Procs \X Nodes, calls[c].at # "none", UNCHANGED <<load, req, issued>>,
         calls' \in [Procs \X Nodes -> CallRecord], spared \subseteq spared', strayed \subseteq strayed',
         Others(c), Ahead(c), Grown(c), OrphansAccounted'
  PROVE  TreeInv'
<1> USE TreeAssumption
<1>1. c[1] \in Procs /\ c[2] \in Nodes /\ c = <<c[1], c[2]>> /\ c[2] \in issued
  BY DEF TreeInv, Issued
<1>2. req[c[1]].op # "none"
  BY <1>1 DEF TreeInv, Matching
<1>3. TreeTypes'
  <2>1. DOMAIN records' \subseteq issued
    BY <1>1 DEF TreeInv, TreeTypes, Grown
  <2> QED
    BY <2>1 DEF TreeInv, TreeTypes, Grown
<1>4. Matching'
  <2> SUFFICES ASSUME NEW d \in Procs \X Nodes
               PROVE  LET op == req[d[1]].op at == calls'[d].at IN
                        /\ at \in CreateSteps => op = "create"
                        /\ at \in UpdateSteps => op = "update"
                        /\ at \in DeleteSteps => op = "delete"
                        /\ at \in LockSteps   => op = "lock"
                        /\ at \in UnlockSteps => op = "unlock"
                        /\ op = "none" => at = "none"
    BY DEF Matching
  <2>1. CASE d = c
    BY <2>1, <1>2 DEF Ahead
  <2>2. CASE d # c /\ calls'[d] = calls[d]
    BY <2>2 DEF TreeInv, Matching
  <2>3. CASE d # c /\ calls'[d] # calls[d]
    <3>1. calls'[d].at = req[d[1]].op /\ calls'[d].at \in {"delete", "lock", "unlock"}
      BY <2>3 DEF Others
    <3> QED
      BY <3>1 DEF CreateSteps, UpdateSteps, DeleteSteps, LockSteps, UnlockSteps
  <2> QED
    BY <2>1, <2>2, <2>3
<1>5. Issued'
  BY <1>1 DEF TreeInv, Issued, Others, Ahead
<1>6. KindsKept'
  <2> SUFFICES ASSUME NEW d \in Procs \X Nodes
               PROVE  /\ calls'[d].at \in Holding \cup {"create.add"} => calls'[d].rec \in TreeRecord
                      /\ calls'[d].at \in Holding /\ d[2] \in DOMAIN records'
                            => calls'[d].rec.kind = records'[d[2]].kind
    BY DEF KindsKept
  <2>1. CASE d = c
    BY <2>1 DEF Ahead
  <2>2. CASE d # c /\ calls'[d] = calls[d]
    <3>1. calls[d].at \in Holding \cup {"create.add"} => calls[d].rec \in TreeRecord
      BY DEF TreeInv, KindsKept
    <3>2. CASE calls[d].at \in Holding /\ d[2] \in DOMAIN records' /\ d[2] \notin DOMAIN records
      <4>1. d[2] = c[2] /\ calls[c].at = "create.add"
        BY <3>2 DEF Grown
      <4>2. d[1] \in Procs \ {c[1]} /\ d = <<d[1], c[2]>>
        BY <4>1, <2>2, <1>1
      <4>3. calls[d].at \in Early
        BY <4>1, <4>2 DEF TreeInv, Unborn, CreateSteps
      <4> QED
        BY <4>3, <3>2 DEF Early, Holding
    <3>3. CASE calls[d].at \in Holding /\ d[2] \in DOMAIN records' /\ d[2] \in DOMAIN records
      BY <3>1, <3>3, <2>2 DEF TreeInv, KindsKept, Grown
    <3> QED
      BY <3>1, <3>2, <3>3, <2>2
  <2>3. CASE d # c /\ calls'[d] # calls[d]
    BY <2>3 DEF Others, Holding
  <2> QED
    BY <2>1, <2>2, <2>3
<1>7. Unborn'
  <2> SUFFICES ASSUME NEW d \in Procs \X Nodes, calls'[d].at \in CreateSteps
               PROVE  /\ d[2] \notin DOMAIN records'
                      /\ \A p \in Procs \ {d[1]} : calls'[<<p, d[2]>>].at \in Early
    BY DEF Unborn
  <2>0. d[1] \in Procs /\ d[2] \in Nodes /\ d = <<d[1], d[2]>>
    OBVIOUS
  <2>1. calls[d].at \in CreateSteps
    BY DEF Ahead, Others, CreateSteps
  <2>2. d[2] \notin DOMAIN records /\ \A p \in Procs \ {d[1]} : calls[<<p, d[2]>>].at \in Early
    BY <2>1 DEF TreeInv, Unborn
  <2>3. d[2] \notin DOMAIN records'
    <3>1. CASE d = c
      BY <3>1 DEF Ahead
    <3>2. CASE d # c
      <4>1. d[2] = c[2] => calls[c].at \in Early
        BY <3>2, <2>0, <2>2, <1>1
      <4> QED
        BY <4>1, <2>2 DEF Grown, Early
    <3> QED
      BY <3>1, <3>2
  <2>4. ASSUME NEW p \in Procs \ {d[1]} PROVE calls'[<<p, d[2]>>].at \in Early
    <3>1. calls[<<p, d[2]>>].at \in Early /\ <<p, d[2]>> \in Procs \X Nodes
      BY <2>0, <2>2
    <3>2. CASE <<p, d[2]>> = c
      <4>1. c[2] = d[2]
        BY <3>2
      <4> QED
        BY <3>1, <3>2, <4>1, <2>2 DEF Ahead
    <3>3. CASE <<p, d[2]>> # c
      BY <3>1, <3>3 DEF Others, Early
    <3> QED
      BY <3>2, <3>3
  <2> QED
    BY <2>3, <2>4
<1>8. DeletedIsGone'
  <2> SUFFICES ASSUME NEW d \in Procs \X Nodes, req[d[1]].op = "delete", calls'[d].at = "ok"
               PROVE  d[2] \notin DOMAIN records'
    BY DEF DeletedIsGone
  <2>1. CASE d = c
    BY <2>1 DEF Ahead
  <2>2. CASE d # c
    <3>1. calls[d].at = "ok" /\ d[2] \notin DOMAIN records
      BY <2>2 DEF Others, TreeInv, DeletedIsGone
    <3>2. ASSUME d[2] = c[2], calls[c].at = "create.add" PROVE FALSE
      <4>1. d[1] \in Procs \ {c[1]} /\ d = <<d[1], c[2]>>
        BY <3>2, <2>2, <1>1
      <4>2. calls[d].at \in Early
        BY <4>1, <3>2 DEF TreeInv, Unborn, CreateSteps
      <4> QED
        BY <4>2, <3>1 DEF Early
    <3> QED
      BY <3>1, <3>2 DEF Grown
  <2> QED
    BY <2>1, <2>2
<1>9. DeletionCovers'
  <2> SUFFICES ASSUME NEW d \in Procs \X Nodes
               PROVE  /\ calls'[d].at = "delete.children"
                            => Children(d[2])' \subseteq spared' \cup strayed' \cup calls'[d].todo
                      /\ calls'[d].at = "delete.last" => Children(d[2])' \subseteq spared' \cup strayed'
    BY DEF DeletionCovers
  <2>1. CASE d = c
    BY <2>1 DEF Ahead
  <2>2. CASE d # c /\ calls'[d] # calls[d]
    BY <2>2 DEF Others
  <2>3. CASE d # c /\ calls'[d] = calls[d]
    <3> SUFFICES ASSUME calls[d].at \in {"delete.children", "delete.last"}
                 PROVE  Children(d[2])' \subseteq strayed' \cup Children(d[2])
      BY <2>3 DEF TreeInv, DeletionCovers
    <3>1. ASSUME NEW n \in Children(d[2])' PROVE n \in strayed' \cup Children(d[2])
      <4>1. n \in DOMAIN records' /\ records'[n].parent = d[2]
        BY <3>1 DEF Children
      <4>2. BeingDeleted(d[2])
        BY DEF BeingDeleted
      <4> QED
        BY <4>1, <4>2 DEF Grown, Children
    <3> QED
      BY <3>1
  <2> QED
    BY <2>1, <2>2, <2>3
<1> QED
  BY <1>3, <1>4, <1>5, <1>6, <1>7, <1>8, <1>9 DEF TreeInv

\* The records stay.
LEMMA MoveKeeps ==
  ASSUME TreeInv, NEW c \in Procs \X Nodes, calls[c].at # "none", UNCHANGED <<records, load, req, issued>>,
         calls' \in [Procs \X Nodes -> CallRecord], spared \subseteq spared', strayed \subseteq strayed',
         Others(c), Ahead(c)
  PROVE  TreeInv'
<1>1. Grown(c)
  BY DEF Grown, TreeInv, TreeTypes
<1>2. OrphansAccounted'
  BY DEF TreeInv, OrphansAccounted, Orphans, IsFolder
<1> QED
  BY <1>1, <1>2, CallKeeps

\* So do the other calls.
LEMMA OwnKeeps ==
  ASSUME TreeInv, NEW c \in Procs \X Nodes, calls[c].at # "none", UNCHANGED <<records, load, req, issued>>,
         NEW next \in CallRecord, calls' = [calls EXCEPT ![c] = next],
         spared \subseteq spared', strayed \subseteq strayed', Ahead(c)
  PROVE  TreeInv'
<1>1. calls' \in [Procs \X Nodes -> CallRecord] /\ Others(c)
  BY DEF TreeInv, TreeTypes, Others
<1> QED
  BY <1>1, MoveKeeps

\* A refusal is the end of a call.
LEMMA RefusalKeeps ==
  ASSUME TreeInv, NEW c \in Procs \X Nodes, calls[c].at # "none", UNCHANGED <<records, load, req, issued>>,
         Done(c, "error"), spared \subseteq spared', strayed \subseteq strayed'
  PROVE  TreeInv'
<1>1. Call("error", c[2]) \in CallRecord
  BY DEF Call, CallRecord, Labels, Ends
<1>2. calls' = [calls EXCEPT ![c] = Call("error", c[2])]
  BY DEF Done
<1>3. calls'[c].at = "error" /\ calls'[c].todo = {}
  BY <1>2 DEF Call, TreeInv, TreeTypes
<1>4. Ahead(c)
  BY <1>3 DEF Ahead, CreateSteps, UpdateSteps, DeleteSteps, LockSteps, UnlockSteps, Holding, Early
<1> QED
  BY <1>1, <1>2, <1>4, OwnKeeps

\* Going on to a step that does not choose what it stands for anew.
LEMMA HoldKeeps ==
  ASSUME TreeInv, NEW c \in Procs \X Nodes, calls[c].at # "none", UNCHANGED <<records, load, req, issued>>,
         NEW at \in Labels, NEW rec \in TreeRecord,
         calls' = [calls EXCEPT ![c].at = at, ![c].rec = rec],
         spared \subseteq spared', strayed \subseteq strayed',
         at \notin {"delete.children", "delete.last"},
         at \in CreateSteps => calls[c].at \in CreateSteps,
         at \in UpdateSteps => calls[c].at \in UpdateSteps,
         at \in DeleteSteps => calls[c].at \in DeleteSteps,
         at \in LockSteps   => calls[c].at \in LockSteps,
         at \in UnlockSteps => calls[c].at \in UnlockSteps,
         at \notin Ends,
         at \in Holding /\ c[2] \in DOMAIN records => rec.kind = records[c[2]].kind,
         at \in CreateSteps \/ c[2] \in DOMAIN records \/ calls[c].at \notin Early
  PROVE  TreeInv'
<1> DEFINE next == [calls[c] EXCEPT !.at = at, !.rec = rec]
<1>1. calls[c] \in CallRecord /\ calls[c].todo \subseteq issued
  BY DEF TreeInv, TreeTypes, Issued
<1>2. next \in CallRecord /\ next.at = at /\ next.rec = rec /\ next.todo = calls[c].todo
  BY <1>1 DEF CallRecord
<1>3. calls' = [calls EXCEPT ![c] = next] /\ calls'[c] = next
  BY DEF TreeInv, TreeTypes
<1>4. at \in CreateSteps => c[2] \notin DOMAIN records
  BY DEF TreeInv, Unborn
<1>5. at \in CreateSteps => calls[c].at \notin Early
  BY DEF CreateSteps, Early
<1>6. Ahead(c)
  <2> HIDE DEF next
  <2> QED
    BY <1>1, <1>2, <1>3, <1>4, <1>5 DEF Ahead, TreeInv, Matching, Ends
<1> QED
  <2> HIDE DEF next
  <2> QED
    BY <1>2, <1>3, <1>6, OwnKeeps

----------------------------------------------------------------------------
(* Readings and checks.                                                    *)

\* What a call read of its node.
LEMMA HeldRecord ==
  ASSUME TreeInv, NEW c \in Procs \X Nodes, calls[c].at \in Holding
  PROVE  /\ calls[c].rec \in TreeRecord
         /\ c[2] \in DOMAIN records => calls[c].rec.kind = records[c[2]].kind
  BY DEF TreeInv, KindsKept

\* The first reading of update, delete, lock and unlock: the call holds the
\* record as it is, or is refused.
LEMMA ReadKeeps ==
  ASSUME TreeInv, NEW c \in Procs \X Nodes, NEW to,
         <<calls[c].at, to>> \in {<<"update", "update.parent">>, <<"delete", "delete.parent">>,
                                  <<"lock", "lock.parent">>, <<"unlock", "unlock.write">>},
         UNCHANGED <<records, load, req, issued, spared, strayed>>,
         Done(c, "error") \/ (c[2] \in DOMAIN records /\ Hold(c, to, records[c[2]]))
  PROVE  TreeInv'
<1>1. CASE Done(c, "error")
  BY <1>1, RefusalKeeps
<1>2. CASE c[2] \in DOMAIN records /\ Hold(c, to, records[c[2]])
  <2>1. records[c[2]] \in TreeRecord
    BY <1>2 DEF TreeInv, TreeTypes
  <2>2. to \in Labels /\ to \notin Ends
    BY DEF Labels, UpdateSteps, DeleteSteps, LockSteps, UnlockSteps, Ends
  <2>3. /\ to \notin CreateSteps
        /\ to \in UpdateSteps => calls[c].at \in UpdateSteps
        /\ to \in DeleteSteps => calls[c].at \in DeleteSteps
        /\ to \in LockSteps   => calls[c].at \in LockSteps
        /\ to \in UnlockSteps => calls[c].at \in UnlockSteps
    BY DEF CreateSteps, UpdateSteps, DeleteSteps, LockSteps, UnlockSteps
  <2> QED
    BY <1>2, <2>1, <2>2, <2>3, HoldKeeps DEF Hold
<1> QED
  BY <1>1, <1>2

\* A check that was passed leaves the record that is held as it is.
LEMMA GoKeeps ==
  ASSUME TreeInv, NEW c \in Procs \X Nodes, calls[c].at \in Holding, NEW to,
         <<calls[c].at, to>> \in {"update.new", "update.children"} \X {"update.children", "update.write"}
            \cup {<<"delete.parent", "delete.list">>, <<"lock.parent", "lock.write">>},
         UNCHANGED <<records, load, req, issued>>, Goto(c, to),
         spared \subseteq spared', strayed \subseteq strayed'
  PROVE  TreeInv'
<1>1. calls[c] \in CallRecord
  BY DEF TreeInv, TreeTypes
<1>2. calls' = [calls EXCEPT ![c].at = to, ![c].rec = calls[c].rec]
  BY <1>1 DEF Goto, CallRecord, TreeInv, TreeTypes
<1>3. to \in Labels /\ to \notin Ends /\ calls[c].at \notin Early
  BY DEF Labels, UpdateSteps, DeleteSteps, LockSteps, Ends, Early
<1>4. /\ to \notin CreateSteps \cup UnlockSteps
      /\ to \in UpdateSteps => calls[c].at \in UpdateSteps
      /\ to \in DeleteSteps => calls[c].at \in DeleteSteps
      /\ to \in LockSteps   => calls[c].at \in LockSteps
  BY DEF CreateSteps, UpdateSteps, DeleteSteps, LockSteps, UnlockSteps
<1> QED
  BY <1>2, <1>3, <1>4, HeldRecord, HoldKeeps

\* create holds the record it will add: nobody has the uuid yet.
LEMMA CreateChecks == ASSUME TreeInv, NEW c \in Procs \X Nodes, CreateCheck(c) PROVE TreeInv'
<1> DEFINE r == req[c[1]]
<1>1. calls[c].at = "create" /\ UNCHANGED <<records, load, req, issued, spared, strayed>>
  BY DEF CreateCheck, Proceed, At
<1>2. CASE Done(c, "error")
  BY <1>1, <1>2, RefusalKeeps
<1>3. CASE WritableBy(r.user, r.parent) /\ Hold(c, "create.add", Created(r))
  <2>1. r \in Request /\ r.op = "create"
    <3>1. r.op = "create"
      BY <1>1 DEF TreeInv, Matching, CreateSteps
    <3> QED
      BY <3>1, TreeAssumption DEF TreeInv, TreeTypes, NoRequest
  <2>2. r.kind \in Kinds /\ r.parent \in Nodes \cup {Root}
    BY <2>1 DEF Request, CreateRequest, UpdateRequest, NodeRequest
  <2>3. FreshNode(CHOOSE d \in Data : TRUE) \in NodeRecord
    BY TreeAssumption DEF FreshNode, NodeRecord
  <2>4. (IF r.kind = "folder" THEN Folder(r.parent).writers ELSE {}) \subseteq Users
    <3>1. CASE r.parent = Root
      BY <3>1 DEF Folder, RootFolder
    <3>2. CASE r.parent # Root
      <4>1. r.parent \in DOMAIN records
        BY <1>3, <3>2 DEF WritableBy, IsFolder
      <4>2. records[r.parent] \in TreeRecord
        BY <4>1 DEF TreeInv, TreeTypes
      <4> QED
        BY <3>2, <4>2 DEF Folder, TreeRecord
    <3> QED
      BY <3>1, <3>2
  <2>5. Created(r) \in TreeRecord
    BY <2>2, <2>3, <2>4 DEF Created, TreeRecord
  <2>6. "create.add" \in Labels /\ "create.add" \notin Ends
    BY DEF Labels, CreateSteps, Ends
  <2> HIDE DEF r
  <2> QED
    BY <1>1, <1>3, <2>5, <2>6, HoldKeeps
       DEF Hold, CreateSteps, UpdateSteps, DeleteSteps, LockSteps, UnlockSteps, Holding
<1> QED
  BY <1>2, <1>3 DEF CreateCheck, Proceed

\* Metadata, whatever they say, make a node record of a node record.
LEMMA UpdatedRecord ==
  ASSUME NEW n \in NodeRecord, NEW who, NEW m \in Metadata
  PROVE  Updated(n, who, m) \in NodeRecord
  BY DEF Updated, Given, NodeRecord, Metadata

\* update holds the changed record, of the kind it read.
LEMMA UpdateChecks == ASSUME TreeInv, NEW c \in Procs \X Nodes, UpdateCheck(c) PROVE TreeInv'
<1> DEFINE r == req[c[1]]
           rec == Changed(calls[c].rec, Principal(c), r)
<1>1. calls[c].at = "update.parent" /\ UNCHANGED <<records, load, req, issued, spared, strayed>>
  BY DEF UpdateCheck, Proceed, At
<1>2. CASE Done(c, "error")
  BY <1>1, <1>2, RefusalKeeps
<1>3. CASE Hold(c, "update.new", rec)
  <2>1. calls[c].rec \in TreeRecord /\ (c[2] \in DOMAIN records => calls[c].rec.kind = records[c[2]].kind)
    BY <1>1, HeldRecord DEF Holding
  <2>2. r \in UpdateRequest
    <3>1. r.op = "update"
      BY <1>1 DEF TreeInv, Matching, UpdateSteps
    <3> QED
      BY <3>1, TreeAssumption DEF TreeInv, TreeTypes, NoRequest, Request, CreateRequest, NodeRequest
  <2>3. rec \in TreeRecord /\ rec.kind = calls[c].rec.kind
    <3>1. Updated(calls[c].rec.meta, Principal(c), r.metadata) \in NodeRecord
      <4>1. calls[c].rec.meta \in NodeRecord /\ r.metadata \in Metadata
        BY <2>1, <2>2 DEF TreeRecord, UpdateRequest
      <4> QED
        BY <4>1, UpdatedRecord
    <3>2. Given(r.parent, calls[c].rec.parent) \in Nodes \cup {Root}
      BY <2>1, <2>2 DEF Given, TreeRecord, UpdateRequest
    <3>3. Given(r.only, calls[c].rec.only) \in SUBSET Kinds
      BY <2>1, <2>2 DEF Given, TreeRecord, UpdateRequest
    <3> QED
      BY <2>1, <3>1, <3>2, <3>3 DEF Changed, TreeRecord
  <2>4. "update.new" \in Labels /\ "update.new" \notin Ends /\ calls[c].at \notin Early
    BY <1>1 DEF Labels, UpdateSteps, Ends, Early
  <2> HIDE DEF rec, r
  <2> QED
    BY <1>1, <1>3, <2>1, <2>3, <2>4, HoldKeeps
       DEF Hold, CreateSteps, UpdateSteps, DeleteSteps, LockSteps, UnlockSteps
<1> QED
  BY <1>2, <1>3 DEF UpdateCheck, Proceed

\* getById holds the record as it is.
LEMMA Readings ==
  ASSUME TreeInv, NEW c \in Procs \X Nodes, UpdateRead(c) \/ DeleteRead(c) \/ LockRead(c) \/ UnlockRead(c)
  PROVE  TreeInv'
<1>1. CASE UpdateRead(c)
  BY <1>1, ReadKeeps DEF UpdateRead, ReadNode, Proceed, At
<1>2. CASE DeleteRead(c)
  BY <1>2, ReadKeeps DEF DeleteRead, ReadNode, Proceed, At
<1>3. CASE LockRead(c)
  BY <1>3, ReadKeeps DEF LockRead, ReadNode, Proceed, At
<1>4. CASE UnlockRead(c)
  BY <1>4, ReadKeeps DEF UnlockRead, ReadNode, Proceed, At
<1> QED
  BY <1>1, <1>2, <1>3, <1>4

\* update goes on with the record it held (the new parent).
LEMMA NewParentChecks == ASSUME TreeInv, NEW c \in Procs \X Nodes, UpdateCheckNew(c) PROVE TreeInv'
<1>1. calls[c].at = "update.new" /\ UNCHANGED <<records, load, req, issued, spared, strayed>>
  BY DEF UpdateCheckNew, Proceed, At
<1>2. CASE Done(c, "error")
  BY <1>1, <1>2, RefusalKeeps
<1>3. CASE \E to \in {"update.children", "update.write"} : Goto(c, to)
  BY <1>1, <1>3, GoKeeps DEF Holding
<1> QED
  BY <1>2, <1>3 DEF UpdateCheckNew, Proceed

\* update goes on with the record it held (the filters of the children).
LEMMA ChildrenChecks == ASSUME TreeInv, NEW c \in Procs \X Nodes, UpdateChildren(c) PROVE TreeInv'
<1>1. /\ calls[c].at = "update.children" /\ UNCHANGED <<records, load, req, issued, strayed>>
      /\ spared \subseteq spared'
  BY DEF UpdateChildren, At
<1>2. CASE Done(c, "error")
  BY <1>1, <1>2, RefusalKeeps
<1>3. CASE Goto(c, "update.write")
  BY <1>1, <1>3, GoKeeps DEF Holding
<1> QED
  BY <1>2, <1>3 DEF UpdateChildren

\* lock goes on with the record it held.
LEMMA LockChecks == ASSUME TreeInv, NEW c \in Procs \X Nodes, LockCheck(c) PROVE TreeInv'
<1>1. calls[c].at = "lock.parent" /\ UNCHANGED <<records, load, req, issued, spared, strayed>>
  BY DEF LockCheck, CheckParent, Proceed, At
<1>2. CASE Done(c, "error")
  BY <1>1, <1>2, RefusalKeeps
<1>3. CASE Goto(c, "lock.write")
  BY <1>1, <1>3, GoKeeps DEF Holding
<1> QED
  BY <1>2, <1>3 DEF LockCheck, CheckParent, Proceed

\* What has the parent n is an orphan unless n is a folder.
LEMMA ChildrenOfNoFolder ==
  ASSUME TreeInv, NEW n \in Nodes, n \in DOMAIN records => records[n].kind # "folder"
  PROVE  Children(n) \subseteq spared \cup strayed
<1>1. ~IsFolder(n)
  BY TreeAssumption DEF IsFolder
<1>2. Children(n) \subseteq Orphans
  BY <1>1 DEF Children, Orphans
<1> QED
  BY <1>2 DEF TreeInv, OrphansAccounted

\* delete goes on to its children, or to a node that has none.
LEMMA DeleteChecks == ASSUME TreeInv, NEW c \in Procs \X Nodes, DeleteCheck(c) PROVE TreeInv'
<1>1. calls[c].at = "delete.parent" /\ UNCHANGED <<records, load, req, issued, spared, strayed>>
  BY DEF DeleteCheck, CheckParent, Proceed, At
<1>2. CASE Done(c, "error")
  BY <1>1, <1>2, RefusalKeeps
<1>3. CASE Goto(c, "delete.list")
  BY <1>1, <1>3, GoKeeps DEF Holding
<1>4. CASE calls[c].rec.kind # "folder" /\ Goto(c, "delete.last")
  <2> DEFINE next == [calls[c] EXCEPT !.at = "delete.last"]
  <2>1. calls[c] \in CallRecord /\ calls[c].todo \subseteq issued
    BY DEF TreeInv, TreeTypes, Issued
  <2>2. next \in CallRecord /\ next.at = "delete.last" /\ next.todo = calls[c].todo
    BY <2>1 DEF CallRecord, Labels, DeleteSteps
  <2>3. calls' = [calls EXCEPT ![c] = next] /\ calls'[c] = next
    BY <1>4 DEF Goto, TreeInv, TreeTypes
  <2>4. Children(c[2])' \subseteq spared' \cup strayed'
    <3>1. c[2] \in DOMAIN records => records[c[2]].kind # "folder"
      BY <1>1, <1>4, HeldRecord DEF Holding
    <3>2. Children(c[2])' = Children(c[2])
      BY <1>1 DEF Children
    <3> QED
      BY <1>1, <3>1, <3>2, ChildrenOfNoFolder
  <2>5. req[c[1]].op = "delete"
    BY <1>1 DEF TreeInv, Matching, DeleteSteps
  <2>6. Ahead(c)
    <3> HIDE DEF next
    <3> QED
      BY <1>1, <2>1, <2>2, <2>3, <2>4, <2>5
         DEF Ahead, CreateSteps, UpdateSteps, DeleteSteps, LockSteps, UnlockSteps, Holding, Early
  <2> QED
    <3> HIDE DEF next
    <3> QED
      BY <1>1, <2>2, <2>3, <2>6, OwnKeeps
<1> QED
  BY <1>2, <1>3, <1>4 DEF DeleteCheck, CheckParent, Proceed

----------------------------------------------------------------------------
(* The children's calls.                                                   *)

\* delete waits for the children of the page and spares the others.
LEMMA DeleteLists == ASSUME TreeInv, NEW c \in Procs \X Nodes, DeleteList(c) PROVE TreeInv'
<1>1. calls[c].at = "delete.list" /\ UNCHANGED <<records, load, req, issued, strayed>>
  BY DEF DeleteList, At
<1>2. PICK page \in Pages(c[2]) :
         /\ calls' = [d \in DOMAIN calls |->
                        IF d = c THEN [calls[c] EXCEPT !.at = "delete.children", !.todo = page]
                        ELSE IF d[1] = c[1] /\ d[2] \in page /\ At(d, "none")
                             THEN Call("delete", d[2])
                             ELSE calls[d]]
         /\ spared' = spared \cup (Children(c[2]) \ page)
  BY DEF DeleteList
<1>3. page \subseteq issued /\ page \subseteq Nodes
  BY <1>2 DEF Pages, Children, TreeInv, TreeTypes
<1>4. DOMAIN calls = Procs \X Nodes /\ \A d \in Procs \X Nodes : calls[d] \in CallRecord
  BY DEF TreeInv, TreeTypes
<1>5. req[c[1]].op = "delete"
  BY <1>1 DEF TreeInv, Matching, DeleteSteps
<1>6. /\ [calls[c] EXCEPT !.at = "delete.children", !.todo = page] \in CallRecord
      /\ calls'[c].at = "delete.children" /\ calls'[c].todo = page
  BY <1>2, <1>3, <1>4 DEF CallRecord, Labels, DeleteSteps
<1>7. ASSUME NEW n \in Nodes PROVE Call("delete", n) \in CallRecord
  BY DEF Call, CallRecord, Labels, DeleteSteps
<1>8. calls' \in [Procs \X Nodes -> CallRecord]
  <2>1. ASSUME NEW d \in Procs \X Nodes PROVE calls'[d] \in CallRecord
    <3>1. d[2] \in Nodes
      OBVIOUS
    <3> QED
      BY <1>2, <1>4, <1>6, <1>7, <3>1
  <2> QED
    BY <1>2, <1>4, <2>1
<1>9. Others(c)
  <2> SUFFICES ASSUME NEW d \in (Procs \X Nodes) \ {c}, calls'[d] # calls[d]
               PROVE  /\ d[1] = c[1] /\ d[2] \in issued /\ calls[d].at = "none"
                      /\ calls'[d].at = "delete" /\ calls'[d].todo = {}
    BY <1>5 DEF Others
  <2>1. d[1] = c[1] /\ d[2] \in page /\ At(d, "none") /\ calls'[d] = Call("delete", d[2])
    BY <1>2, <1>4
  <2> QED
    BY <2>1, <1>3 DEF At, Call
<1>10. Ahead(c)
  <2>1. Children(c[2])' \subseteq spared' \cup strayed' \cup page
    BY <1>1, <1>2 DEF Children
  <2> QED
    BY <1>1, <1>3, <1>5, <1>6, <2>1
       DEF Ahead, CreateSteps, UpdateSteps, DeleteSteps, LockSteps, UnlockSteps, Holding, Early
<1> QED
  BY <1>1, <1>2, <1>8, <1>9, <1>10, MoveKeeps

\* The children whose deletion ended well are gone: nothing brings them back.
LEMMA DeleteAllChildren == ASSUME TreeInv, NEW c \in Procs \X Nodes, DeleteChildren(c) PROVE TreeInv'
<1>1. /\ calls[c].at = "delete.children" /\ UNCHANGED <<records, load, req, issued, strayed>>
      /\ \A k \in calls[c].todo : calls[<<c[1], k>>].at \in {"ok", "error"}
      /\ spared' = spared \cup {k \in calls[c].todo : calls[<<c[1], k>>].at = "error"}
  BY DEF DeleteChildren, At, Finished
<1>2. calls[c] \in CallRecord /\ calls[c].todo \subseteq issued /\ calls[c].todo \subseteq Nodes
  BY DEF TreeInv, TreeTypes, Issued, CallRecord
<1>3. req[c[1]].op = "delete"
  BY <1>1 DEF TreeInv, Matching, DeleteSteps
<1>4. Children(c[2])' \subseteq spared' \cup strayed'
  <2> SUFFICES ASSUME NEW k \in Children(c[2]), k \notin spared' \cup strayed PROVE FALSE
    BY <1>1 DEF Children
  <2>1. k \in calls[c].todo
    BY <1>1 DEF TreeInv, DeletionCovers
  <2>2. calls[<<c[1], k>>].at = "ok" /\ <<c[1], k>> \in Procs \X Nodes
    BY <1>1, <1>2, <2>1
  <2>3. k \notin DOMAIN records
    BY <1>3, <2>2 DEF TreeInv, DeletedIsGone
  <2> QED
    BY <2>3 DEF Children
<1> DEFINE next == [calls[c] EXCEPT !.at = "delete.last", !.rec = NoRecord]
<1>5. next \in CallRecord /\ next.at = "delete.last" /\ next.todo = calls[c].todo
  BY <1>2 DEF CallRecord, Labels, DeleteSteps
<1>6. calls' = [calls EXCEPT ![c] = next] /\ calls'[c] = next
  BY DEF DeleteChildren, Hold, TreeInv, TreeTypes
<1> HIDE DEF next
<1>7. Ahead(c)
  BY <1>1, <1>2, <1>3, <1>4, <1>5, <1>6
     DEF Ahead, CreateSteps, UpdateSteps, DeleteSteps, LockSteps, UnlockSteps, Holding, Early
<1> QED
  BY <1>1, <1>5, <1>6, <1>7, OwnKeeps

\* lock and unlock list children; they hold no record any more.
LEMMA CascadeLists ==
  ASSUME TreeInv, NEW c \in Procs \X Nodes, LockList(c) \/ UnlockList(c) PROVE TreeInv'
<1>1. PICK to \in {"lock.children", "unlock.children"}, todo \in SUBSET Children(c[2]) :
         /\ <<calls[c].at, to>> \in {<<"lock.list", "lock.children">>, <<"unlock.list", "unlock.children">>}
         /\ calls' = [calls EXCEPT ![c].at = to, ![c].todo = todo]
  <2>1. CASE LockList(c)
    <3>1. PICK page \in Pages(c[2]) :
            calls' = [calls EXCEPT ![c].at = "lock.children",
                                   ![c].todo = {k \in page : ~records[k].meta.locked}]
      BY <2>1 DEF LockList, ListToCascade
    <3>2. {k \in page : ~records[k].meta.locked} \in SUBSET Children(c[2])
      BY DEF Pages
    <3> QED
      BY <2>1, <3>1, <3>2 DEF LockList, ListToCascade, At
  <2>2. CASE UnlockList(c)
    <3>1. PICK page \in Pages(c[2]) :
            calls' = [calls EXCEPT ![c].at = "unlock.children",
                                   ![c].todo = {k \in page : records[k].meta.lockedBy = LockSystem}]
      BY <2>2 DEF UnlockList, ListToCascade
    <3>2. {k \in page : records[k].meta.lockedBy = LockSystem} \in SUBSET Children(c[2])
      BY DEF Pages
    <3> QED
      BY <2>2, <3>1, <3>2 DEF UnlockList, ListToCascade, At
  <2> QED
    BY <2>1, <2>2
<1>2. UNCHANGED <<records, load, req, issued, strayed>> /\ spared \subseteq spared'
  BY DEF LockList, UnlockList, ListToCascade
<1>3. todo \subseteq issued /\ todo \subseteq Nodes /\ calls[c] \in CallRecord
  BY DEF Children, TreeInv, TreeTypes
<1> DEFINE next == [calls[c] EXCEPT !.at = to, !.todo = todo]
<1>4. next \in CallRecord /\ next.at = to /\ next.todo = todo
  BY <1>3 DEF CallRecord, Labels, LockSteps, UnlockSteps
<1>5. calls' = [calls EXCEPT ![c] = next] /\ calls'[c] = next
  BY <1>1 DEF TreeInv, TreeTypes
<1> HIDE DEF next
<1>6. Ahead(c)
  BY <1>1, <1>3, <1>4, <1>5
     DEF Ahead, CreateSteps, UpdateSteps, DeleteSteps, LockSteps, UnlockSteps, Holding, Early,
         TreeInv, Matching
<1>7. calls[c].at # "none"
  BY <1>1
<1> QED
  BY <1>2, <1>4, <1>5, <1>6, <1>7, OwnKeeps

\* lock and unlock start the call for the next child.
LEMMA Cascades ==
  ASSUME TreeInv, NEW c \in Procs \X Nodes, LockChildren(c) \/ UnlockChildren(c) PROVE TreeInv'
<1>1. PICK start \in {"lock", "unlock"} :
         /\ <<calls[c].at, start>> \in {<<"lock.children", "lock">>, <<"unlock.children", "unlock">>}
         /\ Cascade(c, calls[c].at, start)
  BY DEF LockChildren, UnlockChildren, Cascade, At
<1>2. UNCHANGED <<records, load, req, issued, spared, strayed>>
  BY <1>1 DEF Cascade
<1>3. req[c[1]].op = start
  BY <1>1 DEF TreeInv, Matching, LockSteps, UnlockSteps
<1>4. calls[c].at \notin Early /\ calls[c].at # "none"
  BY <1>1 DEF Early
<1>5. /\ DOMAIN calls = Procs \X Nodes /\ \A d \in Procs \X Nodes : calls[d] \in CallRecord
      /\ calls[c].todo \subseteq issued /\ calls[c].todo \subseteq Nodes /\ c[1] \in Procs /\ c[2] \in Nodes
  BY DEF TreeInv, TreeTypes, Issued, CallRecord
<1>6. CASE Done(c, "ok")
  <2>1. Call("ok", c[2]) \in CallRecord
    BY <1>5 DEF Call, CallRecord, Labels, Ends
  <2>2. calls' = [calls EXCEPT ![c] = Call("ok", c[2])] /\ calls'[c].at = "ok" /\ calls'[c].todo = {}
    BY <1>5, <1>6 DEF Done, Call
  <2>3. Ahead(c)
    BY <1>1, <1>3, <1>4, <2>2
       DEF Ahead, CreateSteps, UpdateSteps, DeleteSteps, LockSteps, UnlockSteps, Holding
  <2> QED
    BY <1>2, <1>4, <2>1, <2>2, <2>3, OwnKeeps
<1>7. ASSUME NEW k \in calls[c].todo,
             calls' = [d \in DOMAIN calls |->
                   IF d = c
                   THEN [calls[c] EXCEPT !.todo = @ \ {k},
                           !.child = IF At(<<c[1], k>>, "none") THEN k ELSE c[2]]
                   ELSE IF d = <<c[1], k>> /\ At(d, "none") THEN Call(start, k)
                        ELSE calls[d]]
      PROVE  TreeInv'
  <2>1. k \in issued /\ k \in Nodes /\ <<c[1], k>> \in Procs \X Nodes
    BY <1>5
  <2> DEFINE next == [calls[c] EXCEPT !.todo = @ \ {k},
                           !.child = IF At(<<c[1], k>>, "none") THEN k ELSE c[2]]
  <2>2. next \in CallRecord /\ next.at = calls[c].at /\ next.todo = calls[c].todo \ {k}
    BY <1>5, <2>1 DEF CallRecord
  <2>3. calls'[c] = next
    BY <1>5, <1>7
  <2>4. Call(start, k) \in CallRecord
    BY <2>1 DEF Call, CallRecord, Labels, LockSteps, UnlockSteps
  <2>5. \A d \in (Procs \X Nodes) \ {c} :
           calls'[d] = calls[d] \/ (d = <<c[1], k>> /\ At(d, "none") /\ calls'[d] = Call(start, k))
    BY <1>5, <1>7
  <2>6. DOMAIN calls' = Procs \X Nodes /\ calls' = [d \in DOMAIN calls |-> calls'[d]]
    BY <1>5, <1>7
  <2> HIDE DEF next
  <2>7. calls' \in [Procs \X Nodes -> CallRecord]
    <3>1. \A d \in Procs \X Nodes : calls'[d] \in CallRecord
      BY <1>5, <2>2, <2>3, <2>4, <2>5
    <3> QED
      BY <2>6, <3>1, <1>5
  <2>8. Others(c)
    BY <1>3, <2>1, <2>5 DEF Others, At, Call
  <2>9. Ahead(c)
    BY <1>1, <1>3, <1>4, <1>5, <2>2, <2>3
       DEF Ahead, CreateSteps, UpdateSteps, DeleteSteps, LockSteps, UnlockSteps, Holding
  <2> QED
    BY <1>2, <1>4, <2>7, <2>8, <2>9, MoveKeeps
<1> QED
  BY <1>1, <1>6, <1>7 DEF Cascade

----------------------------------------------------------------------------
(* Writes.                                                                 *)

\* A record written back goes to its folder, or strays if that is no folder or
\* is being deleted.
LEMMA WriteKeeps ==
  ASSUME TreeInv, NEW c \in Procs \X Nodes, NEW r \in TreeRecord, NEW to,
         r.kind = calls[c].rec.kind,
         <<calls[c].at, to>> \in {<<"update.write", "ok">>}
            \cup ({"lock.write"} \X {"lock.list", "ok"}) \cup ({"unlock.write"} \X {"unlock.list", "ok"}),
         UNCHANGED <<load, req, issued, spared>>, strayed \cup Misplaced(c[2], r.parent) \subseteq strayed',
         \/ c[2] \in DOMAIN records /\ records' = [records EXCEPT ![c[2]] = r] /\ Goto(c, to)
         \/ UNCHANGED records /\ Done(c, "error")
  PROVE  TreeInv'
<1>1. calls[c].at # "none" /\ calls[c].at \in Holding /\ calls[c].at \notin Early
  BY DEF Holding, Early
<1>2. CASE UNCHANGED records /\ Done(c, "error")
  BY <1>1, <1>2, RefusalKeeps
<1>3. CASE c[2] \in DOMAIN records /\ records' = [records EXCEPT ![c[2]] = r] /\ Goto(c, to)
  <2>1. /\ calls[c] \in CallRecord /\ calls[c].todo \subseteq issued /\ c[2] \in Nodes
        /\ DOMAIN calls = Procs \X Nodes
    BY DEF TreeInv, TreeTypes, Issued
  <2>2. calls' = [calls EXCEPT ![c].at = to] /\ to \in Labels /\ to # "none"
    BY <1>3 DEF Goto, Labels, Ends, LockSteps, UnlockSteps
  <2>3. /\ calls' \in [Procs \X Nodes -> CallRecord]
        /\ calls'[c].at = to /\ calls'[c].todo = calls[c].todo
    BY <2>1, <2>2 DEF CallRecord, TreeInv, TreeTypes
  <2>4. Others(c)
    BY <2>1, <2>2 DEF Others
  <2>5. Ahead(c)
    BY <1>1, <2>1, <2>3
       DEF Ahead, CreateSteps, UpdateSteps, DeleteSteps, LockSteps, UnlockSteps, Holding, TreeInv, Matching
  <2>6. /\ DOMAIN records' = DOMAIN records /\ records'[c[2]] = r
        /\ \A n \in DOMAIN records \ {c[2]} : records'[n] = records[n]
        /\ \A n \in DOMAIN records : records'[n].kind = records[n].kind
        /\ records' \in [DOMAIN records' -> TreeRecord]
    BY <1>1, <1>3, HeldRecord DEF TreeInv, TreeTypes
  <2>7. c[2] \in strayed' \/ (IsFolder(r.parent) /\ ~BeingDeleted(r.parent))
    BY DEF Misplaced
  <2>8. Grown(c)
    BY <2>6, <2>7 DEF Grown
  <2>9. OrphansAccounted'
    <3> SUFFICES ASSUME NEW n \in Orphans' PROVE n \in spared \cup strayed'
      BY DEF OrphansAccounted
    <3>1. n \in DOMAIN records /\ ~IsFolder(records'[n].parent)
      BY <2>6 DEF Orphans, IsFolder
    <3>2. CASE n = c[2]
      BY <3>1, <3>2, <2>6, <2>7
    <3>3. CASE n # c[2]
      <4>1. n \in Orphans
        BY <3>1, <3>3, <2>6 DEF Orphans
      <4> QED
        BY <4>1 DEF TreeInv, OrphansAccounted
    <3> QED
      BY <3>2, <3>3
  <2> QED
    BY <1>1, <2>3, <2>4, <2>5, <2>8, <2>9, CallKeeps
<1> QED
  BY <1>2, <1>3

\* The principal of a lock is a user or the lock system.
LEMMA PrincipalIsOne ==
  ASSUME TreeInv, NEW c \in Procs \X Nodes, calls[c].at \in LockSteps PROVE Principal(c) \in Principals
<1>1. req[c[1]].op = "lock"
  BY DEF TreeInv, Matching
<1>2. req[c[1]] \in Request
  BY <1>1, TreeAssumption DEF TreeInv, TreeTypes, NoRequest
<1>3. req[c[1]].user \in Users
  BY <1>1, <1>2 DEF Request, CreateRequest, UpdateRequest, NodeRequest
<1> QED
  BY <1>3 DEF Principal, Principals

\* update, lock and unlock write a record of the kind that is there; where its
\* folder is going, or gone, it strays.
LEMMA Writes ==
  ASSUME TreeInv, NEW c \in Procs \X Nodes, UpdateWrite(c) \/ LockWrite(c) \/ UnlockWrite(c)
  PROVE  TreeInv'
<1> DEFINE rec == calls[c].rec
<1>1. CASE UpdateWrite(c)
  <2>1. calls[c].at = "update.write" /\ rec \in TreeRecord
    BY <1>1, HeldRecord DEF UpdateWrite, WriteNode, At, Holding
  <2> QED
    BY <1>1, <2>1, WriteKeeps DEF UpdateWrite, WriteNode
<1>2. CASE LockWrite(c)
  <2>1. calls[c].at = "lock.write" /\ rec \in TreeRecord
    BY <1>2, HeldRecord DEF LockWrite, WriteNode, At, Holding
  <2> DEFINE r == [rec EXCEPT !.meta = Locked(rec.meta, Principal(c), {})]
  <2>2. Locked(rec.meta, Principal(c), {}) \in NodeRecord
    <3>1. Principal(c) \in Principals /\ PrincipalGroups(Principal(c)) \subseteq Groups
      BY <2>1, PrincipalIsOne, PrincipalsAssumption DEF LockSteps, PrincipalGroups
    <3> QED
      BY <2>1, <3>1 DEF Locked, NodeRecord, TreeRecord
  <2>3. r \in TreeRecord /\ r.kind = rec.kind /\ r.parent = rec.parent
    BY <2>1, <2>2 DEF TreeRecord
  <2>4. WriteNode(c, "lock.write", r, IF rec.kind = "folder" THEN "lock.list" ELSE "ok")
    BY <1>2 DEF LockWrite
  <2>5. strayed \cup Misplaced(c[2], r.parent) \subseteq strayed'
    BY <1>2, <2>3 DEF LockWrite
  <2> HIDE DEF r
  <2> QED
    BY <2>1, <2>3, <2>4, <2>5, WriteKeeps DEF WriteNode
<1>3. CASE UnlockWrite(c)
  <2>1. calls[c].at = "unlock.write" /\ rec \in TreeRecord
    BY <1>3, HeldRecord DEF UnlockWrite, WriteNode, At, Holding
  <2> DEFINE r == [rec EXCEPT !.meta = Unlocked(rec.meta)]
  <2>2. Unlocked(rec.meta) \in NodeRecord
    BY <2>1 DEF Unlocked, NodeRecord, TreeRecord
  <2>3. r \in TreeRecord /\ r.kind = rec.kind /\ r.parent = rec.parent
    BY <2>1, <2>2 DEF TreeRecord
  <2>4. WriteNode(c, "unlock.write", r, IF rec.kind = "folder" THEN "unlock.list" ELSE "ok")
    BY <1>3 DEF UnlockWrite
  <2>5. strayed \cup Misplaced(c[2], r.parent) \subseteq strayed'
    BY <1>3, <2>3 DEF UnlockWrite
  <2> HIDE DEF r
  <2> QED
    BY <2>1, <2>3, <2>4, <2>5, WriteKeeps DEF WriteNode
<1> QED
  BY <1>1, <1>2, <1>3

\* create adds a record nobody held; where its folder is going, it strays.
LEMMA CreateAdds == ASSUME TreeInv, NEW c \in Procs \X Nodes, CreateAdd(c) PROVE TreeInv'
<1> DEFINE rec == calls[c].rec
<1>1. /\ calls[c].at = "create.add" /\ UNCHANGED <<load, req, issued, spared>>
      /\ strayed' = strayed \cup Misplaced(c[2], rec.parent)
      /\ records' = [n \in DOMAIN records \cup {c[2]} |-> IF n = c[2] THEN rec ELSE records[n]]
      /\ calls' = [calls EXCEPT ![c] = Call("ok", c[2])]
  BY DEF CreateAdd, At, Done
<1>2. rec \in TreeRecord /\ c[2] \notin DOMAIN records /\ req[c[1]].op = "create" /\ c[2] \in Nodes
  BY <1>1 DEF TreeInv, KindsKept, Unborn, Matching, CreateSteps
<1>3. Call("ok", c[2]) \in CallRecord
  BY <1>2 DEF Call, CallRecord, Labels, Ends
<1>4. /\ calls' \in [Procs \X Nodes -> CallRecord] /\ calls'[c].at = "ok" /\ calls'[c].todo = {}
      /\ Others(c)
  BY <1>1, <1>3 DEF TreeInv, TreeTypes, Others, Call
<1>5. Ahead(c)
  BY <1>1, <1>2, <1>4
     DEF Ahead, CreateSteps, UpdateSteps, DeleteSteps, LockSteps, UnlockSteps, Holding, Early
<1>6. /\ DOMAIN records' = DOMAIN records \cup {c[2]} /\ records'[c[2]] = rec
      /\ \A n \in DOMAIN records : records'[n] = records[n]
  BY <1>1, <1>2
<1>7. records' \in [DOMAIN records' -> TreeRecord]
  BY <1>1, <1>2, <1>6 DEF TreeInv, TreeTypes
<1>8. c[2] \in strayed' \/ (IsFolder(rec.parent) /\ ~BeingDeleted(rec.parent))
  BY <1>1 DEF Misplaced
<1>9. Grown(c)
  BY <1>1, <1>4, <1>6, <1>7, <1>8 DEF Grown
<1>10. OrphansAccounted'
  <2> SUFFICES ASSUME NEW n \in Orphans' PROVE n \in spared \cup strayed'
    BY <1>1 DEF OrphansAccounted
  <2>1. n \in DOMAIN records' /\ ~IsFolder(records'[n].parent)
    BY <1>6 DEF Orphans, IsFolder
  <2>2. CASE n = c[2]
    BY <2>1, <2>2, <1>6, <1>8
  <2>3. CASE n # c[2]
    <3>1. n \in Orphans
      BY <2>1, <2>3, <1>6 DEF Orphans
    <3> QED
      BY <3>1, <1>1 DEF TreeInv, OrphansAccounted
  <2> QED
    BY <2>2, <2>3
<1> QED
  BY <1>1, <1>4, <1>5, <1>9, <1>10, CallKeeps

\* What loses its folder is what its deletion did not reach.
LEMMA DeleteLasts == ASSUME TreeInv, NEW c \in Procs \X Nodes, DeleteLast(c) PROVE TreeInv'
<1>1. /\ calls[c].at = "delete.last" /\ UNCHANGED <<load, req, issued, spared, strayed>>
      /\ records' = [n \in DOMAIN records \ {c[2]} |-> records[n]]
  BY DEF DeleteLast, At
<1>2. PICK reply \in {"ok", "error"} : calls' = [calls EXCEPT ![c] = Call(reply, c[2])]
  BY DEF DeleteLast, Done
<1>3. req[c[1]].op = "delete" /\ c[2] \in Nodes
  BY <1>1 DEF TreeInv, Matching, DeleteSteps
<1>4. Call(reply, c[2]) \in CallRecord
  BY <1>3 DEF Call, CallRecord, Labels, Ends
<1>5. /\ calls' \in [Procs \X Nodes -> CallRecord] /\ calls'[c].at = reply /\ calls'[c].todo = {}
      /\ Others(c)
  BY <1>2, <1>4 DEF TreeInv, TreeTypes, Others, Call
<1>6. /\ DOMAIN records' = DOMAIN records \ {c[2]}
      /\ \A n \in DOMAIN records' : records'[n] = records[n]
      /\ records' \in [DOMAIN records' -> TreeRecord]
  BY <1>1 DEF TreeInv, TreeTypes
<1>7. Ahead(c)
  BY <1>1, <1>3, <1>5, <1>6
     DEF Ahead, CreateSteps, UpdateSteps, DeleteSteps, LockSteps, UnlockSteps, Holding, Early
<1>8. Grown(c)
  BY <1>6 DEF Grown
<1>9. OrphansAccounted'
  <2> SUFFICES ASSUME NEW n \in Orphans' PROVE n \in spared \cup strayed
    BY <1>1 DEF OrphansAccounted
  <2>1. n \in DOMAIN records /\ (records[n].parent = c[2] \/ ~IsFolder(records[n].parent))
    BY <1>6 DEF Orphans, IsFolder
  <2>2. n \in Children(c[2]) \/ n \in Orphans
    BY <2>1 DEF Children, Orphans
  <2> QED
    BY <1>1, <2>2 DEF TreeInv, OrphansAccounted, DeletionCovers
<1> QED
  BY <1>1, <1>5, <1>7, <1>8, <1>9, CallKeeps

----------------------------------------------------------------------------
(* Requests, and the beginning.                                            *)

\* A request arrives, with a call of its kind for a uuid given out.
LEMMA Starts == ASSUME TreeInv, NEW p \in Procs, Start(p) PROVE TreeInv'
<1>1. PICK r \in load.requests :
         /\ r.op = "create" <=> r.node \notin issued
         /\ req' = [req EXCEPT ![p] = r]
         /\ calls' = [calls EXCEPT ![<<p, r.node>>] = Call(r.op, r.node)]
         /\ issued' = issued \cup {r.node}
  BY DEF Start
<1>2. UNCHANGED <<records, load, spared, strayed>> /\ req[p].op = "none"
  BY DEF Start, NoRequest
<1>3. r \in Requests /\ r.node \in Nodes /\ r.op \in {"create", "update", "delete", "lock", "unlock"}
  <2>1. r \in Requests
    BY TreeAssumption DEF TreeInv, TreeTypes
  <2> QED
    BY <2>1, TreeAssumption DEF Request, CreateRequest, UpdateRequest, NodeRequest
<1> DEFINE c == <<p, r.node>>
<1>4. c \in Procs \X Nodes /\ c[1] = p /\ c[2] = r.node
  BY <1>3
<1>5. Call(r.op, r.node) \in CallRecord /\ Call(r.op, r.node).at = r.op /\ Call(r.op, r.node).todo = {}
  BY <1>3 DEF Call, CallRecord, Labels, CreateSteps, UpdateSteps, DeleteSteps, LockSteps, UnlockSteps
<1>6. /\ calls' \in [Procs \X Nodes -> CallRecord]
      /\ calls'[c].at = r.op /\ calls'[c].todo = {}
      /\ \A d \in (Procs \X Nodes) \ {c} : calls'[d] = calls[d]
      /\ req'[p] = r /\ \A q \in Procs \ {p} : req'[q] = req[q]
  BY <1>1, <1>4, <1>5 DEF TreeInv, TreeTypes
<1> HIDE DEF c
<1>7. \A d \in Procs \X Nodes : d[1] = p => calls[d].at = "none"
  BY <1>2 DEF TreeInv, Matching
<1>8. TreeTypes'
  BY <1>1, <1>2, <1>3, <1>6 DEF TreeInv, TreeTypes
<1>9. Matching'
  <2> SUFFICES ASSUME NEW d \in Procs \X Nodes
               PROVE  LET op == req'[d[1]].op at == calls'[d].at IN
                        /\ at \in CreateSteps => op = "create"
                        /\ at \in UpdateSteps => op = "update"
                        /\ at \in DeleteSteps => op = "delete"
                        /\ at \in LockSteps   => op = "lock"
                        /\ at \in UnlockSteps => op = "unlock"
                        /\ op = "none" => at = "none"
    BY DEF Matching
  <2>1. CASE d = c
    BY <2>1, <1>3, <1>4, <1>6 DEF CreateSteps, UpdateSteps, DeleteSteps, LockSteps, UnlockSteps
  <2>2. CASE d # c /\ d[1] = p
    BY <2>2, <1>6, <1>7 DEF CreateSteps, UpdateSteps, DeleteSteps, LockSteps, UnlockSteps
  <2>3. CASE d[1] # p
    BY <2>3, <1>4, <1>6 DEF TreeInv, Matching
  <2> QED
    BY <2>1, <2>2, <2>3
<1>10. Issued'
  BY <1>1, <1>4, <1>6 DEF TreeInv, Issued
<1>11. KindsKept'
  BY <1>2, <1>3, <1>6 DEF TreeInv, KindsKept, Holding
<1>12. Unborn'
  <2> SUFFICES ASSUME NEW d \in Procs \X Nodes, calls'[d].at \in CreateSteps
               PROVE  /\ d[2] \notin DOMAIN records
                      /\ \A q \in Procs \ {d[1]} : calls'[<<q, d[2]>>].at \in Early
    BY <1>2 DEF Unborn
  <2>1. CASE d = c
    <3>1. r.node \notin issued
      BY <2>1, <1>1, <1>3, <1>6 DEF CreateSteps
    <3>2. d[2] \notin DOMAIN records
      BY <2>1, <3>1, <1>4 DEF TreeInv, TreeTypes
    <3>3. ASSUME NEW q \in Procs \ {d[1]} PROVE calls'[<<q, d[2]>>].at \in Early
      <4>1. <<q, d[2]>> \in (Procs \X Nodes) \ {c} /\ <<q, d[2]>>[2] = r.node
        BY <2>1, <1>4
      <4>2. calls[<<q, d[2]>>].at = "none"
        BY <3>1, <4>1 DEF TreeInv, Issued
      <4> QED
        BY <4>1, <4>2, <1>6 DEF Early
    <3> QED
      BY <3>2, <3>3
  <2>2. CASE d # c
    <3>1. /\ calls[d].at \in CreateSteps /\ d[2] \notin DOMAIN records /\ d[2] \in issued
          /\ \A q \in Procs \ {d[1]} : calls[<<q, d[2]>>].at \in Early
      BY <2>2, <1>6 DEF TreeInv, Unborn, Issued, CreateSteps
    <3>2. ASSUME NEW q \in Procs \ {d[1]} PROVE calls'[<<q, d[2]>>].at \in Early
      <4>1. CASE <<q, d[2]>> = c
        <5>1. r.op # "create" /\ calls'[<<q, d[2]>>].at = r.op
          BY <4>1, <3>1, <1>1, <1>4, <1>6
        <5> QED
          BY <5>1, <1>3 DEF Early
      <4>2. CASE <<q, d[2]>> # c
        <5>1. <<q, d[2]>> \in Procs \X Nodes
          OBVIOUS
        <5> QED
          BY <4>2, <5>1, <3>1, <1>6
      <4> QED
        BY <4>1, <4>2
    <3> QED
      BY <3>1, <3>2
  <2> QED
    BY <2>1, <2>2
<1>13. DeletedIsGone'
  <2> SUFFICES ASSUME NEW d \in Procs \X Nodes, req'[d[1]].op = "delete", calls'[d].at = "ok"
               PROVE  d[2] \notin DOMAIN records
    BY <1>2 DEF DeletedIsGone
  <2>1. d # c /\ calls[d].at = "ok"
    BY <1>3, <1>6
  <2>2. d[1] # p
    BY <2>1, <1>7
  <2> QED
    BY <2>1, <2>2, <1>6 DEF TreeInv, DeletedIsGone
<1>14. DeletionCovers'
  BY <1>2, <1>3, <1>6 DEF TreeInv, DeletionCovers, Children
<1>15. OrphansAccounted'
  BY <1>2 DEF TreeInv, OrphansAccounted, Orphans, IsFolder
<1> QED
  BY <1>8, <1>9, <1>10, <1>11, <1>12, <1>13, <1>14, <1>15 DEF TreeInv

\* A request is answered: its calls are over.
LEMMA Replies == ASSUME TreeInv, NEW p \in Procs, Reply(p) PROVE TreeInv'
<1>1. /\ UNCHANGED <<records, load, issued, spared, strayed>> /\ req' = [req EXCEPT ![p] = NoRequest]
      /\ calls' = [c \in DOMAIN calls |-> IF c[1] = p THEN Call("none", c[2]) ELSE calls[c]]
  BY DEF Reply
<1>2. \A n \in Nodes : /\ Call("none", n) \in CallRecord
                       /\ Call("none", n).at = "none" /\ Call("none", n).todo = {}
  BY DEF Call, CallRecord, Labels, Ends
<1>3. /\ \A d \in Procs \X Nodes : \/ calls'[d] = calls[d] /\ d[1] # p
                                   \/ calls'[d] = Call("none", d[2]) /\ d[1] = p
      /\ req'[p].op = "none" /\ \A q \in Procs \ {p} : req'[q] = req[q]
  BY <1>1 DEF TreeInv, TreeTypes, NoRequest
<1>4. calls' \in [Procs \X Nodes -> CallRecord]
  <2>1. \A d \in Procs \X Nodes : calls'[d] \in CallRecord
    BY <1>2, <1>3 DEF TreeInv, TreeTypes
  <2> QED
    BY <1>1, <2>1 DEF TreeInv, TreeTypes
<1>5. \A d \in Procs \X Nodes : \/ calls'[d] = calls[d] /\ req'[d[1]] = req[d[1]]
                                \/ /\ calls'[d].at = "none" /\ calls'[d].todo = {}
                                   /\ req'[d[1]].op = "none"
  BY <1>2, <1>3
<1>6. TreeTypes'
  BY <1>1, <1>4 DEF TreeInv, TreeTypes
<1>7. Matching'
  <2> SUFFICES ASSUME NEW d \in Procs \X Nodes
               PROVE  LET op == req'[d[1]].op at == calls'[d].at IN
                        /\ at \in CreateSteps => op = "create"
                        /\ at \in UpdateSteps => op = "update"
                        /\ at \in DeleteSteps => op = "delete"
                        /\ at \in LockSteps   => op = "lock"
                        /\ at \in UnlockSteps => op = "unlock"
                        /\ op = "none" => at = "none"
    BY DEF Matching
  <2>1. CASE calls'[d] = calls[d] /\ req'[d[1]] = req[d[1]]
    BY <2>1 DEF TreeInv, Matching
  <2>2. CASE calls'[d].at = "none"
    BY <2>2 DEF CreateSteps, UpdateSteps, DeleteSteps, LockSteps, UnlockSteps
  <2> QED
    BY <2>1, <2>2, <1>5
<1>8. Issued' /\ KindsKept' /\ DeletedIsGone'
  <2>1. Issued'
    BY <1>1, <1>5 DEF TreeInv, Issued
  <2>2. KindsKept'
    <3> SUFFICES ASSUME NEW d \in Procs \X Nodes
                 PROVE  /\ calls'[d].at \in Holding \cup {"create.add"} => calls'[d].rec \in TreeRecord
                        /\ calls'[d].at \in Holding /\ d[2] \in DOMAIN records
                             => calls'[d].rec.kind = records[d[2]].kind
      BY <1>1 DEF KindsKept
    <3>1. CASE calls'[d] = calls[d]
      BY <3>1 DEF TreeInv, KindsKept
    <3>2. CASE calls'[d].at = "none"
      BY <3>2 DEF Holding
    <3> QED
      BY <3>1, <3>2, <1>5
  <2>3. DeletedIsGone'
    <3> SUFFICES ASSUME NEW d \in Procs \X Nodes, req'[d[1]].op = "delete", calls'[d].at = "ok"
                 PROVE  d[2] \notin DOMAIN records
      BY <1>1 DEF DeletedIsGone
    <3>1. calls'[d] = calls[d] /\ req'[d[1]] = req[d[1]]
      BY <1>5
    <3> QED
      BY <3>1 DEF TreeInv, DeletedIsGone
  <2> QED
    BY <2>1, <2>2, <2>3
<1>9. Unborn'
  BY <1>1, <1>5 DEF TreeInv, Unborn, CreateSteps, Early
<1>10. DeletionCovers' /\ OrphansAccounted'
  BY <1>1, <1>5 DEF TreeInv, DeletionCovers, Children, OrphansAccounted, Orphans, IsFolder
<1> QED
  BY <1>6, <1>7, <1>8, <1>9, <1>10 DEF TreeInv

\* A workflow mark changes neither kind nor parent.
LEMMA Marks ==
  ASSUME TreeInv, NEW n \in InWorkflows, NEW i \in InstanceIds \cup {NoInstance}, Mark(n, i)
  PROVE  TreeInv'
<1>1. n \in DOMAIN records /\ UNCHANGED <<load, req, calls, issued, spared, strayed>>
  BY DEF Mark
<1> DEFINE r == [records[n] EXCEPT !.meta = [records[n].meta EXCEPT !.instance = i]]
<1>2. records' = [records EXCEPT ![n] = r]
  BY DEF Mark
<1>3. records[n] \in TreeRecord
  BY <1>1 DEF TreeInv, TreeTypes
<1>4. r \in TreeRecord /\ r.kind = records[n].kind /\ r.parent = records[n].parent
  BY <1>3 DEF TreeRecord, NodeRecord
<1> HIDE DEF r
<1>5. /\ DOMAIN records' = DOMAIN records /\ records' \in [DOMAIN records' -> TreeRecord]
      /\ \A m \in DOMAIN records : /\ records'[m].kind = records[m].kind
                                   /\ records'[m].parent = records[m].parent
  BY <1>2, <1>4 DEF TreeInv, TreeTypes
<1>6. TreeTypes' /\ Matching' /\ Issued' /\ Unborn' /\ DeletedIsGone'
  BY <1>1, <1>5 DEF TreeInv, TreeTypes, Matching, Issued, Unborn, DeletedIsGone
<1>7. KindsKept'
  BY <1>1, <1>5 DEF TreeInv, KindsKept
<1>8. DeletionCovers'
  <2>1. \A f \in Nodes : Children(f)' = Children(f)
    BY <1>5 DEF Children
  <2> QED
    BY <1>1, <2>1 DEF TreeInv, DeletionCovers
<1>9. OrphansAccounted'
  <2>1. Orphans' = Orphans
    BY <1>5 DEF Orphans, IsFolder
  <2> QED
    BY <1>1, <2>1 DEF TreeInv, OrphansAccounted
<1> QED
  BY <1>6, <1>7, <1>8, <1>9 DEF TreeInv

\* The invariant holds at the start.
LEMMA TreeInitial == Init => TreeInv
<1> SUFFICES ASSUME Init PROVE TreeInv
  OBVIOUS
<1>1. /\ records = InitialTree /\ issued = DOMAIN InitialTree /\ load \in Loads
      /\ \A p \in Procs : req[p].op = "none"
      /\ \A c \in Procs \X Nodes : calls[c].at = "none" /\ calls[c].todo = {}
  BY DEF Init, NoRequest, Call
<1>2. TreeTypes
  <2>1. \A n \in Nodes : Call("none", n) \in CallRecord
    BY DEF Call, CallRecord, Labels, Ends
  <2>2. calls \in [Procs \X Nodes -> CallRecord]
    BY <2>1 DEF Init
  <2> QED
    BY <1>1, <2>2, TreeAssumption DEF Init, TreeTypes
<1>3. OrphansAccounted
  BY <1>1, TreeAssumption DEF OrphansAccounted, Orphans, IsFolder
<1> QED
  BY <1>1, <1>2, <1>3
     DEF TreeInv, Matching, Issued, KindsKept, Unborn, DeletedIsGone, DeletionCovers, Holding,
         CreateSteps, UpdateSteps, DeleteSteps, LockSteps, UnlockSteps

\* Every step of a call keeps the invariant.
LEMMA StepKeeps == ASSUME TreeInv, NEW c \in Procs \X Nodes, Step(c) PROVE TreeInv'
<1>1. CASE CreateCheck(c) \/ CreateAdd(c)
  BY <1>1, CreateChecks, CreateAdds
<1>2. CASE UpdateRead(c) \/ DeleteRead(c) \/ LockRead(c) \/ UnlockRead(c)
  BY <1>2, Readings
<1>3. CASE UpdateCheck(c) \/ UpdateCheckNew(c) \/ UpdateChildren(c)
  BY <1>3, UpdateChecks, NewParentChecks, ChildrenChecks
<1>4. CASE DeleteCheck(c) \/ DeleteList(c) \/ DeleteChildren(c) \/ DeleteLast(c)
  BY <1>4, DeleteChecks, DeleteLists, DeleteAllChildren, DeleteLasts
<1>5. CASE LockCheck(c) \/ LockList(c) \/ UnlockList(c) \/ LockChildren(c) \/ UnlockChildren(c)
  BY <1>5, LockChecks, CascadeLists, Cascades
<1>6. CASE UpdateWrite(c) \/ LockWrite(c) \/ UnlockWrite(c)
  BY <1>6, Writes
<1> QED
  BY <1>1, <1>2, <1>3, <1>4, <1>5, <1>6 DEF Step

\* So does every step.
LEMMA TreeStep == TreeInv /\ [Next]_vars => TreeInv'
  <1> SUFFICES ASSUME TreeInv, [Next]_vars PROVE TreeInv'
    OBVIOUS
  <1>1. CASE UNCHANGED vars
    BY <1>1 DEF vars, TreeInv, TreeTypes, Matching, Issued, KindsKept, Unborn, DeletedIsGone,
                DeletionCovers, OrphansAccounted, Orphans, Children, IsFolder
  <1>2. CASE Next
    BY <1>2, StepKeeps, Starts, Replies, Marks DEF Next
  <1> QED
    BY <1>1, <1>2

\* For any number of requests, nodes and users, however they interleave: a
\* record without its folder was refused, out of the page, or written into a
\* folder that was going (delete, create, update, lock and unlock).
THEOREM NoOtherOrphans == Spec => []OrphansAccounted
<1>1. TreeInv => OrphansAccounted
  BY DEF TreeInv
<1> QED
  BY <1>1, TreeInitial, TreeStep, PTL DEF Spec

----------------------------------------------------------------------------
(* One request at a time                                                   *)

\* The call of the one process for a node.
StepOf(p, n) == calls[<<p, n>>].at
Copy(p, n) == calls[<<p, n>>].rec

\* A record of a node, but for its workflow mark and its content.
Like(r, s) ==
    /\ r.kind = s.kind /\ r.parent = s.parent /\ r.only = s.only
    /\ r.meta.locked = s.meta.locked /\ r.meta.lockedBy = s.meta.lockedBy

FitsFolder(r) == IsFolder(r.parent) /\ Satisfies(r, Folder(r.parent).only)

Tested == {"update.children", "update.write"}
Asking == {"create.add", "lock.parent", "lock.write", "unlock.write"} \cup (UpdateSteps \ {"update"})

\* What the call for a node holds is the node, or what it is to become, and
\* what it has checked still holds.
CopyOK(p, n) ==
    LET at == StepOf(p, n) rec == Copy(p, n) r == req[p] IN
    /\ at = "create.add" => FitsFolder(rec) /\ rec.only = Kinds /\ rec.meta.lockedBy = NoOne
    /\ at \in CreateSteps => Children(n) = {}
    /\ at \in Asking \ {"create.add"} => n \in DOMAIN records
    /\ at \in {"update.parent", "lock.parent", "lock.write", "unlock.write"} => Like(rec, records[n])
    /\ at \in Tested \cup {"update.new"} =>
          /\ rec.kind = records[n].kind
          /\ r.only = Unsent => rec.only = records[n].only
          /\ r.parent = Unsent => rec.parent = records[n].parent
    /\ at \in Tested => FitsFolder(rec)
    /\ at = "update.write" /\ r.only # Unsent /\ rec.kind = "folder" =>
          \A k \in Children(n) \ spared : Satisfies(records[k], rec.only)

\* A parent is the root, a folder, or a node that was deleted.
ParentOK(n) ==
    LET f == records[n].parent
    IN  f = Root \/ (f \in issued /\ (f \in DOMAIN records => records[f].kind = "folder"))

FilterOK(n) ==
    IsFolder(records[n].parent) /\ n \notin spared /\ records[n].parent # n =>
       Satisfies(records[n], Folder(records[n].parent).only)

OneCall(p) == req[p].op \in {"create", "update"} =>
    \A n \in Nodes \ {req[p].node} : StepOf(p, n) = "none"

FiltersAlone(p) ==
    /\ \A q \in Procs \ {p} : req[q] = NoRequest
    /\ OneCall(p)
    /\ \A n \in Nodes : CopyOK(p, n)
    /\ \A n \in DOMAIN records : ParentOK(n) /\ FilterOK(n)

FiltersInv == \A p \in Procs : load.procs = {p} => FiltersAlone(p)

\* A call that asks nothing of what it holds has nothing to show.
LEMMA NothingHeld ==
  ASSUME NEW p, NEW n, StepOf(p, n)' \notin Asking \cup CreateSteps
  PROVE  CopyOK(p, n)'
  BY DEF CopyOK, Asking, Tested, UpdateSteps

\* Every call is the one process's.
LEMMA OnlyOnes ==
  ASSUME TreeInv, NEW p \in Procs, FiltersAlone(p), NEW c \in Procs \X Nodes, calls[c].at # "none"
  PROVE  c[1] = p /\ c[2] \in Nodes /\ c = <<p, c[2]>> /\ StepOf(p, c[2]) = calls[c].at /\ Copy(p, c[2]) = calls[c].rec
  <1>1. c[1] \in Procs /\ c[2] \in Nodes /\ c = <<c[1], c[2]>>
    OBVIOUS
  <1>2. c[1] = p
    BY <1>1 DEF FiltersAlone, TreeInv, Matching, NoRequest
  <1> QED
    BY <1>1, <1>2 DEF StepOf, Copy

\* The tree stays as it is, and every call holds what it did or what it may.
LEMMA SameTreeKeeps ==
  ASSUME TreeInv, NEW p \in Procs, FiltersAlone(p), UNCHANGED <<load, req, issued>>, spared \subseteq spared',
         DOMAIN records' = DOMAIN records,
         \A k \in DOMAIN records : /\ records'[k].kind = records[k].kind
                                   /\ records'[k].parent = records[k].parent
                                   /\ records'[k].only = records[k].only,
         \A n \in Nodes :
            \/ calls'[<<p, n>>] = calls[<<p, n>>] /\ (n \in DOMAIN records => Like(records'[n], records[n]))
            \/ CopyOK(p, n)' /\ (req[p].op \in {"create", "update"} => StepOf(p, n) # "none")
  PROVE  FiltersAlone(p)'
  <1>1. /\ \A f : IsFolder(f)' <=> IsFolder(f)
        /\ \A n : Children(n)' = Children(n)
    BY DEF IsFolder, Children
  <1>2. ASSUME NEW r, IsFolder(r.parent) PROVE Satisfies(r, Folder(r.parent).only)' <=> Satisfies(r, Folder(r.parent).only)
    BY <1>2 DEF Satisfies, Folder, IsFolder
  <1>3. ASSUME NEW n \in DOMAIN records PROVE ParentOK(n)' /\ FilterOK(n)'
    <2>1. ParentOK(n) /\ FilterOK(n)
      BY <1>3 DEF FiltersAlone
    <2>2. ParentOK(n)'
      BY <2>1 DEF ParentOK
    <2>3. FilterOK(n)'
      <3> SUFFICES ASSUME IsFolder(records[n].parent), n \notin spared, records[n].parent # n
                   PROVE  Satisfies(records'[n], Folder(records[n].parent)'.only)
        BY <1>1 DEF FilterOK
      <3>1. records[n].kind \in Folder(records[n].parent).only
        BY <2>1 DEF FilterOK, Satisfies
      <3>2. Folder(records[n].parent)'.only = Folder(records[n].parent).only
        BY DEF Folder, IsFolder
      <3> QED
        BY <3>1, <3>2 DEF Satisfies
    <2> QED
      BY <2>2, <2>3
  <1>4. ASSUME NEW n \in Nodes PROVE CopyOK(p, n)'
    <2>1. CopyOK(p, n)
      BY DEF FiltersAlone
    <2> SUFFICES ASSUME calls'[<<p, n>>] = calls[<<p, n>>], n \in DOMAIN records => Like(records'[n], records[n])
                 PROVE  CopyOK(p, n)'
      OBVIOUS
    <2>2. StepOf(p, n)' = StepOf(p, n) /\ Copy(p, n)' = Copy(p, n)
      BY DEF StepOf, Copy
    <2>3. FitsFolder(Copy(p, n))' <=> FitsFolder(Copy(p, n))
      BY <1>1, <1>2, <2>2 DEF FitsFolder
    <2>4. \A k \in Children(n) \ spared' : k \in Children(n) \ spared /\ (Satisfies(records'[k], Copy(p, n).only) <=> Satisfies(records[k], Copy(p, n).only))
      BY DEF Satisfies, Children
    <2> QED
      BY <1>1, <2>1, <2>2, <2>3, <2>4 DEF CopyOK, Like, Asking, Tested, UpdateSteps
  <1>5. OneCall(p)'
    <2> SUFFICES ASSUME req[p].op \in {"create", "update"}, NEW n \in Nodes \ {req[p].node} PROVE StepOf(p, n)' = "none"
      BY DEF OneCall
    <2>1. StepOf(p, n) = "none"
      BY DEF FiltersAlone, OneCall
    <2> QED
      BY <2>1 DEF StepOf
  <1> QED
    BY <1>3, <1>4, <1>5 DEF FiltersAlone

\* A step of a call that leaves the records, and the other calls but for those
\* it starts for children.
LEMMA OnwardKeeps ==
  ASSUME TreeInv, NEW p \in Procs, FiltersAlone(p), NEW c \in Procs \X Nodes, calls[c].at # "none",
         UNCHANGED <<records, load, req, issued>>, spared \subseteq spared',
         CopyOK(p, c[2])',
         \A d \in (Procs \X Nodes) \ {c} :
            \/ calls'[d] = calls[d]
            \/ calls'[d].at \in {"delete", "lock", "unlock"} /\ req[c[1]].op \notin {"create", "update"}
  PROVE  FiltersAlone(p)'
  <1>1. c[1] = p /\ c[2] \in Nodes /\ c = <<p, c[2]>> /\ StepOf(p, c[2]) = calls[c].at
    BY OnlyOnes
  <1>2. \A k \in DOMAIN records : records'[k] = records[k] /\ Like(records'[k], records[k])
    BY DEF Like
  <1>3. ASSUME NEW n \in Nodes, n # c[2], calls'[<<p, n>>] # calls[<<p, n>>]
        PROVE  CopyOK(p, n)' /\ req[p].op \notin {"create", "update"}
    <2>1. <<p, n>> \in (Procs \X Nodes) \ {c}
      BY <1>1, <1>3
    <2>2. calls'[<<p, n>>].at \in {"delete", "lock", "unlock"} /\ req[p].op \notin {"create", "update"}
      BY <1>1, <1>3, <2>1
    <2> QED
      BY <2>2, NothingHeld DEF StepOf, Asking, CreateSteps, UpdateSteps
  <1> QED
    BY <1>1, <1>2, <1>3, SameTreeKeeps

\* One call goes on, alone.
LEMMA NextKeeps ==
  ASSUME TreeInv, NEW p \in Procs, FiltersAlone(p), NEW c \in Procs \X Nodes, calls[c].at # "none",
         UNCHANGED <<records, load, req, issued>>, spared \subseteq spared',
         NEW next, calls' = [calls EXCEPT ![c] = next],
         next.at \notin Asking \cup CreateSteps \/ CopyOK(p, c[2])'
  PROVE  FiltersAlone(p)'
  <1>1. /\ calls'[c] = next /\ \A d \in (Procs \X Nodes) \ {c} : calls'[d] = calls[d]
    BY DEF TreeInv, TreeTypes
  <1>2. c = <<p, c[2]>>
    BY OnlyOnes
  <1>3. StepOf(p, c[2])' = next.at
    BY <1>1, <1>2 DEF StepOf
  <1>4. CopyOK(p, c[2])'
    BY <1>3, NothingHeld
  <1> QED
    BY <1>1, <1>4, OnwardKeeps

\* A call ends.
LEMMA RefusedKeeps ==
  ASSUME TreeInv, NEW p \in Procs, FiltersAlone(p), NEW c \in Procs \X Nodes, calls[c].at # "none",
         UNCHANGED <<records, load, req, issued>>, spared \subseteq spared', NEW reply \in {"ok", "error"}, Done(c, reply)
  PROVE  FiltersAlone(p)'
  <1>1. calls' = [calls EXCEPT ![c] = Call(reply, c[2])]
    BY DEF Done
  <1>2. Call(reply, c[2]).at \notin Asking \cup CreateSteps
    BY DEF Call, Asking, CreateSteps, UpdateSteps
  <1> QED
    BY <1>1, <1>2, NextKeeps

\* What a call holds after Hold and Goto.
LEMMA HeldNext ==
  ASSUME TreeInv, NEW p \in Procs, FiltersAlone(p), NEW c \in Procs \X Nodes, calls[c].at # "none", NEW to
  PROVE  /\ \A rec : Hold(c, to, rec) =>
              /\ calls' = [calls EXCEPT ![c] = [calls[c] EXCEPT !.at = to, !.rec = rec]]
              /\ StepOf(p, c[2])' = to /\ Copy(p, c[2])' = rec
         /\ Goto(c, to) =>
              /\ calls' = [calls EXCEPT ![c] = [calls[c] EXCEPT !.at = to]]
              /\ StepOf(p, c[2])' = to /\ Copy(p, c[2])' = Copy(p, c[2])
  <1>1. c = <<p, c[2]>> /\ calls[c] \in CallRecord /\ DOMAIN calls = Procs \X Nodes
    BY OnlyOnes DEF TreeInv, TreeTypes
  <1>2. ASSUME NEW rec, Hold(c, to, rec)
        PROVE  /\ calls' = [calls EXCEPT ![c] = [calls[c] EXCEPT !.at = to, !.rec = rec]]
               /\ StepOf(p, c[2])' = to /\ Copy(p, c[2])' = rec
    <2>1. calls' = [calls EXCEPT ![c] = [calls[c] EXCEPT !.at = to, !.rec = rec]]
      BY <1>1, <1>2 DEF Hold
    <2>2. calls'[c] = [calls[c] EXCEPT !.at = to, !.rec = rec]
      BY <1>1, <2>1
    <2>3. calls'[c].at = to /\ calls'[c].rec = rec
      BY <1>1, <2>2 DEF CallRecord
    <2> QED
      BY <1>1, <2>1, <2>3 DEF StepOf, Copy
  <1>3. ASSUME Goto(c, to)
        PROVE  /\ calls' = [calls EXCEPT ![c] = [calls[c] EXCEPT !.at = to]]
               /\ StepOf(p, c[2])' = to /\ Copy(p, c[2])' = Copy(p, c[2])
    <2>1. calls' = [calls EXCEPT ![c] = [calls[c] EXCEPT !.at = to]]
      BY <1>1, <1>3 DEF Goto
    <2>2. calls'[c] = [calls[c] EXCEPT !.at = to]
      BY <1>1, <2>1
    <2>3. calls'[c].at = to /\ calls'[c].rec = calls[c].rec
      BY <1>1, <2>2 DEF CallRecord
    <2> QED
      BY <1>1, <2>1, <2>3 DEF StepOf, Copy
  <1> QED
    BY <1>2, <1>3

\* A call goes on with what it holds, or with another record.
LEMMA HoldFits ==
  ASSUME TreeInv, NEW p \in Procs, FiltersAlone(p), NEW c \in Procs \X Nodes, calls[c].at # "none",
         UNCHANGED <<records, load, req, issued>>, spared \subseteq spared', NEW to, NEW rec,
         Hold(c, to, rec) \/ Goto(c, to),
         to \notin Asking \cup CreateSteps \/ CopyOK(p, c[2])'
  PROVE  FiltersAlone(p)'
  <1>1. PICK next : calls' = [calls EXCEPT ![c] = next]
    BY HeldNext
  <1>2. StepOf(p, c[2])' = to
    BY HeldNext
  <1>3. CopyOK(p, c[2])'
    BY <1>2, NothingHeld
  <1> QED
    BY <1>1, <1>3, NextKeeps

\* The folder of a record is a folder as long as the records stay.
LEMMA FitsStill ==
  ASSUME UNCHANGED records, NEW r, FitsFolder(r), NEW p, NEW n, Copy(p, n)' = r
  PROVE  FitsFolder(Copy(p, n))'
  BY DEF FitsFolder, IsFolder, Satisfies, Folder

\* A request as it is read.
LEMMA RequestOf ==
  ASSUME TreeInv, NEW p \in Procs, req[p].op # "none"
  PROVE  /\ req[p] \in Request /\ req[p].node \in Nodes
         /\ req[p].op # "update" => req[p].user \in Users
         /\ req[p].op = "create" => req[p].kind \in Kinds /\ req[p].parent \in Nodes \cup {Root}
  <1>1. req[p] \in Request
    BY TreeAssumption DEF TreeInv, TreeTypes, NoRequest
  <1> QED
    BY <1>1 DEF Request, CreateRequest, UpdateRequest, NodeRequest

\* What create is to add fits the folder it has just read.
LEMMA CreateCheckAlone ==
  ASSUME TreeInv, NEW p \in Procs, FiltersAlone(p), NEW c \in Procs \X Nodes, CreateCheck(c)
  PROVE  FiltersAlone(p)'
  <1> DEFINE r == req[c[1]]
  <1>1. calls[c].at = "create" /\ UNCHANGED <<records, load, req, issued, spared, strayed>>
    BY DEF CreateCheck, Proceed, At
  <1>2. CASE Done(c, "error")
    BY <1>1, <1>2, RefusedKeeps
  <1>3. CASE /\ WritableBy(r.user, r.parent) /\ Satisfies(Created(r), Folder(r.parent).only)
             /\ Hold(c, "create.add", Created(r))
    <2>0. PICK v : v = Created(r)
      OBVIOUS
    <2>1. StepOf(p, c[2]) = "create" /\ c[2] \in Nodes
      BY <1>1, OnlyOnes
    <2>a. StepOf(p, c[2])' = "create.add" /\ Copy(p, c[2])' = v
      <3>1. Hold(c, "create.add", v)
        BY <1>3, <2>0
      <3> QED
        BY <1>1, <3>1, HeldNext
    <2>2. v.parent = r.parent /\ v.only = Kinds /\ v.meta.lockedBy = NoOne
      BY <2>0 DEF Created, FreshNode
    <2>b. FitsFolder(v)
      BY <1>3, <2>0, <2>2 DEF FitsFolder, WritableBy
    <2>3. FitsFolder(Copy(p, c[2]))'
      BY <1>1, <2>a, <2>b, FitsStill
    <2>4. Children(c[2])' = {}
      BY <1>1, <2>1 DEF FiltersAlone, CopyOK, CreateSteps, Children
    <2>5. CopyOK(p, c[2])'
      BY <2>a, <2>2, <2>3, <2>4 DEF CopyOK, Asking, Tested, UpdateSteps
    <2> QED
      BY <1>1, <1>3, <2>5, HoldFits
  <1> QED
    BY <1>2, <1>3 DEF CreateCheck, Proceed

\* A first reading.
LEMMA ReadAlone ==
  ASSUME TreeInv, NEW p \in Procs, FiltersAlone(p), NEW c \in Procs \X Nodes,
         UpdateRead(c) \/ DeleteRead(c) \/ LockRead(c) \/ UnlockRead(c)
  PROVE  FiltersAlone(p)'
  <1>1. PICK to \in {"update.parent", "delete.parent", "lock.parent", "unlock.write"} :
           Done(c, "error") \/ (c[2] \in DOMAIN records /\ Hold(c, to, records[c[2]]))
    BY DEF UpdateRead, DeleteRead, LockRead, UnlockRead, ReadNode, Proceed
  <1>2. calls[c].at # "none" /\ UNCHANGED <<records, load, req, issued, spared, strayed>>
    BY DEF UpdateRead, DeleteRead, LockRead, UnlockRead, ReadNode, Proceed, At
  <1>3. CASE Done(c, "error")
    BY <1>2, <1>3, RefusedKeeps
  <1>4. CASE c[2] \in DOMAIN records /\ Hold(c, to, records[c[2]])
    <2>1. StepOf(p, c[2])' = to /\ Copy(p, c[2])' = records[c[2]]
      BY <1>2, <1>4, HeldNext
    <2>2. CopyOK(p, c[2])'
      BY <1>2, <1>4, <2>1 DEF CopyOK, Like, Asking, Tested, UpdateSteps, CreateSteps
    <2> QED
      BY <1>2, <1>4, <2>2, HoldFits
  <1> QED
    BY <1>1, <1>3, <1>4

\* update changes what it read where it is told to.
LEMMA UpdateCheckAlone ==
  ASSUME TreeInv, NEW p \in Procs, FiltersAlone(p), NEW c \in Procs \X Nodes, UpdateCheck(c)
  PROVE  FiltersAlone(p)'
  <1> DEFINE rec == calls[c].rec
  <1>1. calls[c].at = "update.parent" /\ UNCHANGED <<records, load, req, issued, spared, strayed>>
    BY DEF UpdateCheck, Proceed, At
  <1>2. CASE Done(c, "error")
    BY <1>1, <1>2, RefusedKeeps
  <1>3. CASE Hold(c, "update.new", Changed(rec, Principal(c), req[c[1]]))
    <2>0. c[1] = p /\ StepOf(p, c[2]) = "update.parent" /\ Copy(p, c[2]) = rec /\ c[2] \in Nodes
      BY <1>1, OnlyOnes
    <2>a. PICK v : v = Changed(rec, Principal(c), req[c[1]])
      OBVIOUS
    <2>1. StepOf(p, c[2])' = "update.new" /\ Copy(p, c[2])' = v
      <3>1. Hold(c, "update.new", v)
        BY <1>3, <2>a
      <3> QED
        BY <1>1, <3>1, HeldNext
    <2>2. c[2] \in DOMAIN records /\ Like(rec, records[c[2]]) /\ rec \in TreeRecord
      BY <1>1, <2>0, HeldRecord DEF FiltersAlone, CopyOK, Asking, UpdateSteps, Holding
    <2>3. /\ v.kind = rec.kind
          /\ req[p].only = Unsent => v.only = rec.only
          /\ req[p].parent = Unsent => v.parent = rec.parent
      BY <2>0, <2>a, <2>2 DEF Changed, Given, TreeRecord
    <2>4. CopyOK(p, c[2])'
      BY <1>1, <2>1, <2>2, <2>3 DEF CopyOK, Like, Asking, Tested, UpdateSteps, CreateSteps
    <2> QED
      BY <1>1, <1>3, <2>4, HoldFits
  <1> QED
    BY <1>2, <1>3 DEF UpdateCheck, Proceed

\* The new folder lets the node in.
LEMMA NewParentAlone ==
  ASSUME TreeInv, NEW p \in Procs, FiltersAlone(p), NEW c \in Procs \X Nodes, UpdateCheckNew(c)
  PROVE  FiltersAlone(p)'
  <1> DEFINE rec == calls[c].rec
             to == IF rec.kind = "folder" /\ req[c[1]].only # Unsent THEN "update.children" ELSE "update.write"
  <1>1. calls[c].at = "update.new" /\ UNCHANGED <<records, load, req, issued, spared, strayed>>
    BY DEF UpdateCheckNew, Proceed, At
  <1>2. CASE Done(c, "error")
    BY <1>1, <1>2, RefusedKeeps
  <1>3. CASE FitsFolder(rec) /\ Goto(c, to)
    <2>0. PICK v : v = rec
      OBVIOUS
    <2>1. c[1] = p /\ StepOf(p, c[2]) = "update.new" /\ Copy(p, c[2]) = v /\ c[2] \in Nodes
      BY <1>1, <2>0, OnlyOnes
    <2>a. StepOf(p, c[2])' = to /\ Copy(p, c[2])' = v
      BY <1>1, <1>3, <2>1, HeldNext
    <2>4. /\ c[2] \in DOMAIN records /\ v.kind = records[c[2]].kind
          /\ req[p].only = Unsent => v.only = records[c[2]].only
          /\ req[p].parent = Unsent => v.parent = records[c[2]].parent
      BY <2>1 DEF FiltersAlone, CopyOK, Asking, UpdateSteps, Tested
    <2>5. FitsFolder(Copy(p, c[2]))'
      BY <1>1, <1>3, <2>0, <2>a, FitsStill
    <2>6. CopyOK(p, c[2])'
      BY <1>1, <2>0, <2>1, <2>a, <2>4, <2>5 DEF CopyOK, Asking, Tested, UpdateSteps, CreateSteps
    <2> QED
      BY <1>1, <1>3, <2>6, HoldFits
  <1> QED
    BY <1>2, <1>3 DEF UpdateCheckNew, Proceed, FitsFolder

\* The new filters let in the children of a page; the others are spared.
LEMMA ChildrenAlone ==
  ASSUME TreeInv, NEW p \in Procs, FiltersAlone(p), NEW c \in Procs \X Nodes, UpdateChildren(c)
  PROVE  FiltersAlone(p)'
  <1> DEFINE rec == calls[c].rec
  <1>1. /\ calls[c].at = "update.children" /\ UNCHANGED <<records, load, req, issued, strayed>>
        /\ spared \subseteq spared'
    BY DEF UpdateChildren, At
  <1>2. CASE Done(c, "error")
    BY <1>1, <1>2, RefusedKeeps
  <1>3. ASSUME NEW page \in Pages(c[2]), \A k \in page : Satisfies(records[k], rec.only), Goto(c, "update.write"),
               spared' = spared \cup (Children(c[2]) \ page)
        PROVE  FiltersAlone(p)'
    <2>0. PICK v : v = rec
      OBVIOUS
    <2>1. StepOf(p, c[2]) = "update.children" /\ Copy(p, c[2]) = v /\ c[2] \in Nodes
      BY <1>1, <2>0, OnlyOnes
    <2>a. StepOf(p, c[2])' = "update.write" /\ Copy(p, c[2])' = v
      BY <1>1, <1>3, <2>1, HeldNext
    <2>2. /\ c[2] \in DOMAIN records /\ v.kind = records[c[2]].kind /\ FitsFolder(Copy(p, c[2]))
          /\ req[p].only = Unsent => v.only = records[c[2]].only
          /\ req[p].parent = Unsent => v.parent = records[c[2]].parent
      BY <2>1 DEF FiltersAlone, CopyOK, Asking, UpdateSteps, Tested
    <2>b. FitsFolder(v)
      BY <2>1, <2>2 DEF FitsFolder, IsFolder, Satisfies, Folder
    <2>3. FitsFolder(Copy(p, c[2]))'
      BY <1>1, <2>a, <2>b, FitsStill
    <2>4. \A k \in Children(c[2]) \ spared' : records[k].kind \in v.only
      BY <1>3, <2>0 DEF Satisfies
    <2>5. \A k \in Children(c[2])' \ spared' : records'[k].kind \in v.only
      BY <1>1, <2>4 DEF Children
    <2>6. CopyOK(p, c[2])'
      BY <1>1, <2>a, <2>2, <2>3, <2>5 DEF CopyOK, Asking, Tested, UpdateSteps, CreateSteps, Satisfies
    <2> QED
      BY <1>1, <1>3, <2>6, HoldFits
  <1> QED
    BY <1>2, <1>3 DEF UpdateChildren

\* The steps of a deletion and of a cascade hold nothing that could be stale.
LEMMA OtherStepsAlone ==
  ASSUME TreeInv, NEW p \in Procs, FiltersAlone(p), NEW c \in Procs \X Nodes,
         \/ DeleteCheck(c) \/ DeleteList(c) \/ DeleteChildren(c)
         \/ LockList(c) \/ UnlockList(c) \/ LockChildren(c) \/ UnlockChildren(c)
  PROVE  FiltersAlone(p)'
  <1> DEFINE free == {"ok", "error", "delete.list", "delete.last", "delete.children", "lock.children", "unlock.children"}
  <1>1. /\ calls[c].at # "none" /\ UNCHANGED <<records, load, req, issued>>
        /\ spared \subseteq spared'
    BY DEF DeleteCheck, DeleteList, DeleteChildren, LockList, UnlockList, LockChildren, UnlockChildren,
           CheckParent, Proceed, ListToCascade, Cascade, At
  <1>2. c = <<p, c[2]>> /\ c[1] = p /\ calls[c] \in CallRecord /\ DOMAIN calls = Procs \X Nodes
    BY <1>1, OnlyOnes DEF TreeInv, TreeTypes
  <1>3. calls[c].at \in DeleteSteps \cup LockSteps \cup UnlockSteps
    BY DEF DeleteCheck, DeleteList, DeleteChildren, LockList, UnlockList, LockChildren, UnlockChildren,
           CheckParent, Proceed, ListToCascade, Cascade, At, DeleteSteps, LockSteps, UnlockSteps
  <1>4. req[p].op \in {"delete", "lock", "unlock"}
    BY <1>2, <1>3 DEF TreeInv, Matching
  <1>5. /\ calls'[c].at \in free
        /\ \A d \in (Procs \X Nodes) \ {c} : calls'[d] = calls[d] \/ calls'[d].at \in {"delete", "lock", "unlock"}
    <2>1. CASE DeleteCheck(c)
      BY <2>1, <1>2 DEF DeleteCheck, CheckParent, Proceed, Done, Goto, Call, CallRecord
    <2>2. CASE DeleteList(c)
      <3>1. PICK page \in Pages(c[2]) :
               calls' = [d \in DOMAIN calls |->
                          IF d = c THEN [calls[c] EXCEPT !.at = "delete.children", !.todo = page]
                          ELSE IF d[1] = c[1] /\ d[2] \in page /\ At(d, "none")
                               THEN Call("delete", d[2])
                               ELSE calls[d]]
        BY <2>2 DEF DeleteList
      <3>2. calls'[c] = [calls[c] EXCEPT !.at = "delete.children", !.todo = page]
        BY <3>1, <1>2
      <3>3. calls'[c].at = "delete.children"
        BY <3>2, <1>2 DEF CallRecord
      <3>4. \A d \in (Procs \X Nodes) \ {c} : calls'[d] = calls[d] \/ calls'[d] = Call("delete", d[2])
        BY <3>1, <1>2
      <3>5. \A n : Call("delete", n).at = "delete"
        BY DEF Call
      <3> QED
        BY <3>3, <3>4, <3>5
    <2>3. CASE DeleteChildren(c)
      <3>1. calls' = [calls EXCEPT ![c] = [calls[c] EXCEPT !.at = "delete.last", !.rec = NoRecord]]
        BY <2>3, <1>2 DEF DeleteChildren, Hold
      <3>2. calls'[c] = [calls[c] EXCEPT !.at = "delete.last", !.rec = NoRecord]
        BY <3>1, <1>2
      <3> QED
        BY <3>1, <3>2, <1>2 DEF CallRecord
    <2>4. CASE LockList(c) \/ UnlockList(c)
      BY <2>4, <1>2 DEF LockList, UnlockList, ListToCascade, CallRecord
    <2>5. CASE LockChildren(c) \/ UnlockChildren(c)
      <3>1. PICK start \in {"lock", "unlock"} : Cascade(c, calls[c].at, start) /\ calls[c].at \in {"lock.children", "unlock.children"}
        BY <2>5 DEF LockChildren, UnlockChildren, Cascade, At
      <3>2. CASE Done(c, "ok")
        BY <3>2, <1>2 DEF Done, Call
      <3>3. ASSUME NEW k, calls' = [d \in DOMAIN calls |->
                   IF d = c
                   THEN [calls[c] EXCEPT !.todo = @ \ {k},
                           !.child = IF At(<<c[1], k>>, "none") THEN k ELSE c[2]]
                   ELSE IF d = <<c[1], k>> /\ At(d, "none") THEN Call(start, k)
                        ELSE calls[d]]
            PROVE  /\ calls'[c].at \in free
                   /\ \A d \in (Procs \X Nodes) \ {c} : calls'[d] = calls[d] \/ calls'[d].at \in {"delete", "lock", "unlock"}
        <4>1. calls'[c] = [calls[c] EXCEPT !.todo = @ \ {k}, !.child = IF At(<<c[1], k>>, "none") THEN k ELSE c[2]]
          BY <3>3, <1>2
        <4>2. calls'[c].at = calls[c].at
          BY <4>1, <1>2 DEF CallRecord
        <4>3. \A d \in (Procs \X Nodes) \ {c} : calls'[d] = calls[d] \/ calls'[d] = Call(start, k)
          BY <3>3, <1>2
        <4> QED
          BY <3>1, <4>2, <4>3 DEF Call
      <3> QED
        BY <3>1, <3>2, <3>3 DEF Cascade
    <2> QED
      BY <2>1, <2>2, <2>3, <2>4, <2>5
  <1>6. CopyOK(p, c[2])'
    BY <1>2, <1>5, NothingHeld DEF StepOf, Asking, CreateSteps, UpdateSteps
  <1> QED
    BY <1>1, <1>2, <1>4, <1>5, <1>6, OnwardKeeps

\* The folder of a node that is to be locked was asked.
LEMMA LockCheckAlone ==
  ASSUME TreeInv, NEW p \in Procs, FiltersAlone(p), NEW c \in Procs \X Nodes, LockCheck(c)
  PROVE  FiltersAlone(p)'
  <1>1. calls[c].at = "lock.parent" /\ UNCHANGED <<records, load, req, issued, spared, strayed>>
    BY DEF LockCheck, CheckParent, Proceed, At
  <1>2. CASE Done(c, "error")
    BY <1>1, <1>2, RefusedKeeps
  <1>3. CASE Goto(c, "lock.write")
    <2>1. StepOf(p, c[2]) = "lock.parent" /\ c[2] \in Nodes
      BY <1>1, OnlyOnes
    <2>2. StepOf(p, c[2])' = "lock.write" /\ Copy(p, c[2])' = Copy(p, c[2])
      BY <1>1, <1>3, HeldNext
    <2>3. c[2] \in DOMAIN records /\ Like(Copy(p, c[2]), records[c[2]])
      BY <2>1 DEF FiltersAlone, CopyOK, Asking
    <2>4. CopyOK(p, c[2])'
      BY <1>1, <2>2, <2>3 DEF CopyOK, Like, Asking, Tested, UpdateSteps, CreateSteps
    <2> QED
      BY <1>1, <1>3, <2>4, HoldFits
  <1> QED
    BY <1>2, <1>3 DEF LockCheck, CheckParent, Proceed

\* lock and unlock write what they read, but for the lock.
LEMMA CascadeWriteIs ==
  ASSUME TreeInv, NEW p \in Procs, FiltersAlone(p), NEW c \in Procs \X Nodes, LockWrite(c) \/ UnlockWrite(c)
  PROVE  /\ c = <<p, c[2]>> /\ c[2] \in Nodes /\ c[2] \in DOMAIN records /\ req[p].op \in {"lock", "unlock"}
         /\ UNCHANGED <<load, req, issued, spared>> /\ DOMAIN records' = DOMAIN records
         /\ \A k \in DOMAIN records : /\ records'[k].kind = records[k].kind
                                      /\ records'[k].parent = records[k].parent
                                      /\ records'[k].only = records[k].only
                                      /\ k # c[2] => records'[k] = records[k]
         /\ \A d \in (Procs \X Nodes) \ {c} : calls'[d] = calls[d]
         /\ LET m == records'[c[2]].meta at == StepOf(p, c[2])'
                next == IF records[c[2]].kind = "folder" THEN <<"lock.list", "unlock.list">> ELSE <<"ok", "ok">>
            IN  \/ /\ LockWrite(c) /\ StepOf(p, c[2]) = "lock.write" /\ req[p].op = "lock" /\ at = next[1]
                   /\ m.locked /\ m.lockedBy = Principal(c)
                \/ /\ UnlockWrite(c) /\ StepOf(p, c[2]) = "unlock.write" /\ req[p].op = "unlock" /\ at = next[2]
                   /\ ~m.locked /\ m.lockedBy = NoOne
  <1> DEFINE rec == calls[c].rec
  <1>1. calls[c].at \in {"lock.write", "unlock.write"} /\ UNCHANGED <<load, req, issued, spared>>
    BY DEF LockWrite, UnlockWrite, WriteNode, At
  <1>2. c = <<p, c[2]>> /\ c[1] = p /\ c[2] \in Nodes /\ StepOf(p, c[2]) = calls[c].at /\ Copy(p, c[2]) = rec
    BY <1>1, OnlyOnes
  <1>3. c[2] \in DOMAIN records /\ Like(rec, records[c[2]]) /\ rec \in TreeRecord
    BY <1>1, <1>2, HeldRecord DEF FiltersAlone, CopyOK, Asking, UpdateSteps, Holding
  <1>4. rec.meta \in NodeRecord /\ records \in [DOMAIN records -> TreeRecord] /\ DOMAIN calls = Procs \X Nodes
        /\ calls[c] \in CallRecord
    BY <1>3 DEF TreeRecord, TreeInv, TreeTypes
  <1>5. PICK meta, to :
          /\ records' = [records EXCEPT ![c[2]] = [rec EXCEPT !.meta = meta]] /\ Goto(c, to)
          /\ \/ /\ LockWrite(c) /\ calls[c].at = "lock.write" /\ to = IF rec.kind = "folder" THEN "lock.list" ELSE "ok"
                /\ meta = Locked(rec.meta, Principal(c), {})
             \/ /\ UnlockWrite(c) /\ calls[c].at = "unlock.write" /\ to = IF rec.kind = "folder" THEN "unlock.list" ELSE "ok"
                /\ meta = Unlocked(rec.meta)
    BY <1>1, <1>3 DEF LockWrite, UnlockWrite, WriteNode, At
  <1>6. calls'[c].at = to /\ \A d \in (Procs \X Nodes) \ {c} : calls'[d] = calls[d]
    BY <1>4, <1>5 DEF Goto, CallRecord
  <1>7. /\ DOMAIN records' = DOMAIN records
        /\ records'[c[2]] = [rec EXCEPT !.meta = meta]
        /\ \A k \in DOMAIN records : k # c[2] => records'[k] = records[k]
    BY <1>3, <1>4, <1>5
  <1>8. /\ records'[c[2]].kind = rec.kind /\ records'[c[2]].parent = rec.parent /\ records'[c[2]].only = rec.only
        /\ records'[c[2]].meta = meta
    BY <1>3, <1>7 DEF TreeRecord
  <1>9. /\ Locked(rec.meta, Principal(c), {}).locked /\ Locked(rec.meta, Principal(c), {}).lockedBy = Principal(c)
        /\ ~Unlocked(rec.meta).locked /\ Unlocked(rec.meta).lockedBy = NoOne
    BY <1>4 DEF Locked, Unlocked, NodeRecord
  <1>10. /\ calls[c].at = "lock.write" => req[p].op = "lock"
         /\ calls[c].at = "unlock.write" => req[p].op = "unlock"
    BY <1>2 DEF TreeInv, Matching, LockSteps, UnlockSteps
  <1>11. StepOf(p, c[2])' = to
    BY <1>2, <1>6 DEF StepOf
  <1>12. \A k \in DOMAIN records : /\ records'[k].kind = records[k].kind
                                   /\ records'[k].parent = records[k].parent
                                   /\ records'[k].only = records[k].only
    BY <1>3, <1>7, <1>8 DEF Like
  <1>13. rec.kind = records[c[2]].kind
    BY <1>3 DEF Like
  <1>14. \/ /\ LockWrite(c) /\ StepOf(p, c[2]) = "lock.write" /\ req[p].op = "lock"
            /\ StepOf(p, c[2])' = IF records[c[2]].kind = "folder" THEN "lock.list" ELSE "ok"
            /\ records'[c[2]].meta.locked /\ records'[c[2]].meta.lockedBy = Principal(c)
         \/ /\ UnlockWrite(c) /\ StepOf(p, c[2]) = "unlock.write" /\ req[p].op = "unlock"
            /\ StepOf(p, c[2])' = IF records[c[2]].kind = "folder" THEN "unlock.list" ELSE "ok"
            /\ ~records'[c[2]].meta.locked /\ records'[c[2]].meta.lockedBy = NoOne
    <2>1. CASE calls[c].at = "lock.write"
      BY <2>1, <1>2, <1>5, <1>8, <1>9, <1>10, <1>11, <1>13
    <2>2. CASE calls[c].at = "unlock.write"
      BY <2>2, <1>2, <1>5, <1>8, <1>9, <1>10, <1>11, <1>13
    <2> QED
      BY <1>1, <2>1, <2>2
  <1> QED
    BY <1>1, <1>2, <1>3, <1>6, <1>7, <1>10, <1>12, <1>14

\* So they change neither kind, nor folder, nor filters.
LEMMA CascadeWriteAlone ==
  ASSUME TreeInv, NEW p \in Procs, FiltersAlone(p), NEW c \in Procs \X Nodes, LockWrite(c) \/ UnlockWrite(c)
  PROVE  FiltersAlone(p)'
  <1>1. /\ c = <<p, c[2]>> /\ c[2] \in Nodes /\ c[2] \in DOMAIN records /\ req[p].op \in {"lock", "unlock"}
        /\ UNCHANGED <<load, req, issued, spared>> /\ DOMAIN records' = DOMAIN records
        /\ \A k \in DOMAIN records : /\ records'[k].kind = records[k].kind
                                     /\ records'[k].parent = records[k].parent
                                     /\ records'[k].only = records[k].only
                                     /\ k # c[2] => records'[k] = records[k]
        /\ \A d \in (Procs \X Nodes) \ {c} : calls'[d] = calls[d]
        /\ StepOf(p, c[2])' \in {"lock.list", "unlock.list", "ok"}
    BY CascadeWriteIs
  <1>2. CopyOK(p, c[2])'
    BY <1>1, NothingHeld DEF Asking, CreateSteps, UpdateSteps
  <1>3. ASSUME NEW n \in Nodes, n # c[2]
        PROVE  calls'[<<p, n>>] = calls[<<p, n>>] /\ (n \in DOMAIN records => Like(records'[n], records[n]))
    BY <1>1, <1>3 DEF Like
  <1> QED
    BY <1>1, <1>2, <1>3, SameTreeKeeps

\* A node is changed to what was tested: its folder lets it in, and it its children.
LEMMA UpdateWriteAlone ==
  ASSUME TreeInv, NEW p \in Procs, FiltersAlone(p), NEW c \in Procs \X Nodes, UpdateWrite(c)
  PROVE  FiltersAlone(p)'
  <1>1. calls[c].at = "update.write" /\ UNCHANGED <<load, req, issued, spared>>
    BY DEF UpdateWrite, WriteNode, At
  <1>2. PICK n \in Nodes : n = c[2]
    OBVIOUS
  <1>3. c = <<p, n>> /\ StepOf(p, n) = "update.write"
    BY <1>1, <1>2, OnlyOnes
  <1>4. PICK rec : rec = calls[c].rec
    OBVIOUS
  <1>5. /\ n \in DOMAIN records /\ rec.kind = records[n].kind
        /\ req[p].only = Unsent => rec.only = records[n].only
        /\ FitsFolder(rec)
        /\ req[p].only # Unsent /\ rec.kind = "folder" =>
              \A k \in Children(n) \ spared : Satisfies(records[k], rec.only)
    <2>1. CopyOK(p, n) /\ Copy(p, n) = rec
      BY <1>3, <1>4 DEF FiltersAlone, Copy
    <2>2. FitsFolder(Copy(p, n))
      BY <1>3, <2>1 DEF CopyOK, Tested
    <2>3. FitsFolder(rec)
      BY <2>1, <2>2 DEF FitsFolder, IsFolder, Satisfies, Folder
    <2> QED
      BY <1>3, <2>1, <2>3 DEF CopyOK, Tested, Asking, UpdateSteps
  <1>6. records' = [records EXCEPT ![n] = rec] /\ calls' = [calls EXCEPT ![c].at = "ok"]
    BY <1>2, <1>4, <1>5 DEF UpdateWrite, WriteNode, Goto
  <1>7. /\ DOMAIN records' = DOMAIN records /\ records'[n] = rec
        /\ \A k \in DOMAIN records \ {n} : records'[k] = records[k]
        /\ \A k \in DOMAIN records : records'[k].kind = records[k].kind
    BY <1>5, <1>6 DEF TreeInv, TreeTypes
  <1>8. req[p].op = "update" /\ req[p].node = n
    <2>1. req[p].op = "update"
      BY <1>3, <1>1 DEF TreeInv, Matching, UpdateSteps
    <2> QED
      BY <1>3, <2>1 DEF FiltersAlone, OneCall
  <1>9. ASSUME NEW k \in Nodes PROVE StepOf(p, k)' \in {"none", "ok"} /\ (k # n => StepOf(p, k)' = "none")
    <2>1. k # n => StepOf(p, k) = "none"
      BY <1>8 DEF FiltersAlone, OneCall
    <2>2. calls'[<<p, n>>].at = "ok" /\ (k # n => calls'[<<p, k>>] = calls[<<p, k>>])
      BY <1>3, <1>6 DEF TreeInv, TreeTypes, CallRecord
    <2> QED
      BY <2>1, <2>2 DEF StepOf
  <1>10. \A k \in Nodes : CopyOK(p, k)'
    BY <1>9, NothingHeld DEF Asking, CreateSteps, UpdateSteps
  <1>11. OneCall(p)'
    BY <1>1, <1>8, <1>9 DEF OneCall
  <1>12. \A f : IsFolder(f)' <=> IsFolder(f)
    BY <1>7 DEF IsFolder
  <1>13. ASSUME NEW k \in DOMAIN records PROVE ParentOK(k)'
    <2>1. CASE k = n
      BY <2>1, <1>1, <1>5, <1>7 DEF ParentOK, FitsFolder, IsFolder, TreeInv, TreeTypes
    <2>2. CASE k # n
      BY <2>2, <1>1, <1>7 DEF FiltersAlone, ParentOK
    <2> QED
      BY <2>1, <2>2
  <1>14. ASSUME NEW k \in DOMAIN records PROVE FilterOK(k)'
    <2>0. PICK f : f = records'[k].parent
      OBVIOUS
    <2> SUFFICES ASSUME IsFolder(f), k \notin spared, f # k PROVE records[k].kind \in Folder(f)'.only
      BY <2>0, <1>1, <1>7, <1>12 DEF FilterOK, Satisfies, Folder, IsFolder
    <2>1. CASE f = Root
      <3>1. Folder(f)' = Folder(f)
        BY <2>1, <1>1 DEF Folder
      <3> QED
        BY <2>0, <3>1, <1>5, <1>7 DEF FiltersAlone, FilterOK, Satisfies, FitsFolder
    <2>2. CASE f # Root /\ f # n
      <3>1. Folder(f)' = records[f] /\ Folder(f) = records[f] /\ f \in DOMAIN records
        BY <2>2, <1>7 DEF Folder, IsFolder
      <3> QED
        BY <2>0, <3>1, <1>5, <1>7 DEF FiltersAlone, FilterOK, Satisfies, FitsFolder
    <2>3. CASE f # Root /\ f = n
      <3>1. Folder(f)' = rec /\ Folder(f) = records[n] /\ rec.kind = "folder"
        BY <2>3, <1>5, <1>7 DEF Folder, IsFolder
      <3>2. records[k].parent = n /\ k # n
        BY <2>0, <2>3, <1>7
      <3>3. CASE req[p].only = Unsent
        <4>1. rec.only = records[n].only /\ Folder(n) = records[n] /\ IsFolder(n)
          BY <2>3, <3>1, <3>3, <1>5 DEF IsFolder
        <4>2. records[k].kind \in Folder(n).only
          BY <3>2, <4>1 DEF FiltersAlone, FilterOK, Satisfies
        <4> QED
          BY <3>1, <4>1, <4>2
      <3>4. CASE req[p].only # Unsent
        <4>1. k \in Children(n)
          BY <3>2 DEF Children
        <4> QED
          BY <3>1, <3>4, <4>1, <1>5 DEF Satisfies
      <3> QED
        BY <3>3, <3>4
    <2> QED
      BY <2>1, <2>2, <2>3
  <1> QED
    BY <1>1, <1>7, <1>10, <1>11, <1>13, <1>14 DEF FiltersAlone

\* A node that was created fits its folder, and is nobody's folder yet.
LEMMA CreateAddAlone ==
  ASSUME TreeInv, NEW p \in Procs, FiltersAlone(p), NEW c \in Procs \X Nodes, CreateAdd(c)
  PROVE  FiltersAlone(p)'
  <1>1. calls[c].at = "create.add" /\ UNCHANGED <<load, req, issued, spared>>
    BY DEF CreateAdd, At
  <1>2. PICK n \in Nodes : n = c[2]
    OBVIOUS
  <1>3. c = <<p, n>> /\ StepOf(p, n) = "create.add"
    BY <1>1, <1>2, OnlyOnes
  <1>4. PICK rec : rec = calls[c].rec
    OBVIOUS
  <1>5. rec.only = Kinds /\ FitsFolder(rec) /\ Children(n) = {} /\ rec \in TreeRecord /\ n \notin DOMAIN records
    <2>1. CopyOK(p, n) /\ Copy(p, n) = rec
      BY <1>3, <1>4 DEF FiltersAlone, Copy
    <2>2. FitsFolder(Copy(p, n))
      BY <1>3, <2>1 DEF CopyOK
    <2>3. FitsFolder(rec)
      BY <2>1, <2>2 DEF FitsFolder, IsFolder, Satisfies, Folder
    <2> QED
      BY <1>1, <1>2, <1>3, <1>4, <2>1, <2>3 DEF CopyOK, CreateSteps, TreeInv, KindsKept, Unborn
  <1>6. /\ records' = [k \in DOMAIN records \cup {n} |-> IF k = n THEN rec ELSE records[k]]
        /\ calls' = [calls EXCEPT ![c] = Call("ok", n)]
    BY <1>2, <1>4 DEF CreateAdd, Done
  <1>7. /\ DOMAIN records' = DOMAIN records \cup {n} /\ records'[n] = rec
        /\ \A k \in DOMAIN records : k # n /\ records'[k] = records[k]
    BY <1>5, <1>6
  <1>8. req[p].op = "create" /\ req[p].node = n /\ n \in issued /\ n # Root
    <2>1. req[p].op = "create"
      BY <1>3, <1>1 DEF TreeInv, Matching, CreateSteps
    <2> QED
      BY <1>1, <1>3, <2>1, TreeAssumption DEF FiltersAlone, OneCall, TreeInv, Issued
  <1>9. ASSUME NEW k \in Nodes PROVE StepOf(p, k)' \in {"none", "ok"} /\ (k # n => StepOf(p, k)' = "none")
    <2>1. k # n => StepOf(p, k) = "none"
      BY <1>8 DEF FiltersAlone, OneCall
    <2>2. calls'[<<p, n>>].at = "ok" /\ (k # n => calls'[<<p, k>>] = calls[<<p, k>>])
      BY <1>3, <1>6 DEF TreeInv, TreeTypes, Call
    <2> QED
      BY <2>1, <2>2 DEF StepOf
  <1>10. \A k \in Nodes : CopyOK(p, k)'
    BY <1>9, NothingHeld DEF Asking, CreateSteps, UpdateSteps
  <1>11. OneCall(p)'
    BY <1>1, <1>8, <1>9 DEF OneCall
  <1>12. ASSUME NEW k \in DOMAIN records' PROVE ParentOK(k)' /\ FilterOK(k)'
    <2>1. CASE k = n
      <3>1. IsFolder(rec.parent) /\ rec.parent # n
        BY <1>5, <1>8 DEF FitsFolder, IsFolder
      <3>2. ParentOK(k)'
        BY <2>1, <3>1, <1>1, <1>7 DEF ParentOK, IsFolder, TreeInv, TreeTypes
      <3>3. Folder(rec.parent)' = Folder(rec.parent)
        BY <3>1, <1>7 DEF Folder, IsFolder
      <3>4. rec.kind \in Folder(rec.parent).only
        BY <1>5 DEF FitsFolder, Satisfies
      <3> QED
        BY <2>1, <3>2, <3>3, <3>4, <1>7 DEF FilterOK, Satisfies
    <2>2. CASE k # n
      <3>1. k \in DOMAIN records /\ records'[k] = records[k] /\ records[k].parent # n
        BY <2>2, <1>5, <1>7 DEF Children
      <3>2. ParentOK(k) /\ FilterOK(k)
        BY <3>1 DEF FiltersAlone
      <3>3. IsFolder(records[k].parent)' => IsFolder(records[k].parent) /\ Folder(records[k].parent)' = Folder(records[k].parent)
        BY <3>1, <1>7 DEF IsFolder, Folder
      <3>4. ParentOK(k)'
        BY <3>1, <3>2, <1>1, <1>7 DEF ParentOK
      <3>5. FilterOK(k)'
        BY <3>1, <3>2, <3>3, <1>1 DEF FilterOK, Satisfies
      <3> QED
        BY <3>4, <3>5
    <2> QED
      BY <2>1, <2>2
  <1> QED
    BY <1>1, <1>10, <1>11, <1>12 DEF FiltersAlone

\* A deletion takes a node away: no folder changes its filters.
LEMMA DeleteLastAlone ==
  ASSUME TreeInv, NEW p \in Procs, FiltersAlone(p), NEW c \in Procs \X Nodes, DeleteLast(c)
  PROVE  FiltersAlone(p)'
  <1>1. /\ calls[c].at = "delete.last" /\ UNCHANGED <<load, req, issued, spared>>
        /\ records' = [n \in DOMAIN records \ {c[2]} |-> records[n]]
        /\ \E reply \in {"ok", "error"} : Done(c, reply)
    BY DEF DeleteLast, At
  <1>2. c = <<p, c[2]>> /\ req[p].op = "delete"
    BY <1>1, OnlyOnes DEF TreeInv, Matching, DeleteSteps
  <1>3. /\ DOMAIN records' \subseteq DOMAIN records
        /\ \A k \in DOMAIN records' : records'[k] = records[k]
    BY <1>1
  <1>4. ASSUME NEW k \in Nodes PROVE CopyOK(p, k)'
    <2>1. StepOf(p, k) \notin Asking \cup CreateSteps
      BY <1>2 DEF StepOf, TreeInv, Matching, Asking, CreateSteps, UpdateSteps, LockSteps, UnlockSteps
    <2>2. calls'[<<p, k>>] = calls[<<p, k>>] \/ calls'[<<p, k>>].at \in {"ok", "error"}
      BY <1>1 DEF Done, Call, TreeInv, TreeTypes
    <2>3. StepOf(p, k)' \notin Asking \cup CreateSteps
      BY <2>1, <2>2 DEF StepOf, Asking, CreateSteps, UpdateSteps
    <2> QED
      BY <2>3, NothingHeld
  <1>5. ASSUME NEW k \in DOMAIN records' PROVE ParentOK(k)' /\ FilterOK(k)'
    <2>1. ParentOK(k) /\ FilterOK(k)
      BY <1>3 DEF FiltersAlone
    <2>2. IsFolder(records[k].parent)' => IsFolder(records[k].parent) /\ Folder(records[k].parent)' = Folder(records[k].parent)
      BY <1>3 DEF IsFolder, Folder
    <2> QED
      BY <1>1, <1>3, <2>1, <2>2 DEF ParentOK, FilterOK, Satisfies
  <1> QED
    BY <1>1, <1>2, <1>4, <1>5 DEF FiltersAlone, OneCall

\* What a request that arrives starts.
LEMMA Arrived ==
  ASSUME TreeInv, NEW p \in Procs, FiltersAlone(p), NEW q \in Procs, load.procs = {p}, Start(q)
  PROVE  /\ q = p /\ req[p].op = "none" /\ UNCHANGED <<records, load, spared, strayed, relocked>>
         /\ \A n \in Nodes : StepOf(p, n) = "none"
         /\ \E r \in Request :
              /\ r.op = "create" => r.node \notin issued
              /\ r.op \in {"create", "update", "delete", "lock", "unlock"} /\ r.node \in Nodes
              /\ req'[p] = r /\ \A d \in Procs \ {p} : req'[d] = req[d]
              /\ StepOf(p, r.node)' = r.op /\ \A n \in Nodes \ {r.node} : StepOf(p, n)' = "none"
              /\ issued' = issued \cup {r.node}
  <1>1. q = p /\ req[p].op = "none" /\ UNCHANGED <<records, load, spared, strayed, relocked>>
    BY DEF Start, NoRequest
  <1>2. \A n \in Nodes : StepOf(p, n) = "none"
    BY <1>1 DEF TreeInv, Matching, StepOf
  <1>3. PICK r \in load.requests :
           /\ r.op = "create" <=> r.node \notin issued
           /\ req' = [req EXCEPT ![p] = r]
           /\ calls' = [calls EXCEPT ![<<p, r.node>>] = Call(r.op, r.node)]
           /\ issued' = issued \cup {r.node}
    BY <1>1 DEF Start
  <1>4. r \in Request /\ r.node \in Nodes /\ r.op \in {"create", "update", "delete", "lock", "unlock"}
    <2>1. r \in Request
      BY TreeAssumption DEF TreeInv, TreeTypes
    <2> QED
      BY <2>1 DEF Request, CreateRequest, UpdateRequest, NodeRequest
  <1>5. req'[p] = r /\ \A d \in Procs \ {p} : req'[d] = req[d]
    BY <1>3 DEF TreeInv, TreeTypes
  <1>6. calls'[<<p, r.node>>].at = r.op /\ \A n \in Nodes \ {r.node} : calls'[<<p, n>>] = calls[<<p, n>>]
    BY <1>3, <1>4 DEF TreeInv, TreeTypes, Call
  <1>7. StepOf(p, r.node)' = r.op /\ \A n \in Nodes \ {r.node} : StepOf(p, n)' = "none"
    BY <1>2, <1>6 DEF StepOf
  <1> QED
    BY <1>1, <1>2, <1>3, <1>4, <1>5, <1>7

\* A request for a node to create has a uuid that is nobody's folder.
LEMMA StartAlone ==
  ASSUME TreeInv, NEW p \in Procs, FiltersAlone(p), NEW q \in Procs, load.procs = {p}, Start(q)
  PROVE  FiltersAlone(p)'
  <1>1. UNCHANGED <<records, load, spared, strayed>>
    BY Arrived
  <1>2. PICK r \in Request :
           /\ r.op = "create" => r.node \notin issued
           /\ r.op \in {"create", "update", "delete", "lock", "unlock"} /\ r.node \in Nodes
           /\ req'[p] = r /\ \A d \in Procs \ {p} : req'[d] = req[d]
           /\ StepOf(p, r.node)' = r.op /\ \A n \in Nodes \ {r.node} : StepOf(p, n)' = "none"
           /\ issued' = issued \cup {r.node}
    BY Arrived
  <1>3. OneCall(p)'
    BY <1>2 DEF OneCall
  <1>4. ASSUME r.op = "create" PROVE Children(r.node)' = {}
    BY <1>1, <1>2, <1>4, TreeAssumption DEF Children, FiltersAlone, ParentOK
  <1>5. ASSUME NEW n \in Nodes PROVE CopyOK(p, n)'
    <2>1. CASE n = r.node /\ r.op = "create"
      BY <2>1, <1>2, <1>4 DEF CopyOK, Asking, Tested, UpdateSteps
    <2>2. CASE n # r.node \/ r.op # "create"
      <3>1. StepOf(p, n)' \in {"none", "update", "delete", "lock", "unlock"}
        BY <2>2, <1>2
      <3> QED
        BY <3>1, NothingHeld DEF Asking, CreateSteps, UpdateSteps
    <2> QED
      BY <2>1, <2>2
  <1>6. ASSUME NEW n \in DOMAIN records PROVE ParentOK(n)' /\ FilterOK(n)'
    BY <1>1, <1>2 DEF FiltersAlone, ParentOK, FilterOK, IsFolder, Folder, Satisfies
  <1> QED
    BY <1>1, <1>2, <1>3, <1>5, <1>6 DEF FiltersAlone

\* After the answer there is no call.
LEMMA ReplyAlone ==
  ASSUME TreeInv, NEW p \in Procs, FiltersAlone(p), NEW q \in Procs, Reply(q)
  PROVE  FiltersAlone(p)'
  <1>1. /\ UNCHANGED <<records, load, issued, spared, strayed>> /\ req' = [req EXCEPT ![q] = NoRequest]
        /\ calls' = [c \in DOMAIN calls |-> IF c[1] = q THEN Call("none", c[2]) ELSE calls[c]]
        /\ req[q] # NoRequest
    BY DEF Reply
  <1>2. q = p
    BY <1>1 DEF FiltersAlone
  <1>3. req'[p] = NoRequest /\ req'[p].op = "none" /\ \A d \in Procs \ {p} : req'[d] = req[d]
    BY <1>1, <1>2 DEF TreeInv, TreeTypes, NoRequest
  <1>4. ASSUME NEW n \in Nodes PROVE CopyOK(p, n)'
    <2>1. calls'[<<p, n>>].at = "none"
      BY <1>1, <1>2 DEF TreeInv, TreeTypes, Call
    <2> QED
      BY <2>1, NothingHeld DEF StepOf, Asking, CreateSteps, UpdateSteps
  <1>5. ASSUME NEW n \in DOMAIN records PROVE ParentOK(n)' /\ FilterOK(n)'
    BY <1>1 DEF FiltersAlone, ParentOK, FilterOK, IsFolder, Folder, Satisfies
  <1> QED
    BY <1>1, <1>3, <1>4, <1>5 DEF FiltersAlone, OneCall

\* A workflow's mark is neither kind, nor folder, nor filters, nor lock.
LEMMA MarkAlone ==
  ASSUME TreeInv, NEW p \in Procs, FiltersAlone(p),
         NEW n \in InWorkflows, NEW i \in InstanceIds \cup {NoInstance}, Mark(n, i)
  PROVE  FiltersAlone(p)'
  <1>1. n \in DOMAIN records /\ UNCHANGED <<load, req, calls, issued, spared, strayed>>
    BY DEF Mark
  <1>2. records[n] \in TreeRecord /\ records[n].meta \in NodeRecord
    BY <1>1 DEF TreeInv, TreeTypes, TreeRecord
  <1>3. records' = [records EXCEPT ![n] = [records[n] EXCEPT !.meta = [records[n].meta EXCEPT !.instance = i]]]
    BY DEF Mark
  <1>4. /\ DOMAIN records' = DOMAIN records /\ \A k \in DOMAIN records \ {n} : records'[k] = records[k]
        /\ records'[n] = [records[n] EXCEPT !.meta = [records[n].meta EXCEPT !.instance = i]]
    BY <1>1, <1>3 DEF TreeInv, TreeTypes
  <1>5. Like(records'[n], records[n])
    BY <1>2, <1>4 DEF Like, TreeRecord, NodeRecord
  <1>6. \A k \in DOMAIN records : Like(records'[k], records[k])
    BY <1>4, <1>5 DEF Like
  <1> QED
    BY <1>1, <1>4, <1>6, SameTreeKeeps DEF Like

\* The invariant holds at the start.
LEMMA FiltersInitial == Init => FiltersInv
  <1> SUFFICES ASSUME Init, NEW p \in Procs PROVE FiltersAlone(p)
    BY DEF FiltersInv
  <1>1. /\ records = InitialTree /\ issued = DOMAIN InitialTree
        /\ \A q \in Procs : req[q] = NoRequest /\ req[q].op = "none"
        /\ \A n \in Nodes : StepOf(p, n) = "none"
    BY DEF Init, NoRequest, Call, StepOf
  <1>2. ASSUME NEW n \in DOMAIN records PROVE ParentOK(n) /\ FilterOK(n)
    <2>1. ParentOK(n)
      BY <1>1, <1>2, TreeAssumption DEF ParentOK
    <2>2. FilterOK(n)
      BY <1>1, <1>2, TreeAssumption DEF FilterOK, Satisfies, Folder, IsFolder
    <2> QED
      BY <2>1, <2>2
  <1>3. ASSUME NEW n \in Nodes PROVE CopyOK(p, n)
    BY <1>1 DEF CopyOK, Asking, Tested, CreateSteps, UpdateSteps
  <1> QED
    BY <1>1, <1>2, <1>3 DEF FiltersAlone, OneCall

\* Every step keeps it.
LEMMA FiltersStep ==
  ASSUME TreeInv, FiltersInv, [Next]_vars
  PROVE  FiltersInv'
  <1>1. UNCHANGED load
    BY DEF Next, Step, vars, Start, Reply, Mark, CreateCheck, CreateAdd, UpdateRead, UpdateCheck, UpdateCheckNew,
           UpdateChildren, UpdateWrite, DeleteRead, DeleteCheck, DeleteList, DeleteChildren, DeleteLast,
           LockRead, LockCheck, LockWrite, LockList, LockChildren, UnlockRead, UnlockWrite, UnlockList,
           UnlockChildren, ReadNode, CheckParent, Proceed, WriteNode, ListToCascade, Cascade
  <1> SUFFICES ASSUME NEW p \in Procs, load.procs = {p} PROVE FiltersAlone(p)'
    BY <1>1 DEF FiltersInv
  <1>2. FiltersAlone(p)
    BY DEF FiltersInv
  <1>3. CASE UNCHANGED vars
    <2>1. /\ \A n \in Nodes : CopyOK(p, n)' <=> CopyOK(p, n)
          /\ \A n \in DOMAIN records : (ParentOK(n)' <=> ParentOK(n)) /\ (FilterOK(n)' <=> FilterOK(n))
          /\ OneCall(p)' <=> OneCall(p)
      BY <1>3 DEF vars, CopyOK, FitsFolder, StepOf, Copy, Children, ParentOK, FilterOK, IsFolder, Folder, Satisfies, OneCall
    <2> QED
      BY <1>2, <1>3, <2>1 DEF FiltersAlone, vars
  <1>4. ASSUME NEW c \in Procs \X Nodes, Step(c) PROVE FiltersAlone(p)'
    <2>1. CASE CreateCheck(c) \/ CreateAdd(c)
      BY <1>2, <2>1, CreateCheckAlone, CreateAddAlone
    <2>2. CASE UpdateRead(c) \/ DeleteRead(c) \/ LockRead(c) \/ UnlockRead(c)
      BY <1>2, <2>2, ReadAlone
    <2>3. CASE UpdateCheck(c) \/ UpdateCheckNew(c) \/ UpdateChildren(c) \/ UpdateWrite(c)
      BY <1>2, <2>3, UpdateCheckAlone, NewParentAlone, ChildrenAlone, UpdateWriteAlone
    <2>4. CASE \/ DeleteCheck(c) \/ DeleteList(c) \/ DeleteChildren(c)
               \/ LockList(c) \/ UnlockList(c) \/ LockChildren(c) \/ UnlockChildren(c)
      BY <1>2, <2>4, OtherStepsAlone
    <2>5. CASE DeleteLast(c) \/ LockCheck(c)
      BY <1>2, <2>5, DeleteLastAlone, LockCheckAlone
    <2>6. CASE LockWrite(c) \/ UnlockWrite(c)
      BY <1>2, <2>6, CascadeWriteAlone
    <2> QED
      BY <1>4, <2>1, <2>2, <2>3, <2>4, <2>5, <2>6 DEF Step
  <1> QED
    BY <1>2, <1>3, <1>4, StartAlone, ReplyAlone, MarkAlone DEF Next

\* One process of finitely many.
LEMMA OneProcess == TreeInv /\ Alone => \E p \in Procs : load.procs = {p}
  <1> SUFFICES ASSUME TreeInv, Alone PROVE \E p \in Procs : load.procs = {p}
    OBVIOUS
  <1>1. IsFiniteSet(Procs) /\ load.procs \subseteq Procs
    BY TreeAssumption DEF TreeInv, TreeTypes
  <1>2. IsFiniteSet(load.procs)
    BY <1>1, FS_Subset
  <1>3. \E x : load.procs = {x}
    BY <1>2, FS_Singleton DEF Alone
  <1> QED
    BY <1>1, <1>3

\* For any nodes, users and requests, served one at a time: every node has the
\* kind its folder's filters let in, whatever was created, moved or narrowed,
\* but for the children beyond the page update tests (create and update), and
\* for a folder put into itself.
THEOREM NodesFitFolders == Spec => []FiltersHold
  <1>1. TreeInv /\ FiltersInv => FiltersHold
    <2> SUFFICES ASSUME TreeInv, FiltersInv, Alone, NEW n \in DOMAIN records \ (Orphans \cup spared), records[n].parent # n
                 PROVE  Satisfies(records[n], Folder(records[n].parent).only)
      BY DEF FiltersHold
    <2>1. PICK p \in Procs : FiltersAlone(p)
      BY OneProcess DEF FiltersInv
    <2> QED
      BY <2>1 DEF FiltersAlone, FilterOK, Orphans
  <1>2. FiltersInv /\ TreeInv /\ [Next]_vars => FiltersInv'
    BY FiltersStep
  <1> QED
    BY <1>1, <1>2, TreeInitial, FiltersInitial, TreeStep, PTL DEF Spec
----------------------------------------------------------------------------
(* The cascades of lock and unlock, one request at a time                  *)

Opening  == {"lock", "lock.parent", "lock.write", "unlock", "unlock.write"}
Listing  == {"lock.list", "unlock.list"}
Visiting == {"lock.children", "unlock.children"}
ChildOf(p, n) == calls[<<p, n>>].child
Todo(p, n)    == calls[<<p, n>>].todo
Active(p, n)  == StepOf(p, n) \in Opening \cup Listing \cup Visiting
Waiting(p, n) == StepOf(p, n) \in Visiting /\ ChildOf(p, n) # n /\ Active(p, ChildOf(p, n))
AtWork(p, n)  == Active(p, n) /\ ~Waiting(p, n)

\* What the cascade is for.
Goal(p, n) == IF req[p].op = "lock" THEN records[n].meta.locked 
              ELSE records[n].meta.lockedBy # LockSystem \/ n \in relocked
\* The children not spared that are neither as they should be nor in the set.
Reached(p, n, rest) == \A k \in Children(n) \ spared : Goal(p, k) \/ k \in rest

\* The call for a child was started by the call for its folder, which waits.
Started(p, n) ==
    LET f == records[n].parent IN
    StepOf(p, n) # "none" /\ n # req[p].node =>
       /\ n \in DOMAIN records /\ f \in DOMAIN records
       /\ StepOf(p, f) \in Visiting \cup {"ok"}
       /\ Active(p, n) => StepOf(p, f) \in Visiting /\ ChildOf(p, f) = n

\* What a call has done by the time it is where it is.
Progress(p, n) ==
    LET at == StepOf(p, n) child == ChildOf(p, n) IN
    /\ at \in Opening \cup Listing => child = n
    /\ at \in Listing \cup Visiting => n \in DOMAIN records /\ records[n].kind = "folder"
    /\ at \in Listing \cup Visiting \cup {"ok"} => n \in DOMAIN records /\ Goal(p, n)
    /\ at = "error" /\ n # req[p].node => Goal(p, n)
    /\ n = req[p].node /\ at \in Opening \cup Listing \cup {"error"} =>
         \A k \in Nodes \ {n} : StepOf(p, k) = "none"
    /\ at \in Visiting =>
         /\ Todo(p, n) \subseteq Children(n)
         /\ child # n => child \in Children(n) /\ StepOf(p, child) # "none"
         /\ Reached(p, n, Todo(p, n) \cup ({child} \ {n}))
    /\ at = "ok" => Reached(p, n, {})

OneAtWork(p) == \A m, n \in Nodes : AtWork(p, m) /\ AtWork(p, n) => m = n

\* No calls for children were started in a circle.
Grounded(p) ==
    \A S \in SUBSET (Nodes \ {req[p].node}) :
       S # {} /\ (\A n \in S : StepOf(p, n) # "none") => \E n \in S : records[n].parent \notin S

Cascading(p) == req[p].op \in {"lock", "unlock"}
CascadeOK(p) ==
    Cascading(p) =>
      /\ StepOf(p, req[p].node) # "none"
      /\ OneAtWork(p) /\ Grounded(p)
      /\ \A n \in Nodes : Started(p, n) /\ Progress(p, n)

\* A node that the lock system locked is in a locked folder, or in one whose
\* unlocking has still to come to it.
SystemLockOK(p, n) ==
    LET f == records[n].parent IN
    records[n].meta.lockedBy = LockSystem =>
       /\ n \notin relocked => records[n].meta.locked
       /\ n \notin spared \cup strayed \cup relocked =>
            /\ f \in DOMAIN records
            /\ \/ records[f].meta.locked
               \/ f \in relocked
               \/ StepOf(p, f) \in {"unlock.list", "unlock.children"}

LocksAlone(p) == CascadeOK(p) /\ \A n \in DOMAIN records : SystemLockOK(p, n)
LocksInv == \A p \in Procs : load.procs = {p} => LocksAlone(p)

\* The tree keeps its shape, and what the cascade has reached stays reached.
Onwards(p) ==
    /\ req' = req /\ spared \subseteq spared' /\ DOMAIN records' = DOMAIN records
    /\ \A k \in DOMAIN records : /\ records'[k].kind = records[k].kind
                                 /\ records'[k].parent = records[k].parent
                                 /\ Goal(p, k) => Goal(p, k)'

\* The calls that a step of another call leaves alone are as far as they were.
LEMMA OthersGoOn ==
  ASSUME TreeInv, NEW p \in Procs, CascadeOK(p), Cascading(p), Onwards(p),
         NEW n \in Nodes, AtWork(p, n), StepOf(p, n)' # "none",
         StepOf(p, n) \in Visiting => StepOf(p, n)' \in Visiting \cup {"ok"},
         NEW K \in SUBSET Nodes, \A k \in K : StepOf(p, k) = "none",
         NEW m \in Nodes \ ({n} \cup K),
         \A k \in Nodes \ ({n} \cup K) : calls'[<<p, k>>] = calls[<<p, k>>]
  PROVE  Started(p, m)' /\ Progress(p, m)'
  <1> USE DEF Onwards
  <1>1. \A k \in Nodes \ ({n} \cup K) : /\ StepOf(p, k)' = StepOf(p, k) /\ ChildOf(p, k)' = ChildOf(p, k)
                                        /\ Todo(p, k)' = Todo(p, k)
    BY DEF StepOf, ChildOf, Todo
  <1>2. \A k \in Nodes : StepOf(p, k) # "none" => StepOf(p, k)' # "none"
    BY <1>1
  <1>3. \A k : Children(k)' = Children(k)
    BY DEF Children
  <1>4. Started(p, m) /\ Progress(p, m)
    BY DEF CascadeOK
  <1>5. StepOf(p, n) # "none" /\ Active(p, n) /\ ~Waiting(p, n)
    BY DEF AtWork, Active, Opening, Listing, Visiting
  <1>6. Started(p, m)'
    <2> SUFFICES ASSUME StepOf(p, m) # "none", m # req[p].node
                 PROVE  LET f == records[m].parent IN
                        /\ m \in DOMAIN records /\ f \in DOMAIN records
                        /\ StepOf(p, f)' \in Visiting \cup {"ok"}
                        /\ Active(p, m) => StepOf(p, f)' \in Visiting /\ ChildOf(p, f)' = m
      <3>1. m \in DOMAIN records => records'[m].parent = records[m].parent
        OBVIOUS
      <3>2. Active(p, m)' => Active(p, m)
        BY <1>1 DEF Active
      <3> QED
        BY <1>1, <3>1, <3>2 DEF Started
    <2>1. PICK f : f = records[m].parent
      OBVIOUS
    <2>2. /\ m \in DOMAIN records /\ f \in DOMAIN records /\ f \in Nodes
          /\ StepOf(p, f) \in Visiting \cup {"ok"}
          /\ Active(p, m) => StepOf(p, f) \in Visiting /\ ChildOf(p, f) = m
      BY <1>4, <2>1 DEF Started, TreeInv, TreeTypes
    <2>3. f \notin K
      BY <2>2 DEF Visiting
    <2>4. CASE f # n
      BY <1>1, <2>1, <2>2, <2>3, <2>4
    <2>5. CASE f = n
      <3>1. StepOf(p, n) \in Visiting
        BY <1>5, <2>2, <2>5 DEF Active, Opening, Listing, Visiting
      <3>2. ~Active(p, m)
        BY <1>5, <2>2, <2>5, <3>1 DEF Waiting
      <3> QED
        BY <2>1, <2>2, <2>5, <3>1, <3>2
    <2> QED
      BY <2>4, <2>5
  <1>7. ASSUME NEW rest, Reached(p, m, rest) PROVE Reached(p, m, rest)'
    BY <1>3, <1>7 DEF Reached, Children
  <1>8. Progress(p, m)'
    <2>1. PICK at, child, todo : at = StepOf(p, m) /\ child = ChildOf(p, m) /\ todo = Todo(p, m)
      OBVIOUS
    <2>2. /\ at \in Opening \cup Listing => child = m
          /\ at \in Listing \cup Visiting => m \in DOMAIN records /\ records'[m].kind = "folder"
          /\ at \in Listing \cup Visiting \cup {"ok"} => m \in DOMAIN records /\ Goal(p, m)'
      BY <1>4, <2>1 DEF Progress
    <2>3. at = "error" /\ m # req[p].node => Goal(p, m)'
      <3> SUFFICES ASSUME at = "error", m # req[p].node PROVE Goal(p, m)'
        OBVIOUS
      <3>1. Goal(p, m) /\ m \in DOMAIN records
        BY <1>4, <2>1 DEF Progress, Started
      <3> QED
        BY <3>1
    <2>4. m = req[p].node => at \notin Opening \cup Listing \cup {"error"}
      BY <1>4, <1>5, <2>1 DEF Progress
    <2>5. at \in Visiting =>
             /\ todo \subseteq Children(m)
             /\ child # m => child \in Children(m) /\ StepOf(p, child)' # "none"
             /\ Reached(p, m, todo \cup ({child} \ {m}))'
      <3> SUFFICES ASSUME at \in Visiting
                   PROVE  /\ todo \subseteq Children(m)
                          /\ child # m => child \in Children(m) /\ StepOf(p, child)' # "none"
                          /\ Reached(p, m, todo \cup ({child} \ {m}))'
        OBVIOUS
      <3>1. /\ todo \subseteq Children(m)
            /\ child # m => child \in Children(m) /\ StepOf(p, child) # "none"
            /\ Reached(p, m, todo \cup ({child} \ {m}))
        BY <1>4, <2>1 DEF Progress
      <3>2. child # m => child \in Nodes
        BY <3>1 DEF Children, TreeInv, TreeTypes
      <3> QED
        BY <1>2, <1>7, <3>1, <3>2
    <2>6. at = "ok" => Reached(p, m, {})'
      BY <1>4, <1>7, <2>1 DEF Progress
    <2>7. StepOf(p, m)' = at /\ ChildOf(p, m)' = child /\ Todo(p, m)' = todo
      BY <1>1, <2>1
    <2> QED
      BY <1>3, <2>2, <2>3, <2>4, <2>5, <2>6, <2>7 DEF Progress
  <1> QED
    BY <1>6, <1>8

\* The one at work goes on to its next step, or ends.
LEMMA WorkGoesOn ==
  ASSUME TreeInv, NEW p \in Procs, CascadeOK(p), Cascading(p), Onwards(p), NEW n \in Nodes, AtWork(p, n),
         \A k \in Nodes \ {n} : calls'[<<p, k>>] = calls[<<p, k>>],
         \/ Active(p, n)' /\ ChildOf(p, n)' = n
         \/ StepOf(p, n)' \in {"ok", "error"},
         StepOf(p, n) \in Visiting => StepOf(p, n)' \in Visiting \cup {"ok"},
         Progress(p, n)'
  PROVE  CascadeOK(p)'
  <1>1. \A k \in Nodes \ {n} : StepOf(p, k)' = StepOf(p, k) /\ ChildOf(p, k)' = ChildOf(p, k)
    BY DEF StepOf, ChildOf
  <1>2. Active(p, n) /\ ~Waiting(p, n) /\ StepOf(p, n) # "none" /\ StepOf(p, n)' # "none"
    BY DEF AtWork, Active, Opening, Listing, Visiting
  <1>3. \A k \in Nodes : /\ StepOf(p, k)' # "none" <=> StepOf(p, k) # "none"
                         /\ Active(p, k)' => Active(p, k)
                         /\ k # n => (Active(p, k)' <=> Active(p, k))
    BY <1>1, <1>2 DEF Active
  <1>4. Started(p, n)'
    <2> SUFFICES ASSUME n # req[p].node
                 PROVE  LET f == records[n].parent IN
                        /\ n \in DOMAIN records /\ f \in DOMAIN records
                        /\ StepOf(p, f)' \in Visiting \cup {"ok"}
                        /\ Active(p, n)' => StepOf(p, f)' \in Visiting /\ ChildOf(p, f)' = n
      BY DEF Started, Onwards
    <2>1. PICK f : f = records[n].parent
      OBVIOUS
    <2>2. /\ n \in DOMAIN records /\ f \in DOMAIN records /\ f \in Nodes
          /\ StepOf(p, f) \in Visiting /\ ChildOf(p, f) = n
      BY <1>2, <2>1 DEF CascadeOK, Started, TreeInv, TreeTypes
    <2>3. CASE f # n
      BY <1>1, <2>1, <2>2, <2>3 DEF Onwards
    <2>4. CASE f = n
      BY <2>1, <2>2, <2>4 DEF Onwards, Active, Opening, Listing, Visiting
    <2> QED
      BY <2>3, <2>4
  <1>5. ASSUME NEW m \in Nodes PROVE Started(p, m)' /\ Progress(p, m)'
    <2>1. CASE m = n
      BY <1>4, <2>1
    <2>2. CASE m # n
      <3>1. /\ {} \in SUBSET Nodes /\ \A x \in {} : StepOf(p, x) = "none"
            /\ m \in Nodes \ ({n} \cup {})
            /\ \A x \in Nodes \ ({n} \cup {}) : calls'[<<p, x>>] = calls[<<p, x>>]
        BY <2>2
      <3> QED
        BY <1>2, <3>1, OthersGoOn
    <2> QED
      BY <2>1, <2>2
  <1>6. Grounded(p)'
    <2> SUFFICES ASSUME NEW S \in SUBSET (Nodes \ {req[p].node}), S # {}, \A k \in S : StepOf(p, k)' # "none"
                 PROVE  \E k \in S : records'[k].parent \notin S
      BY DEF Grounded, Onwards
    <2>1. \A k \in S : StepOf(p, k) # "none" /\ k \in Nodes /\ k # req[p].node
      BY <1>3
    <2>2. \A k \in S : k \in DOMAIN records
      BY <2>1 DEF CascadeOK, Started
    <2>3. PICK k \in S : records[k].parent \notin S
      BY <2>1 DEF CascadeOK, Grounded
    <2> QED
      BY <2>2, <2>3 DEF Onwards
  <1>7. OneAtWork(p)'
    <2> SUFFICES ASSUME NEW k \in Nodes, NEW m \in Nodes, AtWork(p, k)', AtWork(p, m)' PROVE k = m
      BY DEF OneAtWork
    <2>0. ASSUME NEW x \in Nodes, x # n, AtWork(p, x)'
          PROVE  StepOf(p, n)' \in {"ok", "error"} /\ x = records[n].parent
      <3>1. Active(p, x) /\ ~AtWork(p, x)
        BY <1>3, <2>0 DEF AtWork, CascadeOK, OneAtWork
      <3>2. Waiting(p, x) /\ ~Waiting(p, x)'
        BY <2>0, <3>1 DEF AtWork
      <3>3. PICK y : y = ChildOf(p, x)
        OBVIOUS
      <3>4. y # x /\ StepOf(p, x) \in Visiting /\ Active(p, y) /\ ~Active(p, y)'
        BY <1>1, <2>0, <3>2, <3>3 DEF Waiting
      <3>5. y \in Children(x) /\ y \in Nodes
        BY <3>3, <3>4 DEF CascadeOK, Progress, Children, TreeInv, TreeTypes
      <3>6. y = n
        BY <1>3, <3>4, <3>5
      <3> QED
        BY <3>4, <3>5, <3>6 DEF Children
    <2>1. CASE k # n /\ m # n
      BY <2>0, <2>1
    <2>2. CASE k = n \/ m = n
      <3>1. Active(p, n)'
        BY <2>2 DEF AtWork
      <3>2. StepOf(p, n)' \notin {"ok", "error"}
        BY <3>1 DEF Active, Opening, Listing, Visiting
      <3> QED
        BY <2>0, <2>2, <3>2
    <2> QED
      BY <2>1, <2>2
  <1>8. StepOf(p, req[p].node)' # "none"
    <2>1. PICK m \in Nodes : m = req[p].node
      BY RequestOf DEF Cascading
    <2>2. StepOf(p, m) # "none"
      BY <2>1 DEF CascadeOK
    <2> QED
      BY <1>3, <2>1, <2>2 DEF Onwards
  <1> QED
    BY <1>5, <1>6, <1>7, <1>8 DEF CascadeOK, Onwards

\* It starts a call for a child.
LEMMA ChildStarts ==
  ASSUME TreeInv, NEW p \in Procs, CascadeOK(p), Cascading(p), Onwards(p), NEW n \in Nodes, AtWork(p, n),
         NEW k \in Children(n), StepOf(p, k) = "none", k # n,
         \A m \in Nodes \ {n, k} : calls'[<<p, m>>] = calls[<<p, m>>],
         StepOf(p, n) \in Visiting, StepOf(p, n)' \in Visiting, ChildOf(p, n)' = k,
         StepOf(p, k)' \in Opening, ChildOf(p, k)' = k,
         Progress(p, n)'
  PROVE  CascadeOK(p)'
  <1>1. \A m \in Nodes \ {n, k} : StepOf(p, m)' = StepOf(p, m) /\ ChildOf(p, m)' = ChildOf(p, m)
    BY DEF StepOf, ChildOf
  <1>2. /\ k \in DOMAIN records /\ k \in Nodes /\ records[k].parent = n /\ n \in DOMAIN records
        /\ k # req[p].node /\ StepOf(p, req[p].node) # "none"
    BY DEF Children, TreeInv, TreeTypes, CascadeOK, Progress
  <1>3. Active(p, n) /\ Active(p, n)' /\ Waiting(p, n)' /\ Active(p, k)' /\ ~Waiting(p, k)'
    BY DEF AtWork, Active, Waiting, Opening, Listing, Visiting
  <1>4. \A m \in Nodes \ {k} : (Active(p, m)' <=> Active(p, m)) /\ (StepOf(p, m)' # "none" <=> StepOf(p, m) # "none")
    BY <1>1, <1>3 DEF Active, Visiting
  <1>5. Started(p, n)'
    <2> SUFFICES ASSUME n # req[p].node
                 PROVE  LET f == records[n].parent IN
                        /\ f \in DOMAIN records
                        /\ StepOf(p, f)' \in Visiting /\ ChildOf(p, f)' = n
      BY <1>2 DEF Started, Onwards
    <2>1. PICK f : f = records[n].parent
      OBVIOUS
    <2>2. /\ f \in DOMAIN records /\ f \in Nodes
          /\ StepOf(p, f) \in Visiting /\ ChildOf(p, f) = n
      BY <1>3, <2>1 DEF CascadeOK, Started, TreeInv, TreeTypes, Visiting
    <2>3. f # n
      <3>1. {n} \in SUBSET (Nodes \ {req[p].node}) /\ {n} # {} /\ \A x \in {n} : StepOf(p, x) # "none"
        BY DEF Visiting
      <3>2. \E x \in {n} : records[x].parent \notin {n}
        BY <3>1 DEF CascadeOK, Grounded
      <3> QED
        BY <2>1, <3>2
    <2>4. f # k
      BY <2>2 DEF Visiting
    <2> QED
      BY <1>1, <1>2, <2>1, <2>2, <2>3, <2>4 DEF Onwards
  <1>6. Started(p, k)'
    BY <1>2 DEF Started, Onwards
  <1>7. Progress(p, k)'
    BY <1>2 DEF Progress, Opening, Listing, Visiting, Onwards
  <1>8. ASSUME NEW m \in Nodes PROVE Started(p, m)' /\ Progress(p, m)'
    <2>1. CASE m \in {n, k}
      BY <1>5, <1>6, <1>7, <2>1
    <2>2. CASE m \notin {n, k}
      <3>1. /\ {k} \in SUBSET Nodes /\ \A x \in {k} : StepOf(p, x) = "none"
            /\ m \in Nodes \ ({n} \cup {k})
            /\ \A x \in Nodes \ ({n} \cup {k}) : calls'[<<p, x>>] = calls[<<p, x>>]
            /\ StepOf(p, n)' # "none"
        BY <1>2, <2>2 DEF Visiting
      <3> QED
        BY <3>1, OthersGoOn
    <2> QED
      BY <2>1, <2>2
  <1>9. Grounded(p)'
    <2> SUFFICES ASSUME NEW S \in SUBSET (Nodes \ {req[p].node}), S # {}, \A m \in S : StepOf(p, m)' # "none"
                 PROVE  \E m \in S : records'[m].parent \notin S
      BY DEF Grounded, Onwards
    <2>1. CASE S = {k}
      BY <1>2, <2>1 DEF Onwards
    <2>2. CASE S # {k}
      <3>1. /\ S \ {k} \in SUBSET (Nodes \ {req[p].node}) /\ S \ {k} # {}
            /\ \A m \in S \ {k} : StepOf(p, m) # "none"
        BY <1>4, <2>2
      <3>2. PICK m \in S \ {k} : records[m].parent \notin S \ {k}
        BY <3>1 DEF CascadeOK, Grounded
      <3>3. m \in DOMAIN records /\ records[m].parent # k
        BY <3>1 DEF CascadeOK, Started, Visiting
      <3> QED
        BY <3>2, <3>3 DEF Onwards
    <2> QED
      BY <2>1, <2>2
  <1>10. OneAtWork(p)'
    <2> SUFFICES ASSUME NEW x \in Nodes, AtWork(p, x)' PROVE x = k
      BY DEF OneAtWork
    <2> SUFFICES ASSUME x # k PROVE FALSE
      OBVIOUS
    <2>1. x # n
      BY <1>3 DEF AtWork
    <2>2. Active(p, x) /\ ~AtWork(p, x)
      BY <1>4, <2>1 DEF AtWork, CascadeOK, OneAtWork
    <2>3. Waiting(p, x) /\ ~Waiting(p, x)'
      BY <2>2 DEF AtWork
    <2>4. PICK y : y = ChildOf(p, x)
      OBVIOUS
    <2>5. y # x /\ StepOf(p, x) \in Visiting /\ Active(p, y) /\ ~Active(p, y)'
      BY <1>1, <2>1, <2>3, <2>4 DEF Waiting
    <2>6. y \in Nodes
      BY <2>4, <2>5 DEF CascadeOK, Progress, Children, TreeInv, TreeTypes
    <2> QED
      BY <1>3, <1>4, <2>5, <2>6
  <1>11. StepOf(p, req[p].node)' # "none"
    <2>1. PICK m \in Nodes : m = req[p].node
      BY RequestOf DEF Cascading
    <2> QED
      BY <1>2, <1>4, <2>1 DEF Onwards
  <1> QED
    BY <1>8, <1>9, <1>10, <1>11 DEF CascadeOK, Onwards

\* What the call of the step looks like afterwards.
LEMMA CallMoves ==
  ASSUME TreeInv, NEW p \in Procs, NEW n \in Nodes, NEW c, c = <<p, n>>, NEW to
  PROVE  /\ (\E rec : Hold(c, to, rec)) \/ Goto(c, to) =>
               StepOf(p, n)' = to /\ ChildOf(p, n)' = ChildOf(p, n) /\ Todo(p, n)' = Todo(p, n)
         /\ Done(c, to) => StepOf(p, n)' = to /\ ChildOf(p, n)' = n /\ Todo(p, n)' = {}
         /\ (\E rec : Hold(c, to, rec)) \/ Goto(c, to) \/ Done(c, to) =>
               \A k \in Nodes \ {n} : calls'[<<p, k>>] = calls[<<p, k>>]
  <1>1. calls[c] \in CallRecord /\ c \in DOMAIN calls /\ DOMAIN calls = Procs \X Nodes
    BY DEF TreeInv, TreeTypes
  <1>2. ASSUME NEW rec, Hold(c, to, rec)
        PROVE  /\ calls'[c] = [calls[c] EXCEPT !.at = to, !.rec = rec]
               /\ \A k \in Nodes \ {n} : calls'[<<p, k>>] = calls[<<p, k>>]
    BY <1>1, <1>2 DEF Hold
  <1>3. ASSUME Goto(c, to)
        PROVE  /\ calls'[c] = [calls[c] EXCEPT !.at = to]
               /\ \A k \in Nodes \ {n} : calls'[<<p, k>>] = calls[<<p, k>>]
    BY <1>1, <1>3 DEF Goto
  <1>4. ASSUME Done(c, to)
        PROVE  /\ calls'[c] = Call(to, n)
               /\ \A k \in Nodes \ {n} : calls'[<<p, k>>] = calls[<<p, k>>]
    BY <1>1, <1>4 DEF Done
  <1>5. ASSUME NEW rec, Hold(c, to, rec)
        PROVE  StepOf(p, n)' = to /\ ChildOf(p, n)' = ChildOf(p, n) /\ Todo(p, n)' = Todo(p, n)
    BY <1>1, <1>2, <1>5 DEF StepOf, ChildOf, Todo, CallRecord
  <1>6. ASSUME Goto(c, to)
        PROVE  StepOf(p, n)' = to /\ ChildOf(p, n)' = ChildOf(p, n) /\ Todo(p, n)' = Todo(p, n)
    BY <1>1, <1>3, <1>6 DEF StepOf, ChildOf, Todo, CallRecord
  <1>7. Done(c, to) => StepOf(p, n)' = to /\ ChildOf(p, n)' = n /\ Todo(p, n)' = {}
    BY <1>4 DEF StepOf, ChildOf, Todo, Call
  <1> QED
    BY <1>2, <1>3, <1>4, <1>5, <1>6, <1>7

\* Before it visits children a call is the one at work, and so it is when the
\* child it visits has answered.
LEMMA WhoIsAtWork ==
  ASSUME TreeInv, NEW p \in Procs, NEW n \in Nodes
  PROVE  /\ StepOf(p, n) \in Opening \cup Listing => AtWork(p, n)
         /\ StepOf(p, n) \in Visiting /\ (ChildOf(p, n) = n \/ StepOf(p, ChildOf(p, n)) \in {"ok", "error"}) => AtWork(p, n)
  BY DEF AtWork, Active, Waiting, Opening, Listing, Visiting

\* The locks stay as they are while the unlocking goes on.
LEMMA LocksStay ==
  ASSUME NEW p \in Procs, LocksAlone(p), UNCHANGED records, spared \subseteq spared', strayed \subseteq strayed',
         UNCHANGED relocked,
         \A f \in DOMAIN records : StepOf(p, f) \in {"unlock.list", "unlock.children"} =>
                                   StepOf(p, f)' \in {"unlock.list", "unlock.children"},
         NEW k \in DOMAIN records
  PROVE  SystemLockOK(p, k)'
  <1>1. PICK f : f = records[k].parent
    OBVIOUS
  <1>2. records'[k].parent = f
    BY <1>1
  <1>3. SystemLockOK(p, k)
    BY DEF LocksAlone
  <1> QED
    BY <1>1, <1>2, <1>3 DEF SystemLockOK

\* The lock system is refused nothing it is asked to do: a call for a child
\* that fails finds its work done.
LEMMA OpeningLocks ==
  ASSUME TreeInv, NEW p \in Procs, FiltersAlone(p), LocksAlone(p), NEW c \in Procs \X Nodes,
         LockRead(c) \/ LockCheck(c) \/ UnlockRead(c)
  PROVE  LocksAlone(p)'
  <1>1. UNCHANGED <<records, load, req, issued, spared, strayed, relocked>> /\ calls[c].at \in {"lock", "lock.parent", "unlock"}
    BY DEF LockRead, LockCheck, UnlockRead, ReadNode, CheckParent, Proceed, At
  <1>2. PICK n \in Nodes : n = c[2]
    OBVIOUS
  <1>3. c = <<p, n>> /\ c[1] = p /\ StepOf(p, n) = calls[c].at /\ Copy(p, n) = calls[c].rec
    BY <1>1, <1>2, OnlyOnes
  <1>4. /\ StepOf(p, n) \in Opening /\ AtWork(p, n)
        /\ req[p].op = IF StepOf(p, n) = "unlock" THEN "unlock" ELSE "lock"
    BY <1>1, <1>3, WhoIsAtWork DEF Opening, TreeInv, Matching, LockSteps, UnlockSteps
  <1>5. CascadeOK(p) /\ Cascading(p) /\ Onwards(p)
    BY <1>1, <1>4 DEF LocksAlone, Cascading, Onwards, Goal
  <1>6. Started(p, n) /\ Progress(p, n) /\ ChildOf(p, n) = n
    BY <1>4, <1>5 DEF CascadeOK, Progress
  <1>7. n # req[p].node =>
          /\ n \in DOMAIN records /\ records[n].parent \in DOMAIN records /\ Principal(c) = LockSystem
          /\ records[records[n].parent].kind = "folder"
    <2> SUFFICES ASSUME n # req[p].node
                 PROVE  /\ n \in DOMAIN records /\ records[n].parent \in DOMAIN records /\ Principal(c) = LockSystem
                        /\ records[records[n].parent].kind = "folder"
      OBVIOUS
    <2>1. /\ n \in DOMAIN records /\ records[n].parent \in DOMAIN records
          /\ StepOf(p, records[n].parent) \in Visiting
      BY <1>4, <1>6 DEF Started, AtWork, Opening
    <2>2. records[n].parent \in Nodes
      BY <2>1 DEF TreeInv, TreeTypes
    <2> QED
      BY <1>2, <1>3, <1>5, <2>1, <2>2 DEF CascadeOK, Progress, Principal, Cascading
  <1>8. IsAdmin(LockSystem) /\ Admins \in PrincipalGroups(LockSystem)
    BY PrincipalsAssumption DEF IsAdmin, PrincipalGroups
  <1>9. ASSUME Done(c, "error"),
               \/ LockRead(c) /\ (n \in DOMAIN records => records[n].meta.locked)
               \/ LockCheck(c) /\ ~WritableBy(Principal(c), calls[c].rec.parent)
               \/ UnlockRead(c) /\ (n \in DOMAIN records => ~MayUnlock(Principal(c), records[n].meta))
        PROVE  LocksAlone(p)'
    <2>1. n # req[p].node => Goal(p, n)
      <3> SUFFICES ASSUME n # req[p].node PROVE Goal(p, n)
        OBVIOUS
      <3>1. CASE LockRead(c) /\ records[n].meta.locked
        BY <3>1, <1>3, <1>4 DEF Goal, LockRead, ReadNode, Proceed, At
      <3>2. CASE LockCheck(c) /\ ~WritableBy(Principal(c), calls[c].rec.parent)
        <4>1. StepOf(p, n) = "lock.parent"
          BY <3>2, <1>3 DEF LockCheck, CheckParent, Proceed, At
        <4>2. Copy(p, n).parent = records[n].parent
          BY <4>1 DEF FiltersAlone, CopyOK, Like
        <4>3. WritableBy(Principal(c), records[n].parent)
          BY <1>7, <1>8 DEF WritableBy, IsFolder
        <4> QED
          BY <3>2, <4>2, <4>3, <1>3
      <3>3. CASE UnlockRead(c) /\ ~MayUnlock(Principal(c), records[n].meta)
        <4>1. req[p].op = "unlock" /\ (records[n].meta.lockedBy = LockSystem /\ n \notin relocked => records[n].meta.locked)
          BY <3>3, <1>3, <1>4, <1>7 DEF LocksAlone, SystemLockOK, UnlockRead, ReadNode, Proceed, At
        <4> QED
          BY <3>3, <4>1, <1>7 DEF Goal, MayUnlock, CanUnlockNode
      <3> QED
        BY <3>1, <3>2, <3>3, <1>7, <1>9
    <2>2. /\ StepOf(p, n)' = "error" /\ ChildOf(p, n)' = n
          /\ \A k \in Nodes \ {n} : calls'[<<p, k>>] = calls[<<p, k>>]
      BY <1>3, <1>9, CallMoves
    <2>3. \A k \in Nodes \ {n} : StepOf(p, k)' = StepOf(p, k)
      BY <2>2 DEF StepOf
    <2>4. Progress(p, n)'
      BY <1>4, <1>5, <1>6, <1>7, <2>1, <2>2, <2>3 DEF Progress, Onwards, Opening, Listing, Visiting
    <2>5. CascadeOK(p)'
      BY <1>4, <1>5, <2>2, <2>4, WorkGoesOn DEF Opening, Visiting
    <2>6. \A f \in DOMAIN records : StepOf(p, f) \in {"unlock.list", "unlock.children"} => StepOf(p, f)' = StepOf(p, f)
      BY <1>4, <2>3 DEF Opening, TreeInv, TreeTypes
    <2> QED
      BY <1>1, <2>5, <2>6, LocksStay DEF LocksAlone
  <1>10. ASSUME NEW to \in {"lock.parent", "lock.write", "unlock.write"}, (\E rec : Hold(c, to, rec)) \/ Goto(c, to)
         PROVE  LocksAlone(p)'
    <2>1. /\ StepOf(p, n)' = to /\ ChildOf(p, n)' = n
          /\ \A k \in Nodes \ {n} : calls'[<<p, k>>] = calls[<<p, k>>]
      BY <1>3, <1>6, <1>10, CallMoves
    <2>2. \A k \in Nodes \ {n} : StepOf(p, k)' = StepOf(p, k)
      BY <2>1 DEF StepOf
    <2>3. Progress(p, n)'
      BY <1>4, <1>5, <1>6, <2>1, <2>2 DEF Progress, Onwards, Opening, Listing, Visiting
    <2>4. CascadeOK(p)'
      BY <1>4, <1>5, <2>1, <2>3, WorkGoesOn DEF Active, Opening, Visiting
    <2>5. \A f \in DOMAIN records : StepOf(p, f) \in {"unlock.list", "unlock.children"} => StepOf(p, f)' = StepOf(p, f)
      BY <1>4, <2>2 DEF Opening, TreeInv, TreeTypes
    <2> QED
      BY <1>1, <2>4, <2>5, LocksStay DEF LocksAlone
  <1> QED
    BY <1>2, <1>9, <1>10 DEF LockRead, LockCheck, UnlockRead, ReadNode, CheckParent, Proceed

\* What lock and unlock write; a node locked by the lock system is below the
\* folder that had it locked.
LEMMA CascadeWriteLocks ==
  ASSUME TreeInv, NEW p \in Procs, FiltersAlone(p), LocksAlone(p), NEW c \in Procs \X Nodes,
         LockWrite(c) \/ UnlockWrite(c)
  PROVE  LocksAlone(p)'
  <1>1. PICK n \in Nodes : n = c[2]
    OBVIOUS
  <1>2. /\ c = <<p, n>> /\ n \in DOMAIN records /\ req[p].op \in {"lock", "unlock"}
        /\ UNCHANGED <<load, req, issued, spared>> /\ DOMAIN records' = DOMAIN records
        /\ \A k \in DOMAIN records : /\ records'[k].kind = records[k].kind
                                     /\ records'[k].parent = records[k].parent
                                     /\ records'[k].only = records[k].only
                                     /\ k # n => records'[k] = records[k]
        /\ \A d \in (Procs \X Nodes) \ {c} : calls'[d] = calls[d]
    BY <1>1, CascadeWriteIs
  <1>3. LET m == records'[n].meta at == StepOf(p, n)' IN
          \/ /\ LockWrite(c) /\ StepOf(p, n) = "lock.write" /\ req[p].op = "lock"
             /\ at = IF records[n].kind = "folder" THEN "lock.list" ELSE "ok"
             /\ m.locked /\ m.lockedBy = Principal(c)
          \/ /\ UnlockWrite(c) /\ StepOf(p, n) = "unlock.write" /\ req[p].op = "unlock"
             /\ at = IF records[n].kind = "folder" THEN "unlock.list" ELSE "ok"
             /\ ~m.locked /\ m.lockedBy = NoOne
    BY <1>1, CascadeWriteIs
  <1>4. strayed \subseteq strayed' /\ UNCHANGED relocked
    BY DEF LockWrite, UnlockWrite
  <1>5. \A k \in Nodes \ {n} : calls'[<<p, k>>] = calls[<<p, k>>] /\ StepOf(p, k)' = StepOf(p, k)
    BY <1>2 DEF StepOf
  <1>6. NoOne # LockSystem /\ LockSystem \notin Users
    BY PrincipalsAssumption
  <1>7. AtWork(p, n) /\ StepOf(p, n) \in Opening /\ Cascading(p) /\ CascadeOK(p)
    BY <1>2, <1>3, WhoIsAtWork DEF LocksAlone, Cascading, Opening
  <1>8. Goal(p, n)' /\ Onwards(p)
    BY <1>2, <1>3, <1>4, <1>6 DEF Goal, Onwards
  <1>9. ChildOf(p, n)' = n
    <2>1. ChildOf(p, n) = n
      BY <1>7 DEF CascadeOK, Progress
    <2>2. \E to : Goto(c, to) \/ Done(c, to)
      BY DEF LockWrite, UnlockWrite, WriteNode
    <2> QED
      BY <1>2, <2>1, <2>2, CallMoves
  <1>10. records[n].kind # "folder" => Children(n)' = {}
    <2>1. ASSUME NEW k \in DOMAIN records, records[k].parent = n PROVE records[n].kind = "folder"
      BY <2>1, <1>2, TreeAssumption DEF FiltersAlone, ParentOK
    <2> QED
      BY <1>2, <2>1 DEF Children
  <1>11. Progress(p, n)'
    <2>1. StepOf(p, n)' \in Listing \cup {"ok"} /\ (StepOf(p, n)' \in Listing => records'[n].kind = "folder")
          /\ (StepOf(p, n)' = "ok" => records[n].kind # "folder")
      BY <1>2, <1>3 DEF Listing
    <2>2. n = req[p].node => \A k \in Nodes \ {n} : StepOf(p, k)' = "none"
      BY <1>5, <1>7 DEF CascadeOK, Progress
    <2>3. StepOf(p, n)' = "ok" => Reached(p, n, {})'
      BY <1>10, <2>1 DEF Reached
    <2> QED
      BY <1>2, <1>8, <1>9, <2>1, <2>2, <2>3 DEF Progress, Opening, Listing, Visiting
  <1>12. CascadeOK(p)'
    <2>1. Active(p, n)' \/ StepOf(p, n)' \in {"ok", "error"}
      BY <1>3 DEF Active, Listing
    <2> QED
      BY <1>5, <1>7, <1>8, <1>9, <1>11, <2>1, WorkGoesOn DEF Opening, Visiting
  <1>13. ASSUME NEW k \in DOMAIN records PROVE SystemLockOK(p, k)'
    <2>1. PICK f : f = records[k].parent
      OBVIOUS
    <2>2. records'[k].parent = f /\ SystemLockOK(p, k)
      BY <1>2, <2>1 DEF LocksAlone
    <2>3. CASE k # n
      <3> SUFFICES ASSUME records[k].meta.lockedBy = LockSystem, k \notin spared \cup strayed \cup relocked
                   PROVE  /\ f \in DOMAIN records
                          /\ \/ records'[f].meta.locked
                             \/ f \in relocked
                             \/ StepOf(p, f)' \in {"unlock.list", "unlock.children"}
        BY <1>2, <1>4, <2>2, <2>3 DEF SystemLockOK
      <3>1. f \in DOMAIN records
           /\ (records[f].meta.locked \/ f \in relocked \/ StepOf(p, f) \in {"unlock.list", "unlock.children"})
        BY <2>1, <2>2 DEF SystemLockOK
      <3>2. CASE f = n
        <4>1. records[n].kind = "folder"
          BY <1>10, <1>2, <2>2, <3>2 DEF Children
        <4> QED
          BY <1>3, <3>1, <3>2, <4>1
      <3>3. CASE f # n
        <4>1. f \in Nodes
          BY <3>1 DEF TreeInv, TreeTypes
        <4> QED
          BY <1>2, <1>5, <3>1, <3>3, <4>1
      <3> QED
        BY <3>2, <3>3
    <2>4. CASE k = n /\ req[p].op = "unlock"
      BY <1>3, <1>6, <2>4 DEF SystemLockOK
    <2>5. CASE k = n /\ req[p].op = "lock"
      <3>1. records'[n].meta.locked /\ records'[n].meta.lockedBy = Principal(c)
        BY <1>3, <2>5
      <3>2. CASE n = req[p].node
        <4>1. Principal(c) \in Users
          BY <1>1, <1>2, <3>2, RequestOf DEF Principal
        <4> QED
          BY <1>6, <2>5, <3>1, <4>1 DEF SystemLockOK
      <3>3. CASE n # req[p].node
        <4>1. f \in DOMAIN records /\ StepOf(p, f) \in Visiting
          BY <1>7, <2>1, <2>5, <3>3 DEF CascadeOK, Started, AtWork, Opening
        <4>2. f # n /\ f \in Nodes
          BY <1>7, <4>1 DEF Opening, Visiting, TreeInv, TreeTypes
        <4>3. records[f].meta.locked
          BY <1>7, <2>5, <4>1, <4>2 DEF CascadeOK, Progress, Goal
        <4> QED
          BY <1>2, <2>2, <2>5, <3>1, <4>1, <4>2, <4>3 DEF SystemLockOK
      <3> QED
        BY <3>2, <3>3
    <2> QED
      BY <1>2, <2>3, <2>4, <2>5
  <1> QED
    BY <1>2, <1>12, <1>13 DEF LocksAlone

\* A page of the children is listed: those that are as they should be are left out.
LEMMA ListLocks ==
  ASSUME TreeInv, NEW p \in Procs, FiltersAlone(p), LocksAlone(p), NEW c \in Procs \X Nodes,
         LockList(c) \/ UnlockList(c)
  PROVE  LocksAlone(p)'
  <1>1. PICK n \in Nodes : n = c[2]
    OBVIOUS
  <1>2. /\ calls[c].at \in Listing /\ UNCHANGED <<records, load, req, issued, strayed, relocked>> /\ spared \subseteq spared'
    BY DEF LockList, UnlockList, ListToCascade, At, Listing
  <1>3. c = <<p, n>> /\ StepOf(p, n) = calls[c].at
    BY <1>1, <1>2, OnlyOnes DEF Listing
  <1>4. /\ AtWork(p, n) /\ Cascading(p) /\ CascadeOK(p)
        /\ req[p].op = IF StepOf(p, n) = "unlock.list" THEN "unlock" ELSE "lock"
    BY <1>2, <1>3, WhoIsAtWork DEF LocksAlone, Cascading, Listing, TreeInv, Matching, LockSteps, UnlockSteps
  <1>5. ChildOf(p, n) = n /\ n \in DOMAIN records /\ records[n].kind = "folder" /\ Goal(p, n)
    BY <1>2, <1>3, <1>4 DEF CascadeOK, Progress
  <1>6. PICK page \in Pages(n), to \in Visiting, todo \in SUBSET Nodes :
           /\ todo \subseteq page
           /\ calls' = [calls EXCEPT ![c].at = to, ![c].todo = todo]
           /\ spared' = spared \cup (Children(n) \ page)
           /\ StepOf(p, n) = "unlock.list" => to = "unlock.children"
           /\ \A k \in page \ todo : Goal(p, k)
    <2>1. CASE LockList(c)
      <3>1. PICK page \in Pages(n) :
               /\ calls' = [calls EXCEPT ![c].at = "lock.children", ![c].todo = {k \in page : ~records[k].meta.locked}]
               /\ spared' = spared \cup (Children(n) \ page)
        BY <1>1, <2>1 DEF LockList, ListToCascade
      <3>2. StepOf(p, n) = "lock.list" /\ req[p].op = "lock"
        BY <1>3, <1>4, <2>1 DEF LockList, ListToCascade, At
      <3>3. /\ {k \in page : ~records[k].meta.locked} \subseteq page /\ page \subseteq Nodes
            /\ \A k \in page \ {j \in page : ~records[j].meta.locked} : Goal(p, k)
        BY <3>2 DEF Goal, Pages, Children, TreeInv, TreeTypes
      <3> QED
        BY <3>1, <3>2, <3>3 DEF Visiting
    <2>2. CASE UnlockList(c)
      <3>1. PICK page \in Pages(n) :
               /\ calls' = [calls EXCEPT ![c].at = "unlock.children",
                                         ![c].todo = {k \in page : records[k].meta.lockedBy = LockSystem}]
               /\ spared' = spared \cup (Children(n) \ page)
        BY <1>1, <2>2 DEF UnlockList, ListToCascade
      <3>2. StepOf(p, n) = "unlock.list" /\ req[p].op = "unlock"
        BY <1>3, <1>4, <2>2 DEF UnlockList, ListToCascade, At
      <3>3. /\ {k \in page : records[k].meta.lockedBy = LockSystem} \subseteq page /\ page \subseteq Nodes
            /\ \A k \in page \ {j \in page : records[j].meta.lockedBy = LockSystem} : Goal(p, k)
        BY <3>2 DEF Goal, Pages, Children, TreeInv, TreeTypes
      <3> QED
        BY <3>1, <3>2, <3>3 DEF Visiting
    <2> QED
      BY <2>1, <2>2
  <1>7. page \subseteq Children(n)
    BY DEF Pages
  <1>8. /\ StepOf(p, n)' = to /\ ChildOf(p, n)' = n /\ Todo(p, n)' = todo
        /\ \A k \in Nodes \ {n} : calls'[<<p, k>>] = calls[<<p, k>>]
    <2>1. calls[c] \in CallRecord /\ DOMAIN calls = Procs \X Nodes
      BY DEF TreeInv, TreeTypes
    <2>2. calls'[c] = [calls[c] EXCEPT !.at = to, !.todo = todo]
      BY <1>6, <2>1
    <2>3. \A k \in Nodes \ {n} : calls'[<<p, k>>] = calls[<<p, k>>]
      BY <1>3, <1>6, <2>1
    <2> QED
      BY <1>3, <1>5, <2>1, <2>2, <2>3 DEF StepOf, ChildOf, Todo, CallRecord
  <1>9. Onwards(p)
    BY <1>2 DEF Onwards, Goal
  <1>10. Reached(p, n, todo)'
    BY <1>2, <1>6, <1>7 DEF Reached, Children, Goal
  <1>11. Progress(p, n)'
    <2>1. todo \subseteq Children(n)' /\ Goal(p, n)'
      BY <1>2, <1>5, <1>6, <1>7 DEF Children, Goal
    <2>2. Reached(p, n, todo \cup ({n} \ {n}))'
      BY <1>10 DEF Reached
    <2> QED
      BY <1>2, <1>5, <1>8, <2>1, <2>2 DEF Progress, Opening, Listing, Visiting
  <1>12. CascadeOK(p)'
    <2>1. Active(p, n)' /\ StepOf(p, n) \notin Visiting
      BY <1>2, <1>3, <1>8 DEF Active, Listing, Visiting
    <2> QED
      BY <1>4, <1>8, <1>9, <1>11, <2>1, WorkGoesOn
  <1>13. \A f \in DOMAIN records : StepOf(p, f) \in {"unlock.list", "unlock.children"} =>
                                   StepOf(p, f)' \in {"unlock.list", "unlock.children"}
    <2>1. \A f \in Nodes \ {n} : StepOf(p, f)' = StepOf(p, f)
      BY <1>8 DEF StepOf
    <2>2. StepOf(p, n) = "unlock.list" \/ StepOf(p, n) = "lock.list"
      BY <1>2, <1>3 DEF Listing
    <2> QED
      BY <1>6, <1>8, <2>1, <2>2 DEF TreeInv, TreeTypes
  <1> QED
    BY <1>2, <1>12, <1>13, LocksStay DEF LocksAlone

\* The answer of the child that was visited, whatever it is, finds its work
\* done; then the next child is visited, or the folder is done.
LEMMA VisitLocks ==
  ASSUME TreeInv, NEW p \in Procs, FiltersAlone(p), LocksAlone(p), NEW c \in Procs \X Nodes,
         LockChildren(c) \/ UnlockChildren(c)
  PROVE  LocksAlone(p)'
  <1>1. PICK n \in Nodes : n = c[2]
    OBVIOUS
  <1>2. PICK from \in Visiting, start \in {"lock", "unlock"} :
           /\ Cascade(c, from, start) /\ from = IF start = "lock" THEN "lock.children" ELSE "unlock.children"
    BY DEF LockChildren, UnlockChildren, Visiting
  <1>3. calls[c].at = from /\ UNCHANGED <<records, load, req, issued, spared, strayed, relocked>>
    BY <1>2 DEF Cascade, At
  <1>4. c = <<p, n>> /\ StepOf(p, n) = from /\ ChildOf(p, n) = calls[c].child /\ Todo(p, n) = calls[c].todo
    BY <1>1, <1>3, OnlyOnes DEF Visiting, ChildOf, Todo
  <1>5. PICK child \in Nodes : child = ChildOf(p, n)
    BY DEF ChildOf, TreeInv, TreeTypes, CallRecord
  <1>6. PICK todo : todo = Todo(p, n)
    OBVIOUS
  <1>7. child # n => StepOf(p, child) \in {"ok", "error"}
    BY <1>2, <1>4, <1>5 DEF Cascade, Finished, StepOf
  <1>8. /\ AtWork(p, n) /\ Cascading(p) /\ CascadeOK(p)
        /\ from = "lock.children" => req[p].op = "lock"
        /\ from = "unlock.children" => req[p].op = "unlock"
    BY <1>4, <1>5, <1>7, WhoIsAtWork DEF LocksAlone, Cascading, Visiting, TreeInv, Matching, StepOf, LockSteps, UnlockSteps
  <1>9. /\ n \in DOMAIN records /\ records[n].kind = "folder" /\ Goal(p, n)
        /\ todo \subseteq Children(n)
        /\ Reached(p, n, todo \cup ({child} \ {n}))
    BY <1>4, <1>5, <1>6, <1>8 DEF CascadeOK, Progress
  \* A call that is no longer at work has done what it should.
  <1>10. ASSUME NEW k \in Nodes, k \in Children(n) \/ k = n, StepOf(p, k) # "none", k = child \/ ~Active(p, k) \/ k = n
         PROVE  Goal(p, k)
    <2>1. Progress(p, k) /\ StepOf(p, n) # "none"
      BY <1>4, <1>8 DEF CascadeOK, Visiting
    <2>2. CASE k = n
      BY <1>9, <2>2
    <2>3. CASE k # n
      <3>1. StepOf(p, k) \in {"ok", "error"}
        <4>1. StepOf(p, k) \notin CreateSteps \cup UpdateSteps \cup DeleteSteps
          BY <1>8 DEF Cascading, TreeInv, Matching, StepOf
        <4>2. StepOf(p, k) \in Labels
          BY DEF TreeInv, TreeTypes, CallRecord, StepOf
        <4> QED
          BY <1>7, <1>10, <2>3, <4>1, <4>2 DEF Active, Labels, Ends, LockSteps, UnlockSteps, Opening, Listing, Visiting
      <3>2. ~(StepOf(p, k) = "error" /\ k = req[p].node)
        BY <2>1, <2>3 DEF Progress
      <3> QED
        BY <2>1, <3>1, <3>2 DEF Progress
    <2> QED
      BY <2>2, <2>3
  <1>11. Reached(p, n, todo)
    <2> SUFFICES ASSUME NEW k \in Children(n) \ spared, k = child, child # n PROVE Goal(p, k)
      BY <1>9 DEF Reached
    <2> QED
      BY <1>7, <1>10
  <1>12. Onwards(p)
    BY <1>3 DEF Onwards, Goal
  <1>13. calls[c] \in CallRecord /\ DOMAIN calls = Procs \X Nodes
    BY DEF TreeInv, TreeTypes
  <1>14. CASE todo = {} /\ Done(c, "ok")
    <2>1. /\ StepOf(p, n)' = "ok" /\ \A k \in Nodes \ {n} : calls'[<<p, k>>] = calls[<<p, k>>]
      BY <1>4, <1>14, CallMoves
    <2>2. Reached(p, n, {})' /\ Goal(p, n)'
      BY <1>3, <1>9, <1>11, <1>14 DEF Reached, Children, Goal
    <2>3. Progress(p, n)'
      BY <1>3, <1>9, <2>1, <2>2 DEF Progress, Opening, Listing, Visiting
    <2>4. CascadeOK(p)'
      BY <1>8, <1>12, <2>1, <2>3, WorkGoesOn
    <2>5. ASSUME NEW k \in DOMAIN records PROVE SystemLockOK(p, k)'
      <3>1. PICK f : f = records[k].parent
        OBVIOUS
      <3>2. SystemLockOK(p, k) /\ \A m \in Nodes \ {n} : StepOf(p, m)' = StepOf(p, m)
        BY <2>1 DEF LocksAlone, StepOf
      <3> SUFFICES ASSUME records[k].meta.lockedBy = LockSystem, k \notin spared \cup strayed \cup relocked
                   PROVE  /\ f \in DOMAIN records
                          /\ \/ records[f].meta.locked
                             \/ f \in relocked
                             \/ StepOf(p, f)' \in {"unlock.list", "unlock.children"}
        BY <1>3, <3>1, <3>2 DEF SystemLockOK
      <3>3. f \in DOMAIN records
           /\ (records[f].meta.locked \/ f \in relocked \/ StepOf(p, f) \in {"unlock.list", "unlock.children"})
        BY <3>1, <3>2 DEF SystemLockOK
      <3>4. f \in Nodes
        BY <3>3 DEF TreeInv, TreeTypes
      <3>5. CASE f = n
        <4>1. Goal(p, k)
          BY <1>11, <1>14, <3>1, <3>5 DEF Reached, Children
        <4>2. from = "lock.children"
          BY <1>8, <4>1 DEF Goal, Visiting
        <4> QED
          BY <1>4, <3>3, <3>5, <4>2
      <3>6. CASE f # n
        BY <3>2, <3>3, <3>4, <3>6
      <3> QED
        BY <3>5, <3>6
    <2> QED
      BY <1>3, <2>4, <2>5 DEF LocksAlone
  <1>15. ASSUME NEW k \in calls[c].todo,
                calls' = [d \in DOMAIN calls |->
                   IF d = c
                   THEN [calls[c] EXCEPT !.todo = @ \ {k},
                           !.child = IF At(<<c[1], k>>, "none") THEN k ELSE c[2]]
                   ELSE IF d = <<c[1], k>> /\ At(d, "none") THEN Call(start, k)
                        ELSE calls[d]]
         PROVE  LocksAlone(p)'
    <2>0. c[1] = p /\ c[2] = n
      BY <1>4
    <2>1. k \in Children(n) /\ k \in Nodes /\ k \in DOMAIN records
      BY <1>4, <1>6, <1>9, <1>15 DEF Children, TreeInv, TreeTypes
    <2>2. calls'[c] = [calls[c] EXCEPT !.todo = @ \ {k}, !.child = IF At(<<p, k>>, "none") THEN k ELSE n]
      BY <1>13, <1>15, <2>0
    <2>3. StepOf(p, n)' = from /\ Todo(p, n)' = todo \ {k}
      BY <1>3, <1>4, <1>6, <1>13, <2>2 DEF StepOf, Todo, CallRecord
    <2>4. ChildOf(p, n)' = IF StepOf(p, k) = "none" THEN k ELSE n
      BY <1>4, <1>13, <2>2 DEF ChildOf, StepOf, At, CallRecord
    <2>5. \A m \in Nodes \ {n, k} : calls'[<<p, m>>] = calls[<<p, m>>]
      BY <1>4, <1>13, <1>15, <2>0
    <2>6. Goal(p, n)' /\ Children(n)' = Children(n)
      BY <1>3, <1>9 DEF Goal, Children
    <2>7. \A f \in DOMAIN records : StepOf(p, f) \in {"unlock.list", "unlock.children"} => StepOf(p, f)' = StepOf(p, f)
      <3>1. \A m \in Nodes : StepOf(p, m) # "none" => StepOf(p, m)' = StepOf(p, m)
        <4> SUFFICES ASSUME NEW m \in Nodes, StepOf(p, m) # "none", m # n PROVE StepOf(p, m)' = StepOf(p, m)
          BY <1>4, <2>3
        <4> QED
          BY <1>4, <1>13, <1>15, <2>0 DEF StepOf, At
      <3> QED
        BY <3>1 DEF TreeInv, TreeTypes
    <2>8. CASE StepOf(p, k) = "none"
      <3>1. k # n
        BY <1>4, <2>8 DEF Visiting
      <3>2. calls'[<<p, k>>] = Call(start, k)
        BY <1>4, <1>13, <1>15, <2>0, <2>1, <2>8, <3>1 DEF At, StepOf
      <3>3. StepOf(p, k)' = start /\ ChildOf(p, k)' = k /\ start \in Opening
        BY <3>2 DEF Call, StepOf, ChildOf, Opening
      <3>4. Reached(p, n, (todo \ {k}) \cup ({k} \ {n}))'
        BY <1>3, <1>11, <2>6, <3>1 DEF Reached, Goal
      <3>5. Progress(p, n)'
        BY <1>3, <1>9, <2>1, <2>3, <2>4, <2>6, <2>8, <3>3, <3>4 DEF Progress, Opening, Listing, Visiting
      <3>6. CascadeOK(p)'
        BY <1>4, <1>8, <1>12, <2>1, <2>3, <2>4, <2>5, <2>8, <3>1, <3>3, <3>5, ChildStarts
      <3> QED
        BY <1>3, <2>7, <3>6, LocksStay DEF LocksAlone
    <2>9. CASE StepOf(p, k) # "none"
      <3>1. Goal(p, k)
        <4>1. CASE k # n /\ k # child /\ Active(p, k)
          <5>1. Progress(p, k) /\ Started(p, k) /\ records[k].parent = n
            BY <1>8, <2>1 DEF CascadeOK, Children
          <5>2. k = req[p].node
            BY <1>5, <2>9, <4>1, <5>1 DEF Started
          <5>3. StepOf(p, k) \notin Opening \cup Listing
            BY <1>4, <4>1, <5>1, <5>2 DEF Progress, Visiting
          <5> QED
            BY <4>1, <5>1, <5>3 DEF Active, Progress
        <4>2. CASE k = n \/ k = child \/ ~Active(p, k)
          BY <1>10, <2>1, <2>9, <4>2
        <4> QED
          BY <4>1, <4>2
      <3>2. \A m \in Nodes \ {n} : calls'[<<p, m>>] = calls[<<p, m>>]
        BY <1>4, <1>13, <1>15, <2>0, <2>9 DEF At, StepOf
      <3>3. Reached(p, n, todo \ {k})'
        BY <1>3, <1>11, <2>6, <3>1 DEF Reached, Goal
      <3>4. Reached(p, n, (todo \ {k}) \cup ({n} \ {n}))'
        BY <3>3 DEF Reached
      <3>5. Progress(p, n)'
        BY <1>3, <1>9, <2>3, <2>4, <2>6, <2>9, <3>4 DEF Progress, Opening, Listing, Visiting
      <3>6. CascadeOK(p)'
        <4>1. Active(p, n)' /\ ChildOf(p, n)' = n
          BY <2>3, <2>4, <2>9 DEF Active
        <4> QED
          BY <1>8, <1>12, <2>3, <3>2, <3>5, <4>1, WorkGoesOn
      <3> QED
        BY <1>3, <2>7, <3>6, LocksStay DEF LocksAlone
    <2> QED
      BY <2>8, <2>9
  <1>16. \/ todo = {} /\ Done(c, "ok")
         \/ \E k \in calls[c].todo :
              calls' = [d \in DOMAIN calls |->
                   IF d = c
                   THEN [calls[c] EXCEPT !.todo = @ \ {k},
                           !.child = IF At(<<c[1], k>>, "none") THEN k ELSE c[2]]
                   ELSE IF d = <<c[1], k>> /\ At(d, "none") THEN Call(start, k)
                        ELSE calls[d]]
    BY <1>2, <1>4, <1>6 DEF Cascade
  <1> QED
    BY <1>14, <1>15, <1>16

\* Where no cascade is under way, a lock of the lock system is below a lock.
LEMMA NoCascade ==
  ASSUME TreeInv, NEW p \in Procs, LocksAlone(p), ~Cascading(p)
  PROVE  /\ \A f \in DOMAIN records : StepOf(p, f) \notin {"unlock.list", "unlock.children"}
         /\ \A k \in DOMAIN records : records[k].meta.lockedBy = LockSystem =>
              /\ k \notin relocked => records[k].meta.locked
              /\ k \notin spared \cup strayed \cup relocked =>
                    /\ records[k].parent \in DOMAIN records
                    /\ records[records[k].parent].meta.locked \/ records[k].parent \in relocked
  <1>1. \A f \in DOMAIN records : StepOf(p, f) \notin {"unlock.list", "unlock.children"}
    BY DEF TreeInv, TreeTypes, Matching, StepOf, UnlockSteps, Cascading
  <1> QED
    BY <1>1 DEF LocksAlone, SystemLockOK

\* No cascade, and no record changes.
LEMMA OtherLocks ==
  ASSUME TreeInv, NEW p \in Procs, FiltersAlone(p), LocksAlone(p), NEW c \in Procs \X Nodes,
         \/ CreateCheck(c) \/ UpdateRead(c) \/ UpdateCheck(c) \/ UpdateCheckNew(c) \/ UpdateChildren(c)
         \/ DeleteRead(c) \/ DeleteCheck(c) \/ DeleteList(c) \/ DeleteChildren(c)
  PROVE  LocksAlone(p)'
  <1>1. /\ UNCHANGED <<records, load, req, issued, strayed, relocked>> /\ spared \subseteq spared'
        /\ calls[c].at \in CreateSteps \cup UpdateSteps \cup DeleteSteps
    BY DEF CreateCheck, UpdateRead, UpdateCheck, UpdateCheckNew, UpdateChildren, DeleteRead, DeleteCheck,
           DeleteList, DeleteChildren, ReadNode, CheckParent, Proceed, At, CreateSteps, UpdateSteps, DeleteSteps
  <1>2. calls[c].at # "none" /\ req[c[1]].op \in {"create", "update", "delete"}
    BY <1>1 DEF TreeInv, Matching, CreateSteps, UpdateSteps, DeleteSteps
  <1>3. ~Cascading(p)
    BY <1>2, OnlyOnes DEF Cascading
  <1>4. CascadeOK(p)'
    BY <1>1, <1>3 DEF CascadeOK, Cascading
  <1> QED
    BY <1>1, <1>3, <1>4, NoCascade, LocksStay DEF LocksAlone

\* A new node is not locked.
LEMMA CreateAddLocks ==
  ASSUME TreeInv, NEW p \in Procs, FiltersAlone(p), LocksAlone(p), NEW c \in Procs \X Nodes, CreateAdd(c)
  PROVE  LocksAlone(p)'
  <1>1. calls[c].at = "create.add" /\ UNCHANGED <<load, req, issued, spared, relocked>> /\ strayed \subseteq strayed'
    BY DEF CreateAdd, At
  <1>2. PICK n \in Nodes : n = c[2]
    OBVIOUS
  <1>3. c = <<p, n>> /\ StepOf(p, n) = "create.add" /\ Copy(p, n) = calls[c].rec /\ req[p].op = "create"
    BY <1>1, <1>2, OnlyOnes DEF TreeInv, Matching, CreateSteps
  <1>4. calls[c].rec.meta.lockedBy = NoOne /\ n \notin DOMAIN records
    BY <1>1, <1>2, <1>3 DEF FiltersAlone, CopyOK, TreeInv, Unborn, CreateSteps
  <1>5. /\ DOMAIN records' = DOMAIN records \cup {n} /\ records'[n] = calls[c].rec
        /\ \A k \in DOMAIN records : records'[k] = records[k]
    BY <1>2, <1>4 DEF CreateAdd
  <1>6. ~Cascading(p) /\ NoOne # LockSystem
    BY <1>3, PrincipalsAssumption DEF Cascading
  <1>7. ASSUME NEW k \in DOMAIN records' PROVE SystemLockOK(p, k)'
    <2>1. CASE k = n
      BY <1>4, <1>5, <1>6, <2>1 DEF SystemLockOK
    <2>2. CASE k # n
      BY <1>1, <1>5, <1>6, <2>2, NoCascade DEF SystemLockOK
    <2> QED
      BY <2>1, <2>2
  <1> QED
    BY <1>1, <1>6, <1>7 DEF LocksAlone, CascadeOK, Cascading

\* A move leaves the lock as it is: a node that the lock system locked strays.
\* What writes a lock is on record.
LEMMA UpdateWriteLocks ==
  ASSUME TreeInv, NEW p \in Procs, FiltersAlone(p), LocksAlone(p), NEW c \in Procs \X Nodes, UpdateWrite(c)
  PROVE  LocksAlone(p)'
  <1>1. /\ calls[c].at = "update.write" /\ UNCHANGED <<load, req, issued, spared>>
        /\ strayed \subseteq strayed' /\ relocked \subseteq relocked'
    BY DEF UpdateWrite, WriteNode, At
  <1>2. PICK n \in Nodes : n = c[2]
    OBVIOUS
  <1>3. PICK rec : rec = calls[c].rec
    OBVIOUS
  <1>4. c = <<p, n>> /\ StepOf(p, n) = "update.write" /\ Copy(p, n) = rec /\ req[p].op = "update"
    BY <1>1, <1>2, <1>3, OnlyOnes DEF TreeInv, Matching, UpdateSteps
  <1>5. n \in DOMAIN records
    BY <1>4 DEF FiltersAlone, CopyOK, Tested, Asking, UpdateSteps
  <1>6. /\ records' = [records EXCEPT ![n] = rec]
        /\ rec.meta.lockedBy = LockSystem => n \in strayed' \/ rec.parent = records[n].parent
        /\ \/ n \in relocked'
           \/ rec.meta.locked = records[n].meta.locked /\ rec.meta.lockedBy = records[n].meta.lockedBy
    BY <1>2, <1>3, <1>5 DEF UpdateWrite, WriteNode, LockOf
  <1>7. /\ DOMAIN records' = DOMAIN records /\ records'[n] = rec
        /\ \A k \in DOMAIN records :
              /\ k # n => records'[k] = records[k]
              /\ k \notin relocked' => /\ records'[k].meta.locked = records[k].meta.locked
                                       /\ records'[k].meta.lockedBy = records[k].meta.lockedBy
    BY <1>5, <1>6 DEF TreeInv, TreeTypes
  <1>8. ~Cascading(p)
    BY <1>4 DEF Cascading
  <1>9. ASSUME NEW k \in DOMAIN records PROVE SystemLockOK(p, k)'
    <2> SUFFICES ASSUME k \notin relocked', records[k].meta.lockedBy = LockSystem
                 PROVE  /\ records[k].meta.locked
                        /\ k \notin spared \cup strayed' =>
                             /\ records'[k].parent \in DOMAIN records
                             /\ \/ records'[k].parent \in relocked'
                                \/ records[records'[k].parent].meta.locked
      BY <1>1, <1>7 DEF SystemLockOK
    <2>1. records[k].meta.locked
      BY <1>1, <1>8, NoCascade
    <2>2. k \notin strayed' => records'[k].parent = records[k].parent
      BY <1>5, <1>6, <1>7
    <2> QED
      BY <1>1, <1>8, <2>1, <2>2, NoCascade
  <1> QED
    BY <1>1, <1>7, <1>8, <1>9 DEF LocksAlone, CascadeOK, Cascading

\* A deletion leaves no child behind but those it had to spare.
LEMMA DeleteLastLocks ==
  ASSUME TreeInv, NEW p \in Procs, FiltersAlone(p), LocksAlone(p), NEW c \in Procs \X Nodes, DeleteLast(c)
  PROVE  LocksAlone(p)'
  <1>1. /\ calls[c].at = "delete.last" /\ UNCHANGED <<load, req, issued, spared, strayed, relocked>>
        /\ records' = [n \in DOMAIN records \ {c[2]} |-> records[n]]
    BY DEF DeleteLast, At
  <1>2. req[p].op = "delete" /\ Children(c[2]) \subseteq spared \cup strayed
    BY <1>1, OnlyOnes DEF TreeInv, Matching, DeleteSteps, DeletionCovers
  <1>3. ~Cascading(p)
    BY <1>2 DEF Cascading
  <1>4. ASSUME NEW k \in DOMAIN records' PROVE SystemLockOK(p, k)'
    <2>1. k \in DOMAIN records /\ records'[k] = records[k]
      BY <1>1
    <2>2. k \notin spared \cup strayed => records[k].parent # c[2]
      BY <1>2, <2>1 DEF Children
    <2>3. \A f \in DOMAIN records : f # c[2] => f \in DOMAIN records' /\ records'[f] = records[f]
      BY <1>1
    <2> QED
      BY <1>1, <1>3, <2>1, <2>2, <2>3, NoCascade DEF SystemLockOK
  <1> QED
    BY <1>1, <1>3, <1>4 DEF LocksAlone, CascadeOK, Cascading

\* A workflow's mark is no lock.
LEMMA MarkLocks ==
  ASSUME TreeInv, NEW p \in Procs, FiltersAlone(p), LocksAlone(p),
         NEW n \in InWorkflows, NEW i \in InstanceIds \cup {NoInstance}, Mark(n, i)
  PROVE  LocksAlone(p)'
  <1>1. n \in DOMAIN records /\ UNCHANGED <<load, req, calls, issued, spared, strayed, relocked>>
    BY DEF Mark
  <1>2. records[n] \in TreeRecord /\ records[n].meta \in NodeRecord
    BY <1>1 DEF TreeInv, TreeTypes, TreeRecord
  <1>3. records' = [records EXCEPT ![n] = [records[n] EXCEPT !.meta = [records[n].meta EXCEPT !.instance = i]]]
    BY DEF Mark
  <1>4. /\ DOMAIN records' = DOMAIN records /\ \A k \in DOMAIN records \ {n} : records'[k] = records[k]
        /\ records'[n] = [records[n] EXCEPT !.meta = [records[n].meta EXCEPT !.instance = i]]
    BY <1>1, <1>3 DEF TreeInv, TreeTypes
  <1>5. Like(records'[n], records[n])
    BY <1>2, <1>4 DEF Like, TreeRecord, NodeRecord
  <1>6. \A k \in DOMAIN records : Like(records'[k], records[k])
    BY <1>4, <1>5 DEF Like
  <1>7. /\ \A k : Children(k)' = Children(k)
        /\ \A k \in DOMAIN records : Goal(p, k)' <=> Goal(p, k)
    BY <1>1, <1>4, <1>6 DEF Children, Goal, Like
  <1>8. \A k : StepOf(p, k)' = StepOf(p, k) /\ ChildOf(p, k)' = ChildOf(p, k) /\ Todo(p, k)' = Todo(p, k)
    BY <1>1 DEF StepOf, ChildOf, Todo
  <1>9. CascadeOK(p)'
    <2> SUFFICES ASSUME Cascading(p) PROVE CascadeOK(p)'
      BY <1>1 DEF CascadeOK, Cascading
    <2>0. CascadeOK(p)
      BY DEF LocksAlone
    <2>1. StepOf(p, req[p].node)' # "none"
      BY <1>1, <2>0 DEF CascadeOK, StepOf
    <2>2. OneAtWork(p)'
      BY <1>1, <2>0 DEF CascadeOK, OneAtWork, AtWork, Active, Waiting, StepOf, ChildOf
    <2>3. Grounded(p)'
      <3> SUFFICES ASSUME NEW S \in SUBSET (Nodes \ {req[p].node}), S # {}, \A k \in S : StepOf(p, k) # "none"
                   PROVE  \E k \in S : records'[k].parent \notin S
        BY <1>1, <1>8 DEF Grounded
      <3>1. PICK k \in S : records[k].parent \notin S
        BY <2>0 DEF CascadeOK, Grounded
      <3>2. k \in DOMAIN records
        BY <2>0 DEF CascadeOK, Started
      <3> QED
        BY <1>6, <3>1, <3>2 DEF Like
    <2>4. ASSUME NEW k \in Nodes PROVE Started(p, k)' /\ Progress(p, k)'
      <3>1. Started(p, k) /\ Progress(p, k)
        BY <2>0 DEF CascadeOK
      <3>2. Started(p, k)'
        BY <1>1, <1>4, <1>6, <3>1 DEF Started, Like, Active, StepOf, ChildOf
      <3>3. \A rest : Reached(p, k, rest) => Reached(p, k, rest)'
        BY <1>1, <1>7 DEF Reached, Children
      <3>4. Progress(p, k)'
        BY <1>1, <1>4, <1>6, <1>7, <2>0, <3>1, <3>3 DEF CascadeOK, Started, Progress, Like, StepOf, ChildOf, Todo
      <3> QED
        BY <3>2, <3>4
    <2> QED
      BY <2>1, <2>2, <2>3, <2>4 DEF CascadeOK
  <1>10. ASSUME NEW k \in DOMAIN records PROVE SystemLockOK(p, k)'
    <2>1. PICK f : f = records[k].parent
      OBVIOUS
    <2>2. records'[k].parent = f /\ SystemLockOK(p, k)
      BY <1>6, <2>1 DEF Like, LocksAlone
    <2> QED
      BY <1>1, <1>4, <1>6, <1>8, <2>1, <2>2 DEF SystemLockOK, Like
  <1> QED
    BY <1>4, <1>9, <1>10 DEF LocksAlone

\* A cascade starts with one call.
LEMMA StartLocks ==
  ASSUME TreeInv, NEW p \in Procs, FiltersAlone(p), LocksAlone(p), NEW q \in Procs, load.procs = {p}, Start(q)
  PROVE  LocksAlone(p)'
  <1>1. UNCHANGED <<records, load, spared, strayed, relocked>> /\ \A n \in Nodes : StepOf(p, n) = "none"
    BY Arrived
  <1>2. PICK r \in Request :
           /\ r.op \in {"create", "update", "delete", "lock", "unlock"} /\ r.node \in Nodes
           /\ req'[p] = r
           /\ StepOf(p, r.node)' = r.op /\ \A n \in Nodes \ {r.node} : StepOf(p, n)' = "none"
    BY Arrived
  <1>3. PICK n : n = r.node
    OBVIOUS
  <1>4. ASSUME NEW k \in DOMAIN records PROVE SystemLockOK(p, k)'
    <2>1. \A f \in DOMAIN records : StepOf(p, f) = "none"
      BY <1>1 DEF TreeInv, TreeTypes
    <2> QED
      BY <1>1, <2>1, LocksStay
  <1>5. CascadeOK(p)'
    <2> SUFFICES ASSUME r.op \in {"lock", "unlock"} PROVE CascadeOK(p)'
      BY <1>2 DEF CascadeOK, Cascading
    <2>1. \A m \in Nodes \ {n} : StepOf(p, m)' = "none"
      BY <1>2, <1>3
    <2>2. StepOf(p, n)' \in {"lock", "unlock"} /\ n \in Nodes /\ req'[p].node = n
      BY <1>2, <1>3
    <2>3. ChildOf(p, n)' = n
      <3>1. PICK s \in load.requests : req' = [req EXCEPT ![q] = s] /\ calls' = [calls EXCEPT ![<<q, s.node>>] = Call(s.op, s.node)]
        BY DEF Start
      <3>2. q = p
        BY Arrived
      <3>3. s = r
        BY <1>2, <3>1, <3>2 DEF TreeInv, TreeTypes
      <3> QED
        BY <1>2, <1>3, <3>1, <3>2, <3>3 DEF TreeInv, TreeTypes, Call, ChildOf
    <2>4. OneAtWork(p)'
      BY <2>1 DEF OneAtWork, AtWork, Active, Opening, Listing, Visiting
    <2>5. Grounded(p)'
      BY <2>1, <2>2 DEF Grounded
    <2>6. ASSUME NEW m \in Nodes PROVE Started(p, m)' /\ Progress(p, m)'
      <3>1. CASE m = n
        BY <2>1, <2>2, <2>3, <3>1 DEF Started, Progress, Opening, Listing, Visiting
      <3>2. CASE m # n
        BY <2>1, <3>2 DEF Started, Progress, Opening, Listing, Visiting
      <3> QED
        BY <3>1, <3>2
    <2>7. StepOf(p, req[p].node)' # "none"
      BY <2>2 DEF StepOf
    <2> QED
      BY <2>4, <2>5, <2>6, <2>7 DEF CascadeOK
  <1> QED
    BY <1>1, <1>4, <1>5 DEF LocksAlone

\* When the request is answered no call of it is at work any more: a waiting
\* call is waited for, up to the request's own, which has ended.
LEMMA ReplyLocks ==
  ASSUME TreeInv, NEW p \in Procs, FiltersAlone(p), LocksAlone(p), NEW q \in Procs, Reply(q)
  PROVE  LocksAlone(p)'
  <1>1. /\ UNCHANGED <<records, load, issued, spared, strayed, relocked>> /\ req' = [req EXCEPT ![q] = NoRequest]
        /\ req[q] # NoRequest /\ Finished(<<q, req[q].node>>)
    BY DEF Reply
  <1>2. q = p
    BY <1>1 DEF FiltersAlone
  <1>3. req'[p].op = "none"
    BY <1>1, <1>2 DEF TreeInv, TreeTypes, NoRequest
  <1>4. StepOf(p, req[p].node) \in {"ok", "error"}
    BY <1>1, <1>2 DEF Finished, StepOf
  <1>5. \A f \in DOMAIN records : StepOf(p, f) \notin {"unlock.list", "unlock.children"}
    <2>1. CASE Cascading(p)
      <3> DEFINE S == {n \in Nodes : Active(p, n)}
      <3>0. CascadeOK(p)
        BY DEF LocksAlone
      <3>1. \A n \in S : n # req[p].node /\ StepOf(p, n) # "none"
        BY <1>4 DEF Active, Opening, Listing, Visiting
      <3>2. \A n \in S : records[n].parent \in S
        <4> SUFFICES ASSUME NEW n \in S PROVE records[n].parent \in S
          OBVIOUS
        <4>1. n \in Nodes /\ Active(p, n) /\ Started(p, n)
          BY <2>1, <3>0 DEF CascadeOK
        <4>2. records[n].parent \in DOMAIN records /\ StepOf(p, records[n].parent) \in Visiting
          BY <3>1, <4>1 DEF Started
        <4> QED
          BY <4>2 DEF Active, TreeInv, TreeTypes
      <3>3. S = {}
        <4>1. S \in SUBSET (Nodes \ {req[p].node}) /\ Grounded(p)
          BY <2>1, <3>0, <3>1 DEF CascadeOK
        <4> HIDE DEF S
        <4> QED
          BY <3>1, <3>2, <4>1 DEF Grounded
      <3> QED
        BY <3>3 DEF Active, Listing, Visiting, TreeInv, TreeTypes
    <2>2. CASE ~Cascading(p)
      BY <2>2, NoCascade
    <2> QED
      BY <2>1, <2>2
  <1>6. CascadeOK(p)'
    BY <1>3 DEF CascadeOK, Cascading
  <1> QED
    BY <1>1, <1>5, <1>6, LocksStay DEF LocksAlone

\* The invariant holds at the start.
LEMMA LocksInitial == Init => LocksInv
  <1> SUFFICES ASSUME Init, NEW p \in Procs PROVE LocksAlone(p)
    BY DEF LocksInv
  <1>1. records = InitialTree /\ req[p].op = "none"
    BY DEF Init, NoRequest
  <1>2. \A k \in DOMAIN records : SystemLockOK(p, k)
    BY <1>1, TreeAssumption DEF SystemLockOK
  <1> QED
    BY <1>1, <1>2 DEF LocksAlone, CascadeOK, Cascading

\* Every step keeps it.
LEMMA LocksStep ==
  ASSUME TreeInv, FiltersInv, LocksInv, [Next]_vars
  PROVE  LocksInv'
  <1>1. UNCHANGED load
    BY DEF Next, Step, vars, Start, Reply, Mark, CreateCheck, CreateAdd, UpdateRead, UpdateCheck, UpdateCheckNew,
           UpdateChildren, UpdateWrite, DeleteRead, DeleteCheck, DeleteList, DeleteChildren, DeleteLast,
           LockRead, LockCheck, LockWrite, LockList, LockChildren, UnlockRead, UnlockWrite, UnlockList,
           UnlockChildren, ReadNode, CheckParent, Proceed, WriteNode, ListToCascade, Cascade
  <1> SUFFICES ASSUME NEW p \in Procs, load.procs = {p} PROVE LocksAlone(p)'
    BY <1>1 DEF LocksInv
  <1>2. FiltersAlone(p) /\ LocksAlone(p)
    BY DEF FiltersInv, LocksInv
  <1>3. CASE UNCHANGED vars
    <2>1. OneAtWork(p)' <=> OneAtWork(p)
      BY <1>3 DEF vars, OneAtWork, AtWork, Active, Waiting, StepOf, ChildOf
    <2>2. Grounded(p)' <=> Grounded(p)
      BY <1>3 DEF vars, Grounded, StepOf
    <2>3. ASSUME NEW n \in Nodes PROVE (Started(p, n)' <=> Started(p, n)) /\ (Progress(p, n)' <=> Progress(p, n))
      <3>1. Started(p, n)' <=> Started(p, n)
        BY <1>3 DEF vars, Started, Active, StepOf, ChildOf
      <3>2. \A rest : Reached(p, n, rest)' <=> Reached(p, n, rest)
        BY <1>3 DEF vars, Reached, Goal, Children
      <3>3. Progress(p, n)' <=> Progress(p, n)
        BY <1>3, <3>2 DEF vars, Progress, Goal, Children, StepOf, ChildOf, Todo
      <3> QED
        BY <3>1, <3>3
    <2>4. CascadeOK(p)'
      BY <1>2, <1>3, <2>1, <2>2, <2>3 DEF vars, LocksAlone, CascadeOK, Cascading, StepOf
    <2>5. \A n \in DOMAIN records : SystemLockOK(p, n)' <=> SystemLockOK(p, n)
      BY <1>3 DEF vars, SystemLockOK, StepOf
    <2> QED
      BY <1>2, <1>3, <2>4, <2>5 DEF vars, LocksAlone
  <1>4. ASSUME NEW c \in Procs \X Nodes, Step(c) PROVE LocksAlone(p)'
    <2>1. CASE \/ CreateCheck(c) \/ UpdateRead(c) \/ UpdateCheck(c) \/ UpdateCheckNew(c) \/ UpdateChildren(c)
               \/ DeleteRead(c) \/ DeleteCheck(c) \/ DeleteList(c) \/ DeleteChildren(c)
      BY <1>2, <2>1, OtherLocks
    <2>2. CASE CreateAdd(c) \/ UpdateWrite(c) \/ DeleteLast(c)
      BY <1>2, <2>2, CreateAddLocks, UpdateWriteLocks, DeleteLastLocks
    <2>3. CASE LockRead(c) \/ LockCheck(c) \/ UnlockRead(c)
      BY <1>2, <2>3, OpeningLocks
    <2>4. CASE LockWrite(c) \/ UnlockWrite(c)
      BY <1>2, <2>4, CascadeWriteLocks
    <2>5. CASE LockList(c) \/ UnlockList(c)
      BY <1>2, <2>5, ListLocks
    <2>6. CASE LockChildren(c) \/ UnlockChildren(c)
      BY <1>2, <2>6, VisitLocks
    <2> QED
      BY <1>4, <2>1, <2>2, <2>3, <2>4, <2>5, <2>6 DEF Step
  <1> QED
    BY <1>2, <1>3, <1>4, StartLocks, ReplyLocks, MarkLocks DEF Next

\* For any nodes, users and requests, served one at a time: a node that the
\* lock system locked, and that its own unlock would refuse to free, is in a
\* locked folder whose unlock will (lock, unlock, update and delete).
THEOREM SystemLocksAreFreed == Spec => []SystemLocksHaveFolder
  <1>1. TreeInv /\ LocksInv => SystemLocksHaveFolder
    <2> SUFFICES ASSUME TreeInv, LocksInv, Alone, Quiet, NEW n \in DOMAIN records \ (spared \cup strayed \cup relocked),
                        records[n].meta.lockedBy = LockSystem
                 PROVE  /\ records[n].parent \in DOMAIN records
                        /\ records[records[n].parent].meta.locked \/ records[n].parent \in relocked
      BY DEF SystemLocksHaveFolder
    <2>1. PICK p \in Procs : LocksAlone(p)
      BY OneProcess DEF LocksInv
    <2>2. ~Cascading(p)
      BY DEF Quiet, NoRequest, Cascading
    <2> QED
      BY <2>1, <2>2, NoCascade
  <1> QED
    BY <1>1, FiltersStep, LocksStep, TreeInitial, FiltersInitial, LocksInitial, TreeStep, PTL DEF Spec

\* For any nodes, users and requests, served one at a time: when lock answers
\* that a folder is locked, so is every child it could list, although it looks
\* at no answer of the calls it makes for them (lock).
THEOREM LocksReachChildren == Spec => []LockCoversChildren
  <1>1. TreeInv /\ LocksInv => LockCoversChildren
    <2> SUFFICES ASSUME TreeInv, LocksInv, Alone, NEW p \in load.procs,
                        req[p] # NoRequest, req[p].op = "lock", At(<<p, req[p].node>>, "ok"),
                        NEW k \in Children(req[p].node) \ spared
                 PROVE  records[k].meta.locked
      BY DEF LockCoversChildren
    <2>1. p \in Procs /\ LocksAlone(p)
      BY OneProcess DEF LocksInv
    <2>2. PICK n \in Nodes : n = req[p].node
      BY <2>1, RequestOf
    <2>3. StepOf(p, n) = "ok"
      BY <2>2 DEF At, StepOf
    <2>4. Reached(p, n, {})
      BY <2>1, <2>3 DEF LocksAlone, CascadeOK, Cascading, Progress
    <2> QED
      BY <2>2, <2>4 DEF Reached, Goal
  <1> QED
    BY <1>1, FiltersStep, LocksStep, TreeInitial, FiltersInitial, LocksInitial, TreeStep, PTL DEF Spec
=============================================================================

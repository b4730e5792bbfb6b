---------------------------- MODULE MCFolderTree ----------------------------
(***************************************************************************)
(* Instances of FolderTree for TLC: a folder with a folder and a document  *)
(* in it, a second folder beside it, and one node to create.               *)
(***************************************************************************)
EXTENDS FolderTree, TLC
LOCAL INSTANCE FiniteSetsExt

CONSTANTS admins, staff, ann, adm, text, w1, a, b, d, e, root

MCUsers    == {ann, adm}
MCGroups   == {admins, staff}
MCGroupsOf == (ann :> {staff}) @@ (adm :> {admins})

Rec(kind, parent, only) ==
    [meta |-> FreshNode(text), kind |-> kind, parent |-> parent, only |-> only,
     writers |-> IF kind = "folder" THEN {ann} ELSE {}]
MCTree == (a :> Rec("folder", root, {"folder", "doc"}))
            @@ (b :> Rec("folder", a, {"folder", "doc"}))
            @@ (d :> Rec("doc", b, {"folder", "doc"}))

By(op, u, n)       == [op |-> op, user |-> u, node |-> n]
\* What an update sends of the record itself.
Nothing == [locked |-> Unsent, lockedBy |-> Unsent, unlockGroups |-> Unsent,
            instance |-> Unsent, state |-> Unsent, data |-> Unsent]
Update(u, n, f, only, metadata) ==
    [op |-> "update", user |-> u, node |-> n, parent |-> f, only |-> only, metadata |-> metadata]
Move(u, n, f)      == Update(u, n, f, Unsent, Nothing)
Narrow(u, n, only) == Update(u, n, Unsent, only, Nothing)
Free(u, n)         == Update(u, n, Unsent, Unsent, [Nothing EXCEPT !.locked = FALSE])
New(u, n, f, k)    == [op |-> "create", user |-> u, node |-> n, parent |-> f, kind |-> k]

MCRequests ==
    {New(ann, e, a, "doc"), New(ann, e, root, "doc"), Move(adm, d, a), Move(adm, b, root),
     Move(adm, a, b), Narrow(ann, a, {"folder"}), Narrow(adm, b, {"doc"}),
     Free(ann, a),
     Free(WorkflowUser, d),
     By("delete", ann, a), By("lock", ann, a), By("lock", ann, b), By("unlock", ann, a)}

\* One process with all of the requests of clients, and two with every two of
\* them or one and the engine's.
MCLoads ==
    {[procs |-> {p}, requests |-> {r \in MCRequests : r.user # WorkflowUser}] : p \in Procs}
    \cup {[procs |-> Procs, requests |-> rs] : rs \in kSubset(2, MCRequests)}

ProcSymmetry == Permutations(Procs)
=============================================================================

--------------------------- MODULE MCNodeContent ---------------------------
(***************************************************************************)
(* Instances of NodeContent for TLC: an owner who may write the folder,    *)
(* somebody else who may too, a stranger who may not, and up to four files *)
(* of one or two bytes under a limit of a few.                             *)
(***************************************************************************)
EXTENDS NodeContent, TLC

CONSTANTS admins, staff, ann, ben, eve, text, f1, f2, f3, f4, w1

MCUsers    == {ann, ben, eve}
MCGroups   == {admins, staff}
MCGroupsOf == (ann :> {staff}) @@ (ben :> {}) @@ (eve :> {})
MCWriters  == {ann, ben}

Upload(u, size)     == [op |-> "createFile", user |-> u, data |-> text, size |-> size]
ReplaceBy(u, f, n)  == [op |-> "updateFile", user |-> u, file |-> f, size |-> n]
By(op, u, f)        == [op |-> op, user |-> u, file |-> f]
LockBy(u, f)        == [op |-> "lock", user |-> u, file |-> f, groups |-> {staff}]
MarkAs(f, i, s)     == [op |-> "mark", user |-> WorkflowUser, file |-> f,
                        inst |-> i, state |-> s]

ConcurrentRequests ==
    {Upload(ann, 2), ReplaceBy(ben, f1, 2), ReplaceBy(ann, f2, 1),
     By("copy", ben, f1), By("update", ann, f1), By("delete", ann, f1),
     By("delete", ben, f2), LockBy(ann, f1), MarkAs(f1, w1, "open")}

SequentialRequests ==
    {Upload(ann, 1), Upload(eve, 1), By("copy", ann, f1), By("update", ann, f1)}
    \cup {ReplaceBy(u, f, 2) : u \in {ann, ben}, f \in {f1, f2}}
    \cup {By("delete", u, f) : u \in {ann, eve}, f \in {f1, f2}}
    \cup {LockBy(ann, f1), By("unlock", ann, f1), By("unlock", ben, f1),
          MarkAs(f1, w1, "open"), MarkAs(f1, NoInstance, NoState)}

ProcSymmetry == Permutations(Procs)
=============================================================================

----------------------- MODULE MCWorkflowInstances -----------------------
(***************************************************************************)
(* Instances of WorkflowInstances for TLC: one document, a few users, two  *)
(* workflow definitions, and the sets of requests each run lets the        *)
(* clients send.                                                           *)
(***************************************************************************)
EXTENDS WorkflowInstances, TLC

CONSTANTS admins, staff, legal,
          alice,   \* administrator, in staff
          bob,     \* in staff
          carol,   \* in legal, the other group of participants
          dave,    \* in no group, may write the folder
          doc, d1, d2, i1, i2, rough, ready

MCUsers == {alice, bob, carol, dave}
MCGroups == {admins, staff, legal}
MCGroupsOf == (alice :> {admins, staff}) @@ (bob :> {staff}) @@ (carol :> {legal})
                @@ (dave :> {})
MCData == {rough, ready}
MCStates == {"draft", "review", "done"}
MCSignals == {"submit", "reject", "approve", "reopen"}

Step(from, signal, to, groups, filters, actions) ==
    [from |-> from, signal |-> signal, to |-> to, groupsAllowed |-> groups,
     filters |-> filters, actions |-> actions]

\* A review: only ready documents are submitted, staff work on drafts and
\* nobody but administrators edits under review.
Review ==
    [states |-> MCStates, initial |-> "draft", final |-> {"done"},
     transitions |-> { Step("draft", "submit", "review", {}, {ready}, FALSE),
                       Step("review", "reject", "draft", {staff}, MCData, FALSE),
                       Step("review", "approve", "done", {staff, legal}, MCData, TRUE) },
     modify |-> [draft |-> Unrestricted, review |-> {legal}, done |-> {}],
     participants |-> {staff, legal}, filters |-> MCData]

\* The same with a way back out of the final state, as the schema allows.
Reopenable ==
    [Review EXCEPT !.transitions =
        @ \cup {Step("done", "reopen", "draft", {}, MCData, FALSE)}]

\* A definition the schema refuses: two transitions with one signal.
Ambiguous ==
    [Review EXCEPT !.transitions =
        @ \cup {Step("draft", "submit", "done", {}, MCData, FALSE)}]

\* Another valid body for the same definition: no review.
Direct ==
    [Review EXCEPT !.transitions = {Step("draft", "approve", "done", {}, MCData, FALSE)},
                   !.participants = {staff}, !.modify = [s \in MCStates |-> Unrestricted]]

ReviewOnly     == d1 :> Review
ReopenableOnly == d1 :> Reopenable
Bodies         == {Review, Reopenable, Direct}

----------------------------------------------------------------------------
StartBy(u, override) ==
    [op |-> "start", user |-> u, node |-> doc, def |-> d1, override |-> override]
TransitionBy(u, i, s) == [op |-> "transition", user |-> u, inst |-> i, signal |-> s]
On(op, u, i)          == [op |-> op, user |-> u, inst |-> i]
\* Metadata with the fields a request leaves out.
Nothing == [locked |-> Unsent, lockedBy |-> Unsent, unlockGroups |-> Unsent,
            instance |-> Unsent, state |-> Unsent, data |-> Unsent]
Content(d) == [Nothing EXCEPT !.data = d]
Freed      == [Nothing EXCEPT !.locked = FALSE]
Unmarked   == [Freed EXCEPT !.instance = NoInstance, !.state = NoState]
Moved      == [Nothing EXCEPT !.instance = i1, !.state = "done"]
LockedTo(u)   == [Content(ready) EXCEPT !.locked = TRUE, !.lockedBy = u]
GivenTo(g)    == [Nothing EXCEPT !.unlockGroups = {g}, !.instance = NoInstance]

EditBy(u, i, m)       == [op |-> "updateNode", user |-> u, inst |-> i, metadata |-> m]
LockBy(u, groups)     == [op |-> "lock", user |-> u, node |-> doc, groups |-> groups]
UnlockBy(u)           == [op |-> "unlock", user |-> u, node |-> doc]
DeleteBy(u)           == [op |-> "delete", user |-> u, node |-> doc]
UpdateBy(u, m)        == [op |-> "update", user |-> u, node |-> doc, metadata |-> m]
PutBy(u, d, b)        == [op |-> "putDefinition", user |-> u, def |-> d, body |-> b]
DropBy(u, d)          == [op |-> "deleteDefinition", user |-> u, def |-> d]

Moves(users, insts) ==
    {TransitionBy(u, i, s) : u \in users, i \in insts, s \in MCSignals}

\* Whoever moves an instance can release its node (they share a group with
\* alice, who starts); the others use the node directly, or try to, and send
\* lock and mark fields along.
OrderlyRequests ==
    {StartBy(alice, NoOverride), StartBy(alice, {staff}), StartBy(bob, {legal, admins}),
     StartBy(dave, NoOverride)}
    \cup Moves({alice}, {i1, i2}) \cup {TransitionBy(bob, i1, "reject")}
    \cup {On("cancel", alice, i1), On("cancel", bob, i1), On("cancel", alice, i2)}
    \cup {EditBy(u, i1, Content(d)) : u \in {bob, carol}, d \in MCData}
    \cup {EditBy(alice, i2, Content(ready))}
    \cup {EditBy(bob, i1, Freed), EditBy(carol, i1, Unmarked), EditBy(bob, i2, Moved)}
    \cup {LockBy(dave, {}), LockBy(dave, {legal}), UnlockBy(dave), UnlockBy(carol),
          DeleteBy(bob), UpdateBy(bob, Content(ready)), UpdateBy(dave, Content(rough)),
          UpdateBy(dave, LockedTo(carol)), UpdateBy(carol, Freed), UpdateBy(bob, GivenTo(staff))}

\* Two at a time: an administrator starts, submits and cancels while others
\* move the instance, update the node and edit the definition.
ConcurrentRequests ==
    {StartBy(alice, NoOverride), TransitionBy(alice, i1, "submit"),
     TransitionBy(dave, i1, "submit"), TransitionBy(carol, i1, "reject"),
     TransitionBy(carol, i1, "approve"), TransitionBy(bob, i1, "reopen"),
     On("cancel", alice, i1), UpdateBy(dave, Content(ready)), PutBy(alice, d1, Direct)}

LifecycleRequests ==
    {StartBy(alice, NoOverride), StartBy(alice, {legal})}
    \cup Moves({alice}, {i1, i2})
    \cup {On("cancel", alice, i1), On("deleteInstance", alice, i1),
          On("deleteInstance", bob, i1), UpdateBy(bob, Content(ready)), LockBy(dave, {}),
          UnlockBy(dave)}
    \cup {PutBy(alice, d, b) : d \in {d1, d2}, b \in {Direct, Ambiguous}}
    \cup {PutBy(bob, d1, Direct), DropBy(alice, d1), DropBy(bob, d1)}

LivenessRequests ==
    {StartBy(alice, NoOverride), TransitionBy(bob, i1, "approve"),
     TransitionBy(alice, i1, "submit"), On("cancel", alice, i1), UnlockBy(bob)}

\* The small set behind the finding.
CancelledMeanwhile ==
    {StartBy(alice, NoOverride), TransitionBy(alice, i1, "submit"), On("cancel", alice, i1)}

ProcSymmetry == Permutations(Procs)
=============================================================================

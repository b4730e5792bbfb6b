------------------------ MODULE WorkflowDefinitions ------------------------
(***************************************************************************)
(* Workflow definitions: their shape, the schema check every write of one  *)
(* passes (src/domain/configuration/workflow_schema.ts), and the questions *)
(* WorkflowInstancesEngine asks of one.                                    *)
(*                                                                         *)
(* A filter is the set of data values that satisfies it.  The actions of a *)
(* step (onExit, the transition's own, onEnter) count only as present or   *)
(* absent.                                                                 *)
(***************************************************************************)
EXTENDS NodeRecords

CONSTANTS
    Signals,        \* names of signals
    Unrestricted,   \* groupsAllowedToModify = undefined
    NoOverride      \* participantsOverride = undefined

ASSUME MarkersAssumption ==
    \A G \in SUBSET Groups : Unrestricted # G /\ NoOverride # G

Transition ==
    [ from : StateNames, signal : Signals, to : StateNames,
      groupsAllowed : SUBSET Groups, filters : SUBSET Data, actions : BOOLEAN ]

Definition ==
    [ states       : SUBSET StateNames,
      initial      : StateNames,
      final        : SUBSET StateNames,
      transitions  : SUBSET Transition,
      modify       : [StateNames -> {Unrestricted} \cup SUBSET Groups],
      participants : SUBSET Groups,
      filters      : SUBSET Data ]

\* WorkflowDataSchema: one initial state, signals unique within a state,
\* targets that exist, group lists within the participants.  A final state
\* may have transitions and the initial state may be final.
SatisfiesSchema(d) ==
    /\ d.initial \in d.states /\ d.final \subseteq d.states
    /\ \A t \in d.transitions :
          /\ {t.from, t.to} \subseteq d.states
          /\ t.groupsAllowed \subseteq d.participants
          /\ \A u \in d.transitions :
                (u.from = t.from /\ u.signal = t.signal) => u = t
    /\ \A s \in d.states :
          d.modify[s] # Unrestricted => d.modify[s] \subseteq d.participants

HasPermission(who, participants) ==
    \/ IsAdmin(who)
    \/ participants = {}
    \/ PrincipalGroups(who) \cap participants # {}

\* No admin bypass here: the list applies to everyone.
InAllowedGroup(who, t) ==
    t.groupsAllowed = {} \/ PrincipalGroups(who) \cap t.groupsAllowed # {}

CanUserModifyInState(who, d, s, participants) ==
    LET allowed == IF d.modify[s] = Unrestricted THEN participants ELSE d.modify[s]
    IN  HasPermission(who, allowed)

\* The override the start request may carry.  An empty list is an override
\* too, and it passes for a restricted definition.
OverrideAccepted(participants, override) ==
    override \notin {NoOverride, {}}
        => participants # {} /\ override \subseteq participants

ResolveParticipants(participants, override) ==
    IF override = NoOverride THEN participants ELSE override
=============================================================================

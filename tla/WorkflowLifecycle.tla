------------------------- MODULE WorkflowLifecycle -------------------------
(***************************************************************************)
(* What the workflow engine promises about an instance, without requests,  *)
(* nodes or stores: it appears in the initial state of a definition, moves *)
(* along the definition's transitions, is finished while its state is      *)
(* final, may be cancelled while it runs and never moves again after that, *)
(* and may be removed.                                                     *)
(***************************************************************************)
EXTENDS WorkflowDefinitions

CONSTANT Definitions   \* every definition a workflow may be started from

VARIABLE life   \* instance uuid -> its definition, state and status

Status(d, s) == IF s \in d.final THEN "finished" ELSE "running"

Set(i, d, s, status) ==
    life' = [j \in DOMAIN life \cup {i} |->
               IF j = i THEN [definition |-> d, current |-> s, status |-> status]
               ELSE life[j]]

Init == life = [i \in {} |-> {}]

\* A new instance runs, even when its initial state is final.
Appear(i) ==
    /\ i \notin DOMAIN life
    /\ \E d \in Definitions : Set(i, d, d.initial, "running")

Fire(i) ==
    /\ life[i].status # "cancelled"
    /\ \E t \in life[i].definition.transitions :
          /\ t.from = life[i].current
          /\ Set(i, life[i].definition, t.to, Status(life[i].definition, t.to))

Cancel(i) ==
    /\ life[i].status = "running"
    /\ Set(i, life[i].definition, life[i].current, "cancelled")

Vanish(i) == life' = [j \in DOMAIN life \ {i} |-> life[j]]

Next ==
    \/ \E i \in InstanceIds : Appear(i)
    \/ \E i \in DOMAIN life : Fire(i) \/ Cancel(i) \/ Vanish(i)

Spec == Init /\ [][Next]_life
=============================================================================

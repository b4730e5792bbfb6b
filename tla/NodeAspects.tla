---------------------------- MODULE NodeAspects ----------------------------
(***************************************************************************)
(* The properties aspects give to a node, and their validation             *)
(* (src/domain/aspects/aspects.ts, with_aspect_mixin.ts and the parts of   *)
(* create and update in node_service.ts that deal with them).  Writers     *)
(* read the node, read its aspects once to keep readonly properties, read  *)
(* them again to validate, look up the nodes it refers to, and write;      *)
(* aspects and other nodes change in between.                              *)
(***************************************************************************)
EXTENDS Naturals, FiniteSets, TLC

CONSTANTS
    AspectNames, PropertyNames,
    Definitions,   \* what an aspect can be: functions from property names to definitions
    Updates,       \* what a request can carry: [aspects, properties], each may be Undefined
    Targets,       \* other nodes, which properties may refer to
    Fitting,       \* those that satisfy the filters of the properties that have some
    Writers,
    NoAspect, NoNode, Undefined,
    Idle,              \* no operation: a record with a step of its own
    MaxAspectChanges   \* bound on the changes of aspects and of other nodes

ASSUME AspectsAssumption ==
    /\ \A d \in Definitions : DOMAIN d \subseteq PropertyNames
    /\ NoAspect \notin Definitions
    /\ \A given \in Updates : given.aspects = Undefined \/ given.aspects \subseteq AspectNames
    /\ Idle.step \notin {"filter", "validate", "references", "write"}

VARIABLES
    aspects,     \* name -> its definition, or NoAspect
    targets,     \* the other nodes that exist
    node,        \* [aspects, properties], or NoNode
    writing,     \* writer -> its operation, or Idle
    outdated,    \* aspects changed since what is on record was validated
    lost,        \* nodes deleted since what is on record was validated
    aspectChanges

aspectVars == <<aspects, targets, node, writing, outdated, lost, aspectChanges>>

Definition(type, required, readonly, default, allowed) ==
    [type |-> type, required |-> required, readonly |-> readonly, default |-> default, allowed |-> allowed]
\* The string that is the uuid of a node is of type "uuid" here.
Value(type, v) == [type |-> type, v |-> v]
\* What JavaScript takes for false; FALSE itself is a value like others.
Empty(value) ==
    \/ value = Undefined
    \/ value.type = "string" /\ value.v = ""
    \/ value.type = "number" /\ value.v = 0

\* The value of a property, Undefined where there is none.  A null is none.
At(properties, key) == IF key \in DOMAIN properties THEN properties[key] ELSE Undefined
Defined(properties) ==
    [key \in {k \in DOMAIN properties : properties[k] # Undefined} |-> properties[key]]
\* Keys are "<aspect>:<property>".
PropertyKeys(names) == {<<a, p>> : a \in names, p \in PropertyNames}
Prefixed(properties, names) ==
    [key \in {k \in DOMAIN properties : k[1] \in names} |-> properties[key]]

----------------------------------------------------------------------------

(* The specification of a property. *)

RequiredHolds(d, value) == d.required => ~Empty(value)
TypeHolds(d, value) ==
    Empty(value) \/ (d.type \in {"string", "number", "boolean"} => value.type = d.type)
\* validationList and validationRegex, of strings: the strings they accept.
ListHolds(d, value) ==
    \/ d.allowed = Undefined \/ d.type # "string" \/ Empty(value)
    \/ value.type = "string" /\ value.v \in d.allowed

PropertyHolds(d, value) == RequiredHolds(d, value) /\ TypeHolds(d, value) /\ ListHolds(d, value)

\* Variant: a property that is not given is not checked.
GivenAspectsHold(read, properties) ==
    \A a \in DOMAIN read : \A p \in DOMAIN read[a] :
      <<a, p>> \in DOMAIN properties => PropertyHolds(read[a][p], properties[<<a, p>>])
\* Every property of every aspect the writer has read.
AspectsHold(read, properties) ==
    \A a \in DOMAIN read : \A p \in DOMAIN read[a] : PropertyHolds(read[a][p], At(properties, <<a, p>>))

\* #addAspectPropertyToNode: of what the node has, the properties its aspects
\* define, with the defaults of those it lacks.
DefinedKeys(read) == {k \in PropertyKeys(DOMAIN read) : k[2] \in DOMAIN read[k[1]]}
AspectProperties(read, properties) ==
    Defined([key \in DefinedKeys(read) |->
      IF At(properties, key) # Undefined THEN properties[key] ELSE read[key[1]][key[2]].default])

\* The nodes its uuid properties refer to.
References(read, properties) ==
    {properties[key].v : key \in {k \in DOMAIN properties \cap DefinedKeys(read) :
      read[k[1]][k[2]].type = "uuid" /\ ~Empty(properties[k])}}

----------------------------------------------------------------------------

(* The steps of an update, and of a creation. *)

\* #getNodeAspects fails when one is missing.
AllFound(names) == \A a \in names : aspects[a] # NoAspect
Found(names) == [a \in names |-> aspects[a]]

Go(w, op) == writing' = [writing EXCEPT ![w] = op]
Unwritten == UNCHANGED <<aspects, targets, node, outdated, lost, aspectChanges>>

\* create: a node from the given.
CreateBegin(w, given) ==
    /\ node = NoNode /\ \A v \in Writers : writing[v] = Idle
    /\ Go(w, [step |-> "validate", old |-> NoNode, overlapped |-> FALSE, free |-> FALSE,
              next |-> [aspects |-> IF given.aspects = Undefined THEN {} ELSE given.aspects,
                        properties |-> IF given.properties = Undefined THEN <<>> ELSE given.properties]])
    /\ Unwritten

\* update: the node as it is read now; unnamed properties stay.
Merge(old, given) ==
    LET new == given.properties IN
      IF new = Undefined THEN Undefined
      ELSE [key \in DOMAIN new \cup DOMAIN old.properties |->
             IF key \in DOMAIN new THEN new[key] ELSE old.properties[key]]
UpdateBegin(w, given) ==
    /\ writing[w] = Idle /\ node # NoNode
    /\ Go(w, [step |-> "filter", old |-> node, overlapped |-> FALSE, free |-> FALSE,
              next |-> [aspects |-> given.aspects, properties |-> Merge(node, given)]])
    /\ Unwritten

\* #filterReadonlyProperties: the aspects of the node as it was; when one of
\* them is missing nothing is filtered.
Readonly(key) ==
    /\ aspects[key[1]] # NoAspect /\ key[2] \in DOMAIN aspects[key[1]]
    /\ aspects[key[1]][key[2]].readonly
\* Variant: the properties the request names are filtered, not what they are set to.
FilteredUnlessSet(old, properties) ==
    IF properties = Undefined \/ ~AllFound(old.aspects) THEN properties
    ELSE [key \in DOMAIN properties |->
           IF key[1] \in old.aspects /\ Readonly(key) /\ properties[key] = Undefined
           THEN At(old.properties, key) ELSE properties[key]]
Filtered(old, properties) ==
    IF properties = Undefined \/ ~AllFound(old.aspects) THEN properties
    ELSE [key \in DOMAIN properties |->
           IF key[1] \in old.aspects /\ Readonly(key) THEN At(old.properties, key) ELSE properties[key]]

\* WithAspectMixin.update.
Applied(old, next) ==
    LET names == IF next.aspects = Undefined THEN old.aspects ELSE next.aspects
        base == IF next.properties = Undefined THEN old.properties ELSE next.properties
    IN [aspects |-> names,
        properties |-> IF next.aspects = Undefined /\ next.properties = Undefined
                       THEN old.properties ELSE Prefixed(Defined(base), names)]
UpdateFilter(w) ==
    LET op == writing[w] IN
    /\ op # Idle /\ op.step = "filter"
    /\ Go(w, [op EXCEPT !.step = "validate", !.free = ~AllFound(op.old.aspects),
         !.next = Applied(op.old, [@ EXCEPT !.properties = Filtered(op.old, op.next.properties)])])
    /\ Unwritten

\* #getNodeAspects of the node as it will be.
GetAspects(w) ==
    LET op == writing[w] IN
    /\ op # Idle /\ op.step = "validate"
    /\ IF ~AllFound(op.next.aspects) THEN Go(w, Idle)
       ELSE Go(w, [step |-> "references", old |-> op.old, overlapped |-> op.overlapped, free |-> op.free,
                   read |-> Found(op.next.aspects), changed |-> {}, gone |-> {},
                   next |-> [aspects |-> op.next.aspects,
                             properties |-> AspectProperties(Found(op.next.aspects), op.next.properties)]])
    /\ Unwritten

\* #validateNodeAspectsThenUpdate, #validateUUIDProperty.
AcceptsReferences(read, properties) ==
    References(read, properties) \subseteq targets \cap Fitting
Validate(w) ==
    LET op == writing[w] IN
    /\ op # Idle /\ op.step = "references"
    /\ IF AspectsHold(op.read, op.next.properties) /\ AcceptsReferences(op.read, op.next.properties)
       THEN Go(w, [op EXCEPT !.step = "write"])
       ELSE Go(w, Idle)
    /\ Unwritten

Write(w) ==
    LET op == writing[w] IN
    /\ op # Idle /\ op.step = "write"
    /\ node' = op.next
    /\ outdated' = op.changed
    /\ lost' = op.gone
    /\ writing' = [v \in Writers |->
         IF v = w THEN Idle
         ELSE IF writing[v] = Idle THEN Idle ELSE [writing[v] EXCEPT !.overlapped = TRUE]]
    /\ UNCHANGED <<aspects, targets, aspectChanges>>

\* Administrators create, replace and delete aspects.
SetAspect(a, definition) ==
    /\ aspectChanges < MaxAspectChanges /\ aspectChanges' = aspectChanges + 1
    /\ aspects[a] # definition
    /\ aspects' = [aspects EXCEPT ![a] = definition]
    /\ outdated' = outdated \cup {a}
    /\ writing' = [w \in Writers |->
         IF writing[w] # Idle /\ writing[w].step \in {"references", "write"}
         THEN [writing[w] EXCEPT !.changed = @ \cup {a}]
         ELSE IF writing[w] # Idle THEN [writing[w] EXCEPT !.overlapped = TRUE] ELSE Idle]
    /\ UNCHANGED <<targets, node, lost>>

DeleteTarget(t) ==
    /\ aspectChanges < MaxAspectChanges /\ aspectChanges' = aspectChanges + 1
    /\ t \in targets /\ targets' = targets \ {t}
    /\ lost' = lost \cup {t}
    /\ writing' = [w \in Writers |->
         IF writing[w] # Idle /\ writing[w].step \in {"references", "write"}
         THEN [writing[w] EXCEPT !.gone = @ \cup {t}] ELSE writing[w]]
    /\ UNCHANGED <<aspects, node, outdated>>

AspectsInit ==
    /\ aspects \in [AspectNames -> Definitions]
    /\ targets = Targets
    /\ node = NoNode
    /\ writing = [w \in Writers |-> Idle]
    /\ outdated = {} /\ lost = {} /\ aspectChanges = 0

AspectsNext ==
    \/ \E w \in Writers :
         \/ \E given \in Updates : CreateBegin(w, given) \/ UpdateBegin(w, given)
         \/ UpdateFilter(w) \/ GetAspects(w) \/ Validate(w) \/ Write(w)
    \/ \E a \in AspectNames, d \in Definitions \cup {NoAspect} : SetAspect(a, d)
    \/ \E t \in Targets : DeleteTarget(t)

AspectsSpec == AspectsInit /\ [][AspectsNext]_aspectVars

----------------------------------------------------------------------------

\* Unless an aspect changed since its validation began, what is on record
\* has every required property, and every property is of its type, a string
\* among the values allowed, or empty; it has no other properties, and what it
\* refers to is there, unless it was deleted since.
ValidWhenWritten ==
    node # NoNode =>
      /\ \A key \in DOMAIN node.properties :
           /\ key[1] \in node.aspects
           /\ key[1] \notin outdated => key[2] \in DOMAIN aspects[key[1]]
      /\ \A a \in node.aspects \ outdated :
           /\ aspects[a] # NoAspect
           /\ \A p \in DOMAIN aspects[a] :
                LET d == aspects[a][p] value == At(node.properties, <<a, p>>) IN
                  /\ d.required \/ d.default # Undefined => value # Undefined
                  /\ d.required => ~Empty(value)
                  /\ Empty(value) \/ d.type \notin {"string", "number", "boolean"} \/ value.type = d.type
                  /\ d.type = "string" /\ d.allowed # Undefined /\ ~Empty(value) => value.v \in d.allowed
                  /\ d.type = "uuid" /\ ~Empty(value) => value.v \in (targets \cap Fitting) \cup lost

\* A readonly property keeps the value it has, for a writer that met no other
\* writer and no change of aspects, and found the aspects of the node.
KeepsReadonly(w) ==
    LET op == writing[w] IN
      node' # node /\ op # Idle /\ writing'[w] = Idle /\ op.old # NoNode /\ ~op.overlapped =>
        \A key \in DOMAIN node.properties :
          key[1] \in node'.aspects \ op.changed /\ Readonly(key) =>
            At(node'.properties, key) = node.properties[key]
ReadonlyKept == [][\A w \in Writers : (writing[w] # Idle => ~writing[w].free) => KeepsReadonly(w)]_aspectVars
=============================================================================

---------------------------- MODULE NodesFilters ----------------------------
(***************************************************************************)
(* Node filters (src/domain/nodes_filters.ts): what a node must satisfy,   *)
(* and the notation in which people write it.                              *)
(*                                                                         *)
(* A text is a sequence of tokens: the delimiters, the operators, and      *)
(* words.  A word may contain the letters of an operator ("main" contains  *)
(* "in"), which is all of its spelling that the parser notices.            *)
(***************************************************************************)
EXTENDS Naturals, SequencesExt

CONSTANTS
    Undefined,  \* a field a node does not have
    Within      \* word -> the operators its letters contain

\* A filter.  `at` stands for the "@" that asks it of the node's parent.
F(field, op, value)  == [at |-> FALSE, field |-> field, op |-> op, value |-> value]
AtF(field, op, value) == [at |-> TRUE, field |-> field, op |-> op, value |-> value]

----------------------------------------------------------------------------
(* Evaluation                                                              *)

\* A node's value of a field, or of a group in its advanced permissions.
GetFieldValue(n, field) ==
    IF field \in DOMAIN n THEN n[field]
    ELSE IF "advanced" \in DOMAIN n /\ field \in DOMAIN n.advanced THEN n.advanced[field]
    ELSE Undefined

Items(a) == IF a = Undefined THEN {} ELSE a

\* The words of b occur in a in their order: the blanks of a match are ".*?".
Matches(a, b) == a # Undefined /\ \E at \in [DOMAIN b -> DOMAIN a] :
    \A i, j \in DOMAIN b : a[at[i]] = b[i] /\ (i < j => at[i] < at[j])

Ordered(op, a, b) ==
    a # Undefined /\ CASE op = "<=" -> a <= b [] op = ">=" -> a >= b
                       [] op = "<"  -> a < b  [] op = ">"  -> a > b

\* filterFns; contains-none is the negation of contains-all.
FilterFn(op, a, b) ==
    CASE op = "=="           -> a = b
      [] op = "!="           -> a # b
      [] op \in {"<=", ">=", "<", ">"} -> Ordered(op, a, b)
      [] op = "in"           -> a \in b
      [] op = "not-in"       -> a \notin b
      [] op = "contains"     -> b \in Items(a)
      [] op = "not-contains" -> b \notin Items(a)
      [] op = "contains-all" -> b \subseteq Items(a)
      [] op = "contains-any" -> b \cap Items(a) # {}
      [] op = "contains-none" -> ~(b \subseteq Items(a))
      [] op = "match"        -> Matches(a, b)
      [] OTHER               -> FALSE

\* An "@" filter nobody resolved asks for a field no node has.
SatisfiesFilter(n, f) ==
    FilterFn(f.op, IF f.at THEN Undefined ELSE GetFieldValue(n, f.field), f.value)

\* One of the groups, all of its filters; no filters at all let every node in.
SatisfiedBy(filters, n) ==
    filters = {} \/ \E group \in filters : \A f \in group : SatisfiesFilter(n, f)

----------------------------------------------------------------------------
(* The notation                                                            *)

\* OPERATORS: the first of them that the text contains is taken for its own.
OPERATORS == << "contains-none", "contains-all", "contains-any", "not-contains",
                "not-in", "contains", "match", "==", "<=", ">=", "!=", "in", "<", ">" >>
ARRAY_VALUE_OPERATORS == {"in", "not-in", "contains-all", "contains-any", "contains-none"}
Quote == "\""

\* An operator's own letters may hold a shorter one: "<=" holds "<".
Letters(token) ==
    IF token \in DOMAIN Within THEN Within[token]
    ELSE IF token \notin ToSet(OPERATORS) THEN {}
    ELSE {token} \cup
         CASE token \in {"contains-none", "contains-all", "contains-any", "not-contains"} -> {"contains", "in"}
           [] token \in {"not-in", "contains"} -> {"in"}
           [] token = "<=" -> {"<"}
           [] token = ">=" -> {">"}
           [] OTHER -> {}

Places(text, op) == {i \in DOMAIN text : op \in Letters(text[i])}
First(set) == CHOOSE i \in set : \A j \in set : i <= j

\* What stands before and after an operator; inside a word only a piece is left.
Piece == "..."
Before(text, i, op) ==
    SubSeq(text, 1, i - 1) \o IF text[i] = op THEN <<>> ELSE <<Piece>>
After(text, i, op) ==
    (IF text[i] = op THEN <<>> ELSE <<Piece>>) \o SubSeq(text, i + 1, Len(text))

IsQuoted(text) == Len(text) > 1 /\ Head(text) = Quote /\ Last(text) = Quote

\* isFilterString
IsFilterString(text) ==
    /\ text # <<>> /\ ~(Head(text) = Quote /\ Last(text) = Quote)
    /\ \E op \in ToSet(OPERATORS) :
         /\ Places(text, op) # {}
         /\ LET i == First(Places(text, op))
            IN  Before(text, i, op) # <<>> /\ After(text, i, op) # <<>>

\* One token further; parentheses count only at the top level.
Advance(s, token, delimiter, nested) ==
    LET quoted == IF token = Quote THEN ~s.quoted ELSE s.quoted
        depth  == CASE nested /\ ~quoted /\ token = "(" -> s.depth + 1
                    [] nested /\ ~quoted /\ token = ")" -> s.depth - 1
                    [] OTHER -> s.depth
    IN  IF token = delimiter /\ ~quoted /\ depth = 0
        THEN [parts |-> Append(s.parts, s.part), part |-> <<>>, quoted |-> quoted, depth |-> depth]
        ELSE [parts |-> s.parts, part |-> Append(s.part, token), quoted |-> quoted, depth |-> depth]

\* Variant: splitting at every delimiter.
SplitEverywhere(text, delimiter, nested) ==
    LET end == FoldLeft(LAMBDA s, token :
                  IF token = delimiter
                  THEN [parts |-> Append(s.parts, s.part), part |-> <<>>]
                  ELSE [parts |-> s.parts, part |-> Append(s.part, token)],
                  [parts |-> <<>>, part |-> <<>>], text)
    IN  SelectSeq(Append(end.parts, end.part), LAMBDA part : part # <<>>)
\* splitTopLevel, and splitRespectingQuotes for what is inside a list.
Split(text, delimiter, nested) ==
    LET end == FoldLeft(LAMBDA s, token : Advance(s, token, delimiter, nested),
                        [parts |-> <<>>, part |-> <<>>, quoted |-> FALSE, depth |-> 0], text)
    IN  SelectSeq(Append(end.parts, end.part), LAMBDA part : part # <<>>)

Unquote(text) == IF IsQuoted(text) THEN SubSeq(text, 2, Len(text) - 1) ELSE text
Name(text) == IF Len(text) = 1 THEN text[1] ELSE Piece

\* parseValue: none when the operator wants a list and gets something else.
ParseValue(text, op) ==
    IF op \notin ARRAY_VALUE_OPERATORS
    THEN {Unquote(text)}
    ELSE IF Len(text) > 1 /\ Head(text) = "(" /\ Last(text) = ")"
    THEN {{Unquote(part) : part \in ToSet(Split(SubSeq(text, 2, Len(text) - 1), ",", FALSE))}}
    ELSE {}

\* parseSingleFilter: the filter, or none where the code throws.
ParseSingleFilter(text) ==
    LET present == {k \in DOMAIN OPERATORS : Places(text, OPERATORS[k]) # {}}
        op      == OPERATORS[First(present)]
        i       == First(Places(text, op))
    IN  IF present = {} THEN {}
        ELSE IF Before(text, i, op) = <<>> THEN {}
        ELSE {F(Name(Before(text, i, op)), op, v) : v \in ParseValue(After(text, i, op), op)}

\* parseFilterString and parse: a set of groups of filters, or none.
Parse(text) ==
    LET groups == {{ParseSingleFilter(part) : part \in ToSet(Split(group, ",", TRUE))}
                      : group \in ToSet(Split(text, "|", TRUE))}
    IN  IF ~IsFilterString(text) \/ {} \in UNION groups THEN {}
        ELSE {{UNION group : group \in groups}}

----------------------------------------------------------------------------
(* The notation as docs/node-querying.md writes it, every value quoted.    *)

Quoted(value) == <<Quote>> \o value \o <<Quote>>
Joined(parts, delimiter) ==
    FoldLeft(LAMBDA text, part : IF text = <<>> THEN part ELSE text \o <<delimiter>> \o part,
             <<>>, parts)
Rendered(f) ==
    <<f.field, f.op>> \o
       IF f.op \in ARRAY_VALUE_OPERATORS
       THEN <<"(">> \o Joined(SetToSeq({Quoted(v) : v \in f.value}), ",") \o <<")">>
       ELSE Quoted(f.value)
Render(filters) ==
    Joined(SetToSeq({Joined(SetToSeq({Rendered(f) : f \in group}), ",") : group \in filters}), "|")
=============================================================================

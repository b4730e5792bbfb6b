--------------------------- MODULE FilterQueries ---------------------------
(***************************************************************************)
(* Node filters as each repository asks them of its database: the clause a *)
(* filter becomes in SQLite, PostgreSQL and MongoDB, next to the reference *)
(* that the in-memory repositories evaluate (NodesFilters).                *)
(*                                                                         *)
(* The truth of an SQL clause is a set: {TRUE}, {FALSE}, or {} for NULL.   *)
(***************************************************************************)
EXTENDS NodesFilters

CONSTANTS
    Promoted,   \* the fields with a column of their own; a node has them all
    Nested,     \* the fields below "properties"
    Numeric,    \* the fields that hold numbers
    FullName    \* a property written without "properties." -> its field

\* normalizeFieldName, and the same in #getFieldValue.
Normalized(f) ==
    [f EXCEPT !.field = IF f.field \in DOMAIN FullName THEN FullName[f.field] ELSE f.field]
Value(body, f) == GetFieldValue(body, f.field)

Comparisons == {"==", "!=", "<", ">", "<=", ">="}
Phrase(a, b) == \E i \in 0..(Len(a) - Len(b)) : SubSeq(a, i + 1, i + Len(b)) = b

----------------------------------------------------------------------------
(* SQLite                                                                  *)

\* What makes the text of the query no SQL, or its construction throw.
SqliteRefuses(f) ==
    \/ f.op \notin ToSet(OPERATORS)
    \/ f.op \in {"contains-all", "contains-any", "contains-none"} /\ f.value = {}

\* Variant: the conditions of a contains-all joined by OR.
SqliteClauseAny(f, a) ==
    CASE f.op = "contains-all" -> {f.value \cap Items(a) # {}}
      [] f.op \in Comparisons \cup {"match", "in", "not-in"} /\ a = Undefined -> {}
      [] OTHER -> {FilterFn(f.op, a, f.value)}
\* operatorMap: a comparison with a missing field is NULL, an EXISTS is not.
SqliteClause(f, a) ==
    IF a = Undefined /\ (f.op \in Comparisons \cup {"match"} \/ (f.op \in {"in", "not-in"} /\ f.value # {}))
    THEN {}
    ELSE CASE f.op = "match" -> {Phrase(a, f.value)}
           [] f.op = "contains-none" -> {f.value \cap Items(a) = {}}
           [] OTHER -> {FilterFn(f.op, a, f.value)}

----------------------------------------------------------------------------
(* PostgreSQL                                                              *)

\* "->>" of a property's path asks a text for its field.
PostgresRefuses(f) ==
    \/ f.op \in {"in", "not-in", "contains-any", "contains-none"} /\ f.value = {}
    \/ f.field \in Nested /\ f.op \in {"<", ">", "<=", ">=", "in", "not-in", "match"}

\* #buildOperatorClause: "==" is containment, "!=" compares with a JSON text.
PostgresClause(f, a) ==
    IF f.op \notin ToSet(OPERATORS) THEN {TRUE}
    ELSE IF f.op = "==" THEN {a = f.value}
    ELSE IF a = Undefined THEN {}
    ELSE CASE f.op = "!=" /\ f.field \in Numeric \ Promoted -> {TRUE}
           [] f.op = "match" -> {Phrase(a, f.value)}
           [] f.op = "contains-none" -> {f.value \cap Items(a) = {}}
           [] OTHER -> {FilterFn(f.op, a, f.value)}

----------------------------------------------------------------------------
(* MongoDB                                                                 *)

MongoRefuses(f) ==
    f.op \notin ToSet(OPERATORS) \/ (f.op = "contains-any" /\ f.value = {})

\* $all of nothing matches no document; a regular expression takes blanks as they are.
MongoClause(f, a) ==
    CASE f.op = "contains-all"  -> f.value # {} /\ f.value \subseteq Items(a)
      [] f.op = "contains-none" -> ~(f.value # {} /\ f.value \subseteq Items(a))
      [] f.op = "match"         -> a # Undefined /\ Phrase(a, f.value)
      [] OTHER                  -> FilterFn(f.op, a, f.value)

----------------------------------------------------------------------------

\* #buildFilterQuery and filter: an error answers no node at all.
SqlFound(filters, refused, true) ==
    \/ filters = {}
    \/ {} \notin filters /\ refused = {} /\ \E group \in filters : group \subseteq true

SqliteFound(filters, body) == SqlFound(filters,
    {f \in UNION filters : SqliteRefuses(Normalized(f))},
    {f \in UNION filters : TRUE \in SqliteClause(Normalized(f), Value(body, Normalized(f)))})
PostgresFound(filters, body) == SqlFound(filters,
    {f \in UNION filters : PostgresRefuses(Normalized(f))},
    {f \in UNION filters : TRUE \in PostgresClause(Normalized(f), Value(body, Normalized(f)))})

\* buildMongoQuery: an empty group beside others is an error too.
MongoFound(filters, body) ==
    \/ filters = {}
    \/ /\ {} \notin filters
       /\ \A group \in filters : \A f \in group : ~MongoRefuses(f)
       /\ \E group \in filters : \A f \in group : MongoClause(f, Value(body, f))

ReferenceFound(filters, body) ==
    SatisfiedBy({{Normalized(f) : f \in group} : group \in filters}, body)

FoundBy(backend, filters, body) ==
    CASE backend = "sqlite"   -> SqliteFound(filters, body)
      [] backend = "postgres" -> PostgresFound(filters, body)
      [] backend = "mongodb"  -> MongoFound(filters, body)
      [] OTHER                -> ReferenceFound(filters, body)

\* The filters that mean the same to every repository, asked of this node.
Portable(f, body) ==
    /\ f.op \in ToSet(OPERATORS) /\ f.field \notin DOMAIN FullName
    /\ f.op \in ARRAY_VALUE_OPERATORS => f.value # {}
    /\ f.op = "contains-none" => \E v \in f.value : f.value = {v}
    /\ f.op = "match" => Len(f.value) = 1
    /\ f.field \in Nested => f.op \notin {"<", ">", "<=", ">=", "in", "not-in", "match"}
    /\ f.field \in Numeric => f.op # "!="
    /\ Value(body, f) = Undefined =>
         f.op \notin {"!=", "not-in", "not-contains", "contains-none"}
=============================================================================

---------------------------- MODULE SearchProofs ----------------------------
(***************************************************************************)
(* Searches, for any nodes, principals, filters, changes and orders of the *)
(* answers.  SearchAllows: whatever the filters of a search and the groups *)
(* it has resolved find grants the principal the permission, now or at a   *)
(* moment since the search began; a group that is still to ask of the      *)
(* parent asks for what grants it there.  SearchReaches is the converse,   *)
(* as long as nothing changes: a node that may be read and fits is found   *)
(* by a group, resolved or to be resolved.  That a page begins with the    *)
(* best needs that there is an order at all (InOrderIs).                   *)
(*                                                                         *)
(* A path of WebDAV, too, is resolved by a search.  DavInv: where a walk   *)
(* up from a node found stands, the path of what it has seen leads down to *)
(* the node (Sure), as long as nobody has changed the tree since it began. *)
(***************************************************************************)
EXTENDS FindService, WebDav, FiniteSetTheorems, SequenceTheorems, TLAPS

----------------------------------------------------------------------------
(* What the repositories hold.                                             *)

FolderUuids(r) == {u \in Uuids : r[u].mimetype = "folder"}

\* A record under u in a repository with these folders, where no group of the
\* principal is the name of a field.
IsHeld(r, u, n) == MayHold(r, u, n) /\ ToSet(who.groups) \cap DOMAIN n = {}

Held(store) ==
    /\ DOMAIN store = Uuids
    /\ \E r \in Repositories : FolderUuids(store) = FolderUuids(r) /\ \A u \in Uuids : IsHeld(r, u, store[u])

FindTypes ==
    /\ who \in Principals /\ query \in Queries
    /\ nodes \in seen /\ \A store \in seen : Held(store)
    /\ changes \in Nat
    /\ ranked \in BOOLEAN /\ (ranked => query.kind = "semantic")
    /\ stage \in {"idle", "embed", "vector", "resolve", "done", "refused"}
    /\ stage \in {"embed", "vector"} => query.kind = "semantic"
    /\ stage \notin {"resolve", "done"} => groups = {} /\ pending = {}
    /\ stage # "done" => result = <<>>

LEMMA TypesAtFirst == Init => FindTypes
<1> SUFFICES ASSUME Init PROVE FindTypes
  OBVIOUS
<1>1. who \in Principals /\ query \in Queries
  BY FindAssumption DEF Init
<1>2. Held(nodes)
  <2>1. nodes \in Repositories
    BY DEF Init
  <2>2. \A u \in Uuids : IsHeld(nodes, u, nodes[u])
    BY <1>1, <2>1, FindAssumption DEF IsHeld
  <2> QED BY <2>1, <2>2, FindAssumption DEF Held
<1> QED BY <1>1, <1>2 DEF Init, FindTypes

LEMMA HeldIsKept ==
  ASSUME UNCHANGED who, NEW store
  PROVE  Held(store) <=> Held(store)'
BY DEF Held, IsHeld

LEMMA TypesNext == FindTypes /\ [Next]_vars => FindTypes'
<1> SUFFICES ASSUME FindTypes, [Next]_vars PROVE FindTypes'
  OBVIOUS
<1> USE DEF FindTypes
<1>0. UNCHANGED who => \A store : Held(store) <=> Held(store)'
  BY HeldIsKept
<1>1. CASE Begin
  <2>1. Held(nodes) /\ who' = who
    BY <1>1 DEF Begin
  <2>2. CASE FindWith(FiltersOf(query), FALSE)
    BY <1>0, <1>1, <2>1, <2>2 DEF Begin, FindWith
  <2>3. CASE UNCHANGED <<groups, pending, ranked, result>>
    BY <1>0, <1>1, <2>1, <2>3 DEF Begin, FindWith
  <2> QED BY <1>1, <2>2, <2>3 DEF Begin
<1>2. CASE Embed
  BY <1>0, <1>2 DEF Embed
<1>3. CASE VectorSearch
  BY <1>0, <1>3 DEF VectorSearch, FindWith
<1>4. CASE FallBack
  BY <1>0, <1>4 DEF FallBack, FindWith
<1>5. CASE SomeAnswered
  BY <1>0, <1>5 DEF SomeAnswered, Resolve
<1>6. CASE Answer
  BY <1>0, <1>6 DEF Answer
<1>7. CASE Change
  <2>1. PICK n \in Replacements : nodes[n.uuid] # n /\ nodes' = [nodes EXCEPT ![n.uuid] = n]
    BY <1>7 DEF Change
  <2>2. Held(nodes)
    BY DEF Held
  <2>3. PICK r \in Repositories :
           FolderUuids(nodes) = FolderUuids(r) /\ \A u \in Uuids : IsHeld(r, u, nodes[u])
    BY <2>2 DEF Held
  <2>4. IsHeld(r, n.uuid, n) /\ n.uuid \in Uuids /\ (n.mimetype = "folder" <=> r[n.uuid].mimetype = "folder")
    BY FindAssumption DEF IsHeld
  <2>5. DOMAIN nodes' = Uuids /\ \A u \in Uuids : nodes'[u] = IF u = n.uuid THEN n ELSE nodes[u]
    BY <2>1, <2>2, <2>4 DEF Held
  <2>6. FolderUuids(nodes') = FolderUuids(r)
    BY <2>3, <2>4, <2>5 DEF FolderUuids
  <2>7. Held(nodes') /\ who' = who
    BY <2>3, <2>4, <2>5, <2>6, <1>7 DEF Held, Change
  <2>8. nodes' \in seen' /\ \A store \in seen' : Held(store)'
    <3>1. seen' = seen \cup {nodes'} /\ \A store \in seen : Held(store)
      BY <1>7 DEF Change
    <3> QED BY <1>0, <2>7, <3>1
  <2>9. changes' \in Nat
    BY <1>7 DEF Change
  <2> QED BY <1>7, <2>8, <2>9 DEF Change
<1>8. CASE UNCHANGED vars
  BY <1>0, <1>8 DEF vars
<1> QED BY <1>1, <1>2, <1>3, <1>4, <1>5, <1>6, <1>7, <1>8 DEF Next

----------------------------------------------------------------------------
(* What the permission filters say of a folder.                            *)

IsFolderRecord(n) ==
    /\ FolderFields \subseteq DOMAIN n /\ n.mimetype = "folder" /\ "mimetype" \in DOMAIN n
    /\ \A g \in DOMAIN n.advanced : n.advanced[g] # Undefined
    /\ \A field \in DOMAIN n : n[field] # Undefined
    /\ ToSet(who.groups) \cap DOMAIN n = {}

Grants(n) ==
    \/ IsPrincipalAllowedTo(who, n, "Read")
    \/ ~IsMember(who, n.group) /\ \E g \in DOMAIN n.advanced : IsMember(who, g) /\ "Read" \in n.advanced[g]

Satisfies(n, group) == \A f \in group : SatisfiesFilter(n, f)

Alternatives == PermissionAlternatives(who, "Read")

LEMMA FirstGroup == ASSUME who \in Principals PROVE Head(who.groups) \in ToSet(who.groups)
BY PrincipalsHaveGroups, HeadTailProperties

LEMMA FilterOf ==
  ASSUME NEW n, NEW field, NEW op, NEW value
  PROVE  SatisfiesFilter(n, F(field, op, value)) <=> FilterFn(op, GetFieldValue(n, field), value)
BY DEF SatisfiesFilter, F

LEMMA OpsMean ==
  ASSUME NEW a, NEW b
  PROVE  /\ FilterFn("==", a, b) <=> a = b
         /\ FilterFn("!=", a, b) <=> a # b
         /\ FilterFn("in", a, b) <=> a \in b
         /\ FilterFn("contains", a, b) <=> b \in Items(a)
BY DEF FilterFn

\* What a folder says of one of the principal's groups is the advanced grant.
LEMMA OfGroup ==
  ASSUME NEW n, IsFolderRecord(n), NEW g \in ToSet(who.groups)
  PROVE  "Read" \in Items(GetFieldValue(n, g)) <=> g \in DOMAIN n.advanced /\ "Read" \in n.advanced[g]
<1>1. g \notin DOMAIN n /\ "advanced" \in DOMAIN n
  BY DEF IsFolderRecord, FolderFields
<1> QED BY <1>1 DEF GetFieldValue, IsFolderRecord, Items

LEMMA OfField1 ==
  ASSUME NEW n, NEW field \in DOMAIN n, n[field] # Undefined
  PROVE  GetFieldValue(n, field) = n[field] /\ Items(GetFieldValue(n, field)) = n[field]
BY DEF GetFieldValue, Items

\* An alternative is satisfied just when its part of the check passes.
LEMMA AlternativesMean ==
  ASSUME who \in Principals, NEW n, IsFolderRecord(n)
  PROVE  /\ Satisfies(n, {F("anonymous", "contains", "Read")}) <=> "Read" \in n.anonymous
         /\ Satisfies(n, {F("authenticated", "contains", "Read")}) <=> "Read" \in n.authenticated
         /\ Satisfies(n, {F("owner", "==", who.email)}) <=> n.owner = who.email
         /\ Satisfies(n, {F("group", "==", Head(who.groups)), F("granted", "contains", "Read")})
              <=> n.group = Head(who.groups) /\ "Read" \in n.granted
         /\ \A g \in ToSet(who.groups) : Satisfies(n, {F(g, "contains", "Read")})
              <=> g \in DOMAIN n.advanced /\ "Read" \in n.advanced[g]
<1>1. \A field \in {"anonymous", "authenticated", "owner", "group", "granted"} :
        field \in DOMAIN n /\ n[field] # Undefined
  BY DEF IsFolderRecord, FolderFields
<1>2. \A f : Satisfies(n, {f}) <=> SatisfiesFilter(n, f)
  BY DEF Satisfies
<1>3. \A f, h : Satisfies(n, {f, h}) <=> SatisfiesFilter(n, f) /\ SatisfiesFilter(n, h)
  BY DEF Satisfies
<1>4. \A field \in {"anonymous", "authenticated", "granted"} :
        SatisfiesFilter(n, F(field, "contains", "Read")) <=> "Read" \in n[field]
  BY <1>1, FilterOf, OpsMean, OfField1
<1>5. \A value : \A field \in {"owner", "group"} : SatisfiesFilter(n, F(field, "==", value)) <=> n[field] = value
  BY <1>1, FilterOf, OpsMean, OfField1
<1>6. \A g \in ToSet(who.groups) :
        SatisfiesFilter(n, F(g, "contains", "Read")) <=> g \in DOMAIN n.advanced /\ "Read" \in n.advanced[g]
  BY FilterOf, OpsMean, OfGroup
<1> QED BY <1>2, <1>3, <1>4, <1>5, <1>6

LEMMA AlternativesGrant ==
  ASSUME who \in Principals, NEW n, IsFolderRecord(n), NEW a \in Alternatives, Satisfies(n, a)
  PROVE  Grants(n)
<1>1. CASE a = {F("anonymous", "contains", "Read")}
  BY <1>1, AlternativesMean DEF Grants, IsPrincipalAllowedTo
<1>2. CASE who.email # Anonymous /\ a = {F("authenticated", "contains", "Read")}
  BY <1>2, AlternativesMean DEF Grants, IsPrincipalAllowedTo
<1>3. CASE who.email # Anonymous /\ a = {F("owner", "==", who.email)}
  BY <1>3, AlternativesMean DEF Grants, IsPrincipalAllowedTo
<1>4. CASE who.email # Anonymous /\ a = {F("group", "==", Head(who.groups)), F("granted", "contains", "Read")}
  BY <1>4, AlternativesMean, FirstGroup DEF Grants, IsPrincipalAllowedTo, IsGroupAllowedTo, IsMember
<1>5. ASSUME who.email # Anonymous, NEW g \in ToSet(who.groups), a = {F(g, "contains", "Read")}
      PROVE  Grants(n)
  BY <1>5, AlternativesMean DEF Grants, IsPrincipalAllowedTo, IsGroupAllowedTo, IsMember
<1> QED BY <1>1, <1>2, <1>3, <1>4, <1>5 DEF Alternatives, PermissionAlternatives

\* And the check passes only through one of them, the folder's group aside when
\* it is not the principal's first.
LEMMA AllowedByAlternative ==
  ASSUME who \in Principals, NEW n, IsFolderRecord(n), ~IsMember(who, Admins),
         IsPrincipalAllowedTo(who, n, "Read"),
         n.group = Head(who.groups) \/ IsPrincipalAllowedTo(who, [n EXCEPT !.granted = {}], "Read")
  PROVE  \E a \in Alternatives : Satisfies(n, a)
<1>0. who.email # RootUser
  BY PrincipalsHaveGroups DEF IsMember
<1>1. CASE "Read" \in n.anonymous
  BY <1>1, AlternativesMean DEF Alternatives, PermissionAlternatives
<1>2. CASE who.email # Anonymous /\ "Read" \in n.authenticated
  BY <1>2, AlternativesMean DEF Alternatives, PermissionAlternatives
<1>3. CASE who.email # Anonymous /\ n.owner = who.email
  BY <1>3, AlternativesMean DEF Alternatives, PermissionAlternatives
<1>4. CASE who.email # Anonymous /\ n.group = Head(who.groups) /\ "Read" \in n.granted
  BY <1>4, AlternativesMean DEF Alternatives, PermissionAlternatives
<1>5. ASSUME who.email # Anonymous, NEW g \in DOMAIN n.advanced, IsMember(who, g), "Read" \in n.advanced[g]
      PROVE  \E a \in Alternatives : Satisfies(n, a)
  <2>1. {F(g, "contains", "Read")} \in Alternatives /\ g \in ToSet(who.groups)
    BY <1>5 DEF Alternatives, PermissionAlternatives, IsMember
  <2>2. Satisfies(n, {F(g, "contains", "Read")})
    BY <1>5, <2>1, AlternativesMean
  <2> QED BY <2>1, <2>2
<1> DEFINE m == [n EXCEPT !.granted = {}]
<1>6. /\ m.anonymous = n.anonymous /\ m.authenticated = n.authenticated /\ m.owner = n.owner
      /\ m.group = n.group /\ m.advanced = n.advanced /\ "Read" \notin m.granted
  BY DEF IsFolderRecord, FolderFields
<1>7. CASE IsPrincipalAllowedTo(who, m, "Read")
  <2> HIDE DEF m
  <2> QED BY <1>0, <1>1, <1>2, <1>3, <1>5, <1>6, <1>7 DEF IsPrincipalAllowedTo, IsGroupAllowedTo
<1>8. CASE n.group = Head(who.groups)
  BY <1>0, <1>1, <1>2, <1>3, <1>4, <1>5, <1>8 DEF IsPrincipalAllowedTo, IsGroupAllowedTo
<1> QED BY <1>7, <1>8

----------------------------------------------------------------------------
(* The order of an answer.                                                 *)

LEMMA PrecedesOrders ==
  ASSUME FindTypes
  PROVE  /\ \A a \in Uuids : ~Precedes(a, a)
         /\ \A a, b \in Uuids : a # b => Precedes(a, b) \/ Precedes(b, a)
         /\ \A a, b, c \in Uuids : Precedes(a, b) /\ Precedes(b, c) => Precedes(a, c)
<1>1. Title \in [Uuids -> Nat] /\ \A u, v \in Uuids : Title[u] = Title[v] => u = v
  BY FindAssumption
<1>2. CASE ranked
  <2>1. query.score \in [Uuids -> Nat]
    BY <1>2, FindAssumption DEF FindTypes
  <2> QED BY <1>1, <1>2, <2>1 DEF Precedes, ByScore
<1>3. CASE ~ranked /\ query.kind = "list"
  BY <1>1, <1>3 DEF Precedes, FoldersFirst, ByTitle
<1>4. CASE ~ranked /\ query.kind # "list"
  BY <1>1, <1>4 DEF Precedes, ByTitle
<1> QED BY <1>2, <1>3, <1>4

\* Every finite set has its elements in that order: each goes to the place that
\* the number of those before it gives.
LEMMA OrderExists ==
  ASSUME FindTypes, NEW S \in SUBSET Uuids
  PROVE  \E seq \in SetToSeqs(S) : \A i, j \in DOMAIN seq : i < j => Precedes(seq[i], seq[j])
<1> DEFINE Below(x) == {y \in S : Precedes(y, x)}
           N == Cardinality(S)
           rank == [x \in S |-> Cardinality(Below(x)) + 1]
<1>1. IsFiniteSet(S) /\ N \in Nat
  BY FindAssumption, FS_Subset, FS_CardinalityType
<1>2. \A x \in S : IsFiniteSet(Below(x)) /\ Cardinality(Below(x)) \in Nat
  BY <1>1, FS_Subset, FS_CardinalityType
<1>3. ASSUME NEW x \in S PROVE Cardinality(Below(x)) + 1 \in 1..N
  <2>1. Below(x) \subseteq S \ {x}
    BY PrecedesOrders
  <2>2. IsFiniteSet(S \ {x}) /\ Cardinality(S \ {x}) = N - 1
    BY <1>1, FS_RemoveElement
  <2>3. Cardinality(Below(x)) <= N - 1
    BY <2>1, <2>2, FS_Subset
  <2>4. Cardinality(Below(x)) \in Nat
    BY <1>2
  <2> HIDE DEF Below
  <2> QED BY <1>1, <2>3, <2>4
<1>4. ASSUME NEW x \in S, NEW y \in S, Precedes(x, y) PROVE rank[x] < rank[y]
  <2>1. Below(x) \cup {x} \subseteq Below(y)
    BY <1>4, PrecedesOrders
  <2>2. x \notin Below(x)
    BY PrecedesOrders
  <2>3. Cardinality(Below(x) \cup {x}) = Cardinality(Below(x)) + 1
    BY <1>2, <2>2, FS_AddElement
  <2>4. Cardinality(Below(x) \cup {x}) <= Cardinality(Below(y))
    BY <1>2, <2>1, FS_Subset
  <2>5. rank[x] = Cardinality(Below(x)) + 1 /\ rank[y] = Cardinality(Below(y)) + 1
    OBVIOUS
  <2>6. Cardinality(Below(x)) \in Nat /\ Cardinality(Below(y)) \in Nat
    BY <1>2
  <2> HIDE DEF Below, rank
  <2> QED BY <2>3, <2>4, <2>5, <2>6
<1>5. rank \in [S -> 1..N]
  BY <1>3
<1>6. \A x \in S : rank[x] \in Nat
  BY <1>2
<1>7. \A x, y \in S : rank[x] = rank[y] => x = y
  <2> HIDE DEF rank
  <2> QED BY <1>4, <1>6, PrecedesOrders
<1>8. \A i \in 1..N : \E x \in S : rank[x] = i
  <2>1. rank \in Injection(S, 1..N)
    BY <1>5, <1>7 DEF Injection, IsInjective
  <2>2. IsFiniteSet(1..N) /\ Cardinality(1..N) = N
    BY <1>1, FS_Interval
  <2>3. rank \in Surjection(S, 1..N)
    <3> HIDE DEF rank
    <3> QED BY <2>1, <2>2, FS_Injection
  <2> QED BY <2>3 DEF Surjection
<1> DEFINE seq == [i \in 1..N |-> CHOOSE x \in S : rank[x] = i]
<1>9. \A i \in 1..N : seq[i] \in S /\ rank[seq[i]] = i
  <2> HIDE DEF rank
  <2> QED BY <1>8
<1> HIDE DEF rank
<1>10. seq \in SetToSeqs(S)
  <2>1. seq \in [1..N -> S]
    BY <1>9
  <2>2. \A i, j \in 1..N : i # j => seq[i] # seq[j]
    <3> HIDE DEF seq
    <3> QED BY <1>9
  <2> HIDE DEF seq
  <2> QED BY <2>1, <2>2 DEF SetToSeqs
<1>11. \A i, j \in DOMAIN seq : i < j => Precedes(seq[i], seq[j])
  <2>1. DOMAIN seq = 1..N
    OBVIOUS
  <2> SUFFICES ASSUME NEW i \in 1..N, NEW j \in 1..N, i < j PROVE Precedes(seq[i], seq[j])
    BY <2>1
  <2> HIDE DEF seq
  <2>2. seq[i] # seq[j] /\ ~Precedes(seq[j], seq[i])
    BY <1>4, <1>9
  <2> QED BY <1>9, <2>2, PrecedesOrders
<1> HIDE DEF seq
<1> QED BY <1>10, <1>11

InTheOrder(S, seq) ==
    /\ seq \in Seq(S) /\ \A u \in S : \E i \in 1..Len(seq) : seq[i] = u
    /\ \A i, j \in 1..Len(seq) : i < j => Precedes(seq[i], seq[j])

LEMMA InOrderIs ==
  ASSUME FindTypes, NEW S \in SUBSET Uuids
  PROVE  InTheOrder(S, InOrder(S))
<1> DEFINE seq == InOrder(S)
           N == Cardinality(S)
<1>1. seq \in SetToSeqs(S) /\ \A i, j \in DOMAIN seq : i < j => Precedes(seq[i], seq[j])
  BY OrderExists DEF InOrder
<1>2. IsFiniteSet(S) /\ N \in Nat
  BY FindAssumption, FS_Subset, FS_CardinalityType
<1> HIDE DEF seq
<1>3. seq \in [1..N -> S] /\ \A i, j \in 1..N : i # j => seq[i] # seq[j]
  BY <1>1 DEF SetToSeqs
<1>4. seq \in Seq(S) /\ Len(seq) = N /\ DOMAIN seq = 1..N
  BY <1>2, <1>3
<1>5. seq \in Surjection(1..N, S)
  <2>1. seq \in Injection(1..N, S)
    BY <1>3 DEF Injection, IsInjective
  <2>2. IsFiniteSet(1..N) /\ Cardinality(1..N) = N
    BY <1>2, FS_Interval
  <2> QED BY <1>2, <2>1, <2>2, FS_Injection
<1>6. \A u \in S : \E i \in 1..N : seq[i] = u
  BY <1>5 DEF Surjection
<1>7. InTheOrder(S, seq)
  BY <1>1, <1>4, <1>6 DEF InTheOrder
<1> QED BY <1>7 DEF seq

\* Where something stands in a sequence in order: after what precedes it.
LEMMA PlaceIs ==
  ASSUME FindTypes, NEW S \in SUBSET Uuids, NEW seq, InTheOrder(S, seq), NEW j \in 1..Len(seq)
  PROVE  Cardinality({v \in S : Precedes(v, seq[j])}) = j - 1
<1> DEFINE T == {v \in S : Precedes(v, seq[j])}
           f == [i \in 1..(j - 1) |-> seq[i]]
<1>1. seq \in Seq(S) /\ Len(seq) \in Nat /\ \A i \in 1..Len(seq) : seq[i] \in S
  BY DEF InTheOrder
<1>2. \A i, k \in 1..Len(seq) : Precedes(seq[i], seq[k]) <=> i < k
  <2> SUFFICES ASSUME NEW i \in 1..Len(seq), NEW k \in 1..Len(seq), ~(i < k)
               PROVE  ~Precedes(seq[i], seq[k])
    BY DEF InTheOrder
  <2>1. seq[i] \in Uuids /\ seq[k] \in Uuids
    BY <1>1
  <2>2. CASE i = k
    BY <2>1, <2>2, PrecedesOrders
  <2>3. CASE k < i
    <3>1. Precedes(seq[k], seq[i])
      BY <2>3 DEF InTheOrder
    <3> QED BY <2>1, <3>1, PrecedesOrders
  <2> QED BY <1>1, <2>2, <2>3
<1>3. f \in [1..(j - 1) -> T]
  BY <1>1, <1>2
<1>4. \A a, b \in 1..(j - 1) : f[a] = f[b] => a = b
  <2> SUFFICES ASSUME NEW a \in 1..(j - 1), NEW b \in 1..(j - 1), a < b PROVE seq[a] # seq[b]
    OBVIOUS
  <2>1. seq[a] \in Uuids /\ Precedes(seq[a], seq[b])
    BY <1>1, <1>2
  <2> QED BY <2>1, PrecedesOrders
<1>5. \A v \in T : \E i \in 1..(j - 1) : f[i] = v
  <2> TAKE v \in T
  <2>1. PICK i \in 1..Len(seq) : seq[i] = v
    BY DEF InTheOrder
  <2>2. i < j
    BY <1>2, <2>1
  <2> QED BY <1>1, <2>1, <2>2
<1>6. ExistsBijection(1..(j - 1), T)
  <2> HIDE DEF f, T
  <2>1. f \in Injection(1..(j - 1), T)
    BY <1>3, <1>4 DEF Injection, IsInjective
  <2>2. f \in Surjection(1..(j - 1), T)
    BY <1>3, <1>5 DEF Surjection
  <2> QED BY <2>1, <2>2 DEF ExistsBijection, Bijection
<1> HIDE DEF T
<1>7. IsFiniteSet(1..(j - 1)) /\ Cardinality(1..(j - 1)) = j - 1
  <2>1. 1 \in Int /\ j - 1 \in Int /\ j - 1 >= 0 /\ (1 > j - 1 => j - 1 = 0) /\ j - 1 - 1 + 1 = j - 1
    BY <1>1
  <2> QED BY <2>1, FS_Interval
<1>8. Cardinality(T) = j - 1
  BY <1>6, <1>7, FS_Bijection
<1> QED BY <1>8 DEF T

\* What a page holds of a sequence: the first page its beginning.
IsPage(S, seq, size, token, page) ==
    /\ page \in Seq(S)
    /\ \A i \in 1..Len(page) : (token - 1) * size + i \in 1..Len(seq)
                               /\ page[i] = seq[(token - 1) * size + i]
    /\ token = 1 => /\ \A i \in 1..Len(page) : i \in 1..Len(seq) /\ page[i] = seq[i]
                    /\ Len(page) = IF size < Len(seq) THEN size ELSE Len(seq)

LEMMA PageHolds ==
  ASSUME NEW S, NEW seq \in Seq(S), NEW size \in Nat \ {0}, NEW token \in Nat \ {0}
  PROVE  IsPage(S, seq, size, token, Page(seq, size, token))
<1> DEFINE first == (token - 1) * size
           last == IF token * size < Len(seq) THEN token * size ELSE Len(seq)
           page == Page(seq, size, token)
<1>1. Len(seq) \in Nat /\ \A i \in 1..Len(seq) : seq[i] \in S
  BY LenProperties
<1>2. first \in Nat /\ token * size = first + size /\ (token = 1 => first = 0)
  BY Z3
<1> HIDE DEF first
<1>3. last \in Nat /\ last <= Len(seq) /\ (token = 1 => last = IF size < Len(seq) THEN size ELSE Len(seq))
  BY <1>1, <1>2
<1> HIDE DEF last
<1>4. page = SubSeq(seq, first + 1, last)
  BY DEF Page, first, last
<1>5. \A i \in first + 1 .. last : seq[i] \in S
  BY <1>1, <1>2, <1>3
<1>6. /\ page \in Seq(S)
      /\ Len(page) = IF first + 1 <= last THEN last - (first + 1) + 1 ELSE 0
      /\ \A i \in 1 .. last - (first + 1) + 1 : page[i] = seq[first + 1 + i - 1]
  <2> HIDE DEF page
  <2>1. first + 1 \in Int /\ last \in Int
    BY <1>2, <1>3
  <2> QED BY <1>4, <1>5, <2>1, SubSeqProperties
<1> HIDE DEF page
<1>7. \A i \in 1..Len(page) : first + i \in 1..Len(seq) /\ page[i] = seq[first + i]
  BY <1>1, <1>2, <1>3, <1>6
<1>8. token = 1 => Len(page) = IF size < Len(seq) THEN size ELSE Len(seq)
  BY <1>1, <1>2, <1>3, <1>6
<1>9. token = 1 => \A i \in 1..Len(page) : i \in 1..Len(seq) /\ page[i] = seq[i]
  BY <1>2, <1>7
<1>10. IsPage(S, seq, size, token, page)
  BY <1>6, <1>7, <1>8, <1>9 DEF IsPage, first
<1> QED BY <1>10 DEF page

\* Every place is on a page.
LEMMA PageOfPlace ==
  ASSUME NEW size \in Nat \ {0}, NEW j \in Nat \ {0}
  PROVE  \E t \in Nat \ {0} : (t - 1) * size < j /\ j <= t * size
<1> DEFINE q == (j - 1) \div size
<1>1. q \in Nat /\ q * size <= j - 1 /\ j - 1 < q * size + size
  BY Z3
<1> HIDE DEF q
<1>2. (q + 1) * size = q * size + size /\ q * size \in Nat
  BY <1>1, Z3
<1> DEFINE t == q + 1
           onPage(x) == (x - 1) * size < j /\ j <= x * size
<1>3. t \in Nat \ {0} /\ onPage(t)
  <2>1. t - 1 = q /\ t \in Nat \ {0}
    BY <1>1
  <2> QED BY <1>1, <1>2, <2>1
<1>4. \E x \in Nat \ {0} : onPage(x)
  <2> HIDE DEF t, onPage
  <2> QED BY <1>3
<1> QED BY <1>4

LEMMA PagesGrow ==
  ASSUME NEW size \in Nat \ {0}, NEW a \in Nat, NEW b \in Nat, a <= b
  PROVE  a * size \in Nat /\ b * size \in Nat /\ a * size <= b * size
<1>1. PICK d \in Nat : b = a + d
  BY Z3
<1>2. b * size = a * size + d * size /\ a * size \in Nat /\ d * size \in Nat
  BY <1>1, Z3
<1> QED BY <1>2
----------------------------------------------------------------------------
(* What a search finds may be read.                                        *)

FolderAt(store, f) == IF f = Root THEN RootFolder ELSE store[f]

LEMMA RootIsFolder == ASSUME who \in Principals PROVE IsFolderRecord(RootFolder)
<1>1. ToSet(who.groups) \cap (NodeFields \cup FolderFields) = {}
  BY FindAssumption
<1>2. DOMAIN RootFolder = NodeFields \cup FolderFields /\ RootFolder.mimetype = "folder"
      /\ DOMAIN RootFolder.advanced = {}
  BY DEF RootFolder, NodeFields, FolderFields
<1> QED BY <1>1, <1>2, FindAssumption DEF IsFolderRecord, NodeFields

LEMMA HeldIsRecord ==
  ASSUME FindTypes, NEW store \in seen, NEW u \in Uuids
  PROVE  /\ {"mimetype", "parent", "uuid"} \subseteq DOMAIN store[u] /\ store[u].uuid = u
         /\ \A field \in DOMAIN store[u] : store[u][field] # Undefined
         /\ ToSet(who.groups) \cap DOMAIN store[u] = {}
         /\ store[u].mimetype = "folder" => IsFolderRecord(store[u])
         /\ store[u].parent # Root => store[u].parent \in FolderUuids(store)
<1>1. Held(store)
  BY DEF FindTypes
<1>2. PICK r \in Repositories : FolderUuids(store) = FolderUuids(r) /\ IsHeld(r, u, store[u])
  BY <1>1 DEF Held
<1> QED BY <1>2 DEF IsHeld, MayHold, NodeFields, IsFolderRecord, FolderUuids

LEMMA FolderAtIs ==
  ASSUME FindTypes, NEW store \in seen, NEW f \in FolderUuids(store) \cup {Root}
  PROVE  IsFolderRecord(FolderAt(store, f))
BY RootIsFolder, HeldIsRecord DEF FolderAt, FolderUuids, FindTypes

LEMMA ParentIsFolder ==
  ASSUME FindTypes, NEW store \in seen, NEW u \in Uuids
  PROVE  /\ store[u].parent \in FolderUuids(store) \cup {Root}
         /\ ParentOfNode(store, store[u]) = FolderAt(store, store[u].parent)
BY HeldIsRecord DEF ParentOfNode, FolderAt

LEMMA OfMimetype ==
  ASSUME NEW n, "mimetype" \in DOMAIN n
  PROVE  /\ SatisfiesFilter(n, F("mimetype", "==", "folder")) <=> n.mimetype = "folder"
         /\ SatisfiesFilter(n, F("mimetype", "!=", "folder")) <=> n.mimetype # "folder"
BY FilterOf, OpsMean DEF GetFieldValue

LEMMA AlternativesAre ==
  ASSUME who \in Principals, NEW a \in Alternatives
  PROVE  /\ a # {}
         /\ \A f \in a : f = F(f.field, f.op, f.value) /\ f.field \notin {"parent", "mimetype", "uuid"}
<1>1. \A g \in ToSet(who.groups) : g \notin {"parent", "mimetype", "uuid"}
  BY FindAssumption DEF NodeFields
<1>2. \A field, op, value : LET f == F(field, op, value)
         IN f = F(f.field, f.op, f.value) /\ f.field = field
  BY DEF F
<1>3. \A f : (\E field, op, value : f = F(field, op, value) /\ field \notin {"parent", "mimetype", "uuid"})
         => f = F(f.field, f.op, f.value) /\ f.field \notin {"parent", "mimetype", "uuid"}
  BY <1>2
<1>4. a # {} /\ \A f \in a : \E field, op, value :
         f = F(field, op, value) /\ field \notin {"parent", "mimetype", "uuid"}
  BY <1>1 DEF Alternatives, PermissionAlternatives
<1> QED BY <1>3, <1>4

\* The filters of an alternative, asked of the parent, are asked of the folders.
LEMMA AskedBack ==
  ASSUME who \in Principals, NEW a \in Alternatives, NEW g, OfParent(a) \subseteq g
  PROVE  a \subseteq Asked(g) /\ F("mimetype", "!=", "folder") \in g /\ AsksParent(g)
<1>1. ASSUME NEW f \in a
      PROVE  LET above == AtF(f.field, f.op, f.value)
             IN  above \in g /\ above.at /\ F(above.field, above.op, above.value) = f
  <2>1. f = F(f.field, f.op, f.value)
    BY AlternativesAre
  <2>2. AtF(f.field, f.op, f.value) \in g
    BY DEF OfParent
  <2>3. \A field, op, value : LET above == AtF(field, op, value)
          IN  above.at /\ above.field = field /\ above.op = op /\ above.value = value
    BY DEF AtF
  <2> QED BY <2>1, <2>2, <2>3
<1>2. a \subseteq Asked(g)
  BY <1>1 DEF Asked
<1>3. PICK f \in a : TRUE
  BY AlternativesAre
<1>4. AsksParent(g)
  BY <1>1, <1>3 DEF AsksParent
<1>5. F("mimetype", "!=", "folder") \in g
  BY DEF OfParent
<1> QED BY <1>2, <1>4, <1>5

LEMMA FoldersSatisfy ==
  ASSUME FindTypes, NEW g, NEW f \in Folders({Asked(g)})
  PROVE  /\ f \in FolderUuids(nodes) \cup {Root}
         /\ Satisfies(FolderAt(nodes, f), Asked(g))
<1>1. \A n : SatisfiedBy({Asked(g)}, n) <=> Satisfies(n, Asked(g))
  BY DEF SatisfiedBy, Satisfies
<1>2. CASE f = Root
  BY <1>1, <1>2, FindAssumption DEF Folders, Matching, FolderAt
<1>3. CASE f \in Uuids /\ Satisfies(nodes[f], Asked(g))
  <2>1. F("mimetype", "==", "folder") \in Asked(g)
    BY DEF Asked
  <2>2. "mimetype" \in DOMAIN nodes[f]
    BY <1>3, HeldIsRecord DEF FindTypes
  <2>3. nodes[f].mimetype = "folder"
    BY <1>3, <2>1, <2>2, OfMimetype DEF Satisfies
  <2> QED BY <1>3, <2>3, FindAssumption DEF FolderUuids, FolderAt
<1> QED BY <1>1, <1>2, <1>3 DEF Folders, Matching

\* A group of filters that only nodes pass whose folder granted Read: it asks
\* that of the node, or names the folders found to have granted it.
GrantedAt(f) == \E store \in seen : f \in FolderUuids(store) \cup {Root} /\ Grants(FolderAt(store, f))
NamesFolders(g, parents) ==
    /\ {F("mimetype", "!=", "folder"), F("parent", "in", parents)} \subseteq g
    /\ \A f \in parents : GrantedAt(f)
Allows(g) == (\E a \in Alternatives : OfFolder(a) \subseteq g) \/ \E parents : NamesFolders(g, parents)
Asks(g) == \E a \in Alternatives : OfFolder(a) \subseteq g \/ OfParent(a) \subseteq g

SearchAllows ==
    stage = "resolve" /\ ~IsMember(who, Admins) =>
       (\A g \in groups : Allows(g)) /\ (\A g \in pending : Asks(g))

LEMMA ResolvedAllows ==
  ASSUME FindTypes, NEW g, Asks(g), NEW h \in Resolved(g, Folders({Asked(g)}))
  PROVE  Allows(h)
<1> DEFINE parents == Folders({Asked(g)})
<1>0. who \in Principals /\ nodes \in seen
  BY DEF FindTypes
<1>1. h = {f \in g : ~f.at /\ f.field # "parent"} \cup {F("parent", "in", parents)}
  BY DEF Resolved
<1>2. F("mimetype", "!=", "folder").at = FALSE /\ F("mimetype", "!=", "folder").field = "mimetype"
      /\ F("mimetype", "==", "folder").at = FALSE /\ F("mimetype", "==", "folder").field = "mimetype"
  BY DEF F
<1>3. PICK a \in Alternatives : OfFolder(a) \subseteq g \/ OfParent(a) \subseteq g
  BY DEF Asks
<1>4. CASE OfFolder(a) \subseteq g
  <2>1. \A f \in a : ~f.at /\ f.field # "parent"
    BY <1>0, AlternativesAre DEF F
  <2>2. OfFolder(a) \subseteq h
    BY <1>1, <1>2, <1>4, <2>1 DEF OfFolder
  <2> QED BY <2>2 DEF Allows
<1>5. CASE OfParent(a) \subseteq g
  <2>1. a \subseteq Asked(g) /\ F("mimetype", "!=", "folder") \in g
    BY <1>0, <1>5, AskedBack
  <2>2. {F("mimetype", "!=", "folder"), F("parent", "in", parents)} \subseteq h
    BY <1>1, <1>2, <2>1
  <2>3. ASSUME NEW f \in parents PROVE GrantedAt(f)
    <3>1. f \in FolderUuids(nodes) \cup {Root} /\ Satisfies(FolderAt(nodes, f), Asked(g))
      BY FoldersSatisfy
    <3>2. Satisfies(FolderAt(nodes, f), a)
      BY <2>1, <3>1 DEF Satisfies
    <3>3. Grants(FolderAt(nodes, f))
      BY <1>0, <3>1, <3>2, FolderAtIs, AlternativesGrant
    <3> QED BY <1>0, <3>1, <3>3 DEF GrantedAt
  <2>4. NamesFolders(h, parents)
    BY <2>2, <2>3 DEF NamesFolders
  <2> QED BY <2>4 DEF Allows
<1> QED BY <1>3, <1>4, <1>5

LEMMA AllowsStays ==
  ASSUME UNCHANGED who, seen \subseteq seen', NEW g
  PROVE  (Allows(g) => Allows(g)') /\ (Asks(g) => Asks(g)')
<1>1. \A n : Grants(n) <=> Grants(n)'
  BY DEF Grants
<1>2. \A f : GrantedAt(f) => GrantedAt(f)'
  BY <1>1 DEF GrantedAt, FolderAt, FolderUuids
<1>3. \A h, parents : NamesFolders(h, parents) => NamesFolders(h, parents)'
  BY <1>2 DEF NamesFolders
<1>4. Alternatives' = Alternatives
  BY DEF Alternatives
<1> QED BY <1>3, <1>4 DEF Allows, Asks

LEMMA FindWithAllows ==
  ASSUME FindTypes, NEW filters, NEW isRanked, FindWith(filters, isRanked), UNCHANGED who, ~IsMember(who, Admins)
  PROVE  (\A g \in groups' : Allows(g)') /\ (\A g \in pending' : Asks(g)')
<1> DEFINE all == WithPermissions(filters, who, "Read")
<1>0. who \in Principals
  BY DEF FindTypes
<1>1. \A g \in all : \E a \in Alternatives : OfFolder(a) \subseteq g \/ OfParent(a) \subseteq g
  BY DEF WithPermissions, Alternatives
<1>2. Alternatives' = Alternatives
  BY DEF Alternatives
<1>3. \A g \in pending' : Asks(g)'
  BY <1>1, <1>2 DEF FindWith, Asks
<1>4. ASSUME NEW g \in groups' PROVE Allows(g)'
  <2>1. g \in all /\ ~AsksParent(g)
    BY <1>4 DEF FindWith
  <2>2. PICK a \in Alternatives : OfFolder(a) \subseteq g \/ OfParent(a) \subseteq g
    BY <1>1, <2>1
  <2>3. OfFolder(a) \subseteq g
    BY <1>0, <2>1, <2>2, AskedBack
  <2> QED BY <1>2, <2>2, <2>3 DEF Allows
<1> QED BY <1>3, <1>4

\* What a group that allows lets pass may be read.
LEMMA AllowedIsReadable ==
  ASSUME FindTypes, NEW g, Allows(g), NEW u \in Uuids, Satisfies(nodes[u], g)
  PROVE  \E store \in seen : Readable(store, nodes[u]) \/ GrantedToOutsider(store, nodes[u])
<1>0. who \in Principals /\ nodes \in seen /\ "mimetype" \in DOMAIN nodes[u] /\ "parent" \in DOMAIN nodes[u]
  BY HeldIsRecord DEF FindTypes
<1>1. ASSUME NEW a \in Alternatives, OfFolder(a) \subseteq g
      PROVE  \E store \in seen : Readable(store, nodes[u]) \/ GrantedToOutsider(store, nodes[u])
  <2>1. nodes[u].mimetype = "folder"
    BY <1>0, <1>1, OfMimetype DEF OfFolder, Satisfies
  <2>2. Satisfies(nodes[u], a)
    BY <1>1 DEF OfFolder, Satisfies
  <2>3. Grants(nodes[u])
    BY <1>0, <2>1, <2>2, HeldIsRecord, AlternativesGrant
  <2>4. FolderOf(nodes, nodes[u]) = nodes[u]
    BY <2>1 DEF FolderOf
  <2> QED BY <1>0, <2>1, <2>3, <2>4 DEF Grants, Readable, GrantedToOutsider
<1>2. ASSUME NEW parents, NamesFolders(g, parents)
      PROVE  \E store \in seen : Readable(store, nodes[u]) \/ GrantedToOutsider(store, nodes[u])
  <2> DEFINE f == nodes[u].parent
  <2>1. nodes[u].mimetype # "folder"
    BY <1>0, <1>2, OfMimetype DEF NamesFolders, Satisfies
  <2>2. f \in parents
    <3>1. FilterFn("in", GetFieldValue(nodes[u], "parent"), parents)
      BY <1>2, FilterOf DEF NamesFolders, Satisfies
    <3>2. GetFieldValue(nodes[u], "parent") = f
      BY <1>0 DEF GetFieldValue
    <3> QED BY <3>1, <3>2, OpsMean
  <2>3. PICK store \in seen : f \in FolderUuids(store) \cup {Root} /\ Grants(FolderAt(store, f))
    BY <1>2, <2>2 DEF NamesFolders, GrantedAt
  <2>4. ParentOfNode(store, nodes[u]) = FolderAt(store, f) /\ FolderOf(store, nodes[u]) = FolderAt(store, f)
    BY <2>1 DEF ParentOfNode, FolderOf, FolderAt
  <2>5. FolderAt(store, f).mimetype = "folder"
    BY <2>3, FolderAtIs DEF IsFolderRecord
  <2> QED BY <2>1, <2>3, <2>4, <2>5 DEF Grants, Readable, MayGet, GrantedToOutsider
<1> QED BY <1>1, <1>2 DEF Allows

\* An administrator may read every node.
LEMMA AdminsRead ==
  ASSUME FindTypes, NEW u \in Uuids, IsMember(who, Admins)
  PROVE  Readable(nodes, nodes[u])
<1>1. \A n : IsPrincipalAllowedTo(who, n, "Read")
  BY DEF IsPrincipalAllowedTo
<1>2. nodes \in seen
  BY DEF FindTypes
<1>3. ParentOfNode(nodes, nodes[u]).mimetype = "folder"
  BY <1>2, ParentIsFolder, FolderAtIs DEF IsFolderRecord
<1> QED BY <1>1, <1>3 DEF Readable, MayGet

LEMMA FoundAreMatching ==
  ASSUME FindTypes, Answer
  PROVE  ToSet(result') \subseteq Matching(groups)
<1> DEFINE S == Matching(groups)
<1>1. S \in SUBSET Uuids
  BY DEF Matching
<1>2. query.size \in Nat \ {0} /\ query.token \in Nat \ {0}
  BY FindAssumption DEF FindTypes
<1>3. InOrder(S) \in Seq(S)
  <2> HIDE DEF S
  <2>1. InTheOrder(S, InOrder(S))
    BY <1>1, InOrderIs
  <2> QED BY <2>1 DEF InTheOrder
<1>4. result' \in Seq(S)
  <2>1. result' = Page(InOrder(S), query.size, query.token)
    BY DEF Answer
  <2> HIDE DEF S
  <2>2. IsPage(S, InOrder(S), query.size, query.token, Page(InOrder(S), query.size, query.token))
    BY <1>2, <1>3, PageHolds
  <2> QED BY <2>1, <2>2 DEF IsPage
<1> HIDE DEF S
<1> QED BY <1>4 DEF ToSet, S

SearchInv == FindTypes /\ SearchAllows /\ FoundIsReadable

LEMMA SearchAllowsNext == SearchInv /\ [Next]_vars => SearchAllows' /\ FoundIsReadable'
<1> SUFFICES ASSUME SearchInv, [Next]_vars PROVE SearchAllows' /\ FoundIsReadable'
  OBVIOUS
<1>0. FindTypes /\ SearchAllows /\ FoundIsReadable
  BY DEF SearchInv
<1>1. ASSUME NEW filters, NEW isRanked, FindWith(filters, isRanked), UNCHANGED who
      PROVE  SearchAllows' /\ FoundIsReadable'
  <2>1. stage' = "resolve"
    BY <1>1 DEF FindWith
  <2>2. IsMember(who, Admins)' <=> IsMember(who, Admins)
    BY <1>1 DEF IsMember
  <2> QED BY <1>0, <1>1, <2>1, <2>2, FindWithAllows DEF SearchAllows, FoundIsReadable
<1>2. ASSUME stage' \notin {"resolve", "done"} \/ (stage' = "done" /\ groups' = {})
      PROVE  SearchAllows' /\ FoundIsReadable'
  BY <1>2 DEF SearchAllows, FoundIsReadable
<1>3. CASE Begin
  BY <1>0, <1>1, <1>2, <1>3 DEF Begin
<1>4. CASE Embed
  BY <1>2, <1>4 DEF Embed
<1>5. CASE VectorSearch
  <2>1. groups = {}
    BY <1>0, <1>5 DEF VectorSearch, FindTypes
  <2> QED BY <1>1, <1>2, <1>5, <2>1 DEF VectorSearch
<1>6. CASE FallBack
  BY <1>1, <1>6 DEF FallBack
<1>7. CASE SomeAnswered
  <2>1. PICK answered \in SUBSET pending : Resolve(answered)
    BY <1>7 DEF SomeAnswered
  <2>2. stage = "resolve" /\ stage' = "resolve" /\ who' = who /\ seen' = seen
    BY <2>1 DEF Resolve
  <2>3. ASSUME ~IsMember(who, Admins)
        PROVE  (\A g \in groups' : Allows(g)') /\ (\A g \in pending' : Asks(g)')
    <3>1. (\A g \in groups : Allows(g)) /\ (\A g \in pending : Asks(g))
      BY <1>0, <2>2, <2>3 DEF SearchAllows
    <3>2. \A g \in answered : \A h \in Resolved(g, Folders({Asked(g)})) : Allows(h)
      BY <1>0, <3>1, ResolvedAllows
    <3>3. \A g \in groups' : Allows(g)
      BY <2>1, <3>1, <3>2 DEF Resolve
    <3>4. \A g \in pending' : Asks(g)
      BY <2>1, <3>1 DEF Resolve
    <3> QED BY <2>2, <3>3, <3>4, AllowsStays
  <2>4. IsMember(who, Admins)' <=> IsMember(who, Admins)
    BY <2>2 DEF IsMember
  <2> QED BY <2>2, <2>3, <2>4 DEF SearchAllows, FoundIsReadable
<1>8. CASE Answer
  <2>1. UNCHANGED <<nodes, seen, who, groups>> /\ stage = "resolve" /\ stage' = "done"
    BY <1>8 DEF Answer
  <2>2. \A store, n : (Readable(store, n)' <=> Readable(store, n))
                      /\ (GrantedToOutsider(store, n)' <=> GrantedToOutsider(store, n))
    BY <2>1 DEF Readable, MayGet, GrantedToOutsider, FolderOf, ParentOfNode
  <2>3. ASSUME groups # {}, NEW u \in ToSet(result')
        PROVE  \E store \in seen : Readable(store, nodes[u]) \/ GrantedToOutsider(store, nodes[u])
    <3>1. u \in Uuids /\ SatisfiedBy(groups, nodes[u])
      BY <1>0, <1>8, <2>3, FoundAreMatching DEF Matching
    <3>2. CASE IsMember(who, Admins)
      BY <1>0, <3>1, <3>2, AdminsRead DEF FindTypes
    <3>3. CASE ~IsMember(who, Admins)
      <4>1. PICK g \in groups : Satisfies(nodes[u], g)
        BY <2>3, <3>1 DEF SatisfiedBy, Satisfies
      <4>2. Allows(g)
        BY <1>0, <2>1, <3>3 DEF SearchAllows
      <4> QED BY <1>0, <3>1, <4>1, <4>2, AllowedIsReadable
    <3> QED BY <3>2, <3>3
  <2> QED BY <2>1, <2>2, <2>3 DEF SearchAllows, FoundIsReadable
<1>9. CASE Change
  <2>1. stage \in {"embed", "vector", "resolve"} /\ UNCHANGED <<who, stage, groups, pending>>
        /\ seen \subseteq seen'
    BY <1>9 DEF Change
  <2>2. IsMember(who, Admins)' <=> IsMember(who, Admins)
    BY <2>1 DEF IsMember
  <2> QED BY <1>0, <2>1, <2>2, AllowsStays DEF SearchAllows, FoundIsReadable
<1>10. CASE UNCHANGED vars
  <2>1. UNCHANGED <<nodes, seen, who, stage, groups, pending, result>>
    BY <1>10 DEF vars
  <2>2. IsMember(who, Admins)' <=> IsMember(who, Admins)
    BY <2>1 DEF IsMember
  <2>3. SearchAllows'
    BY <1>0, <2>1, <2>2, AllowsStays DEF SearchAllows
  <2>4. \A store, n : (Readable(store, n)' <=> Readable(store, n))
                      /\ (GrantedToOutsider(store, n)' <=> GrantedToOutsider(store, n))
    BY <2>1 DEF Readable, MayGet, GrantedToOutsider, FolderOf, ParentOfNode
  <2> QED BY <1>0, <2>1, <2>3, <2>4 DEF FoundIsReadable
<1> QED BY <1>3, <1>4, <1>5, <1>6, <1>7, <1>8, <1>9, <1>10 DEF Next

\* What a search finds was granted by a folder at some moment since the search
\* began, however the repository changed between its questions: for any
\* repository, principals and filters, and any number of changes.
THEOREM SearchesShowTheReadable == Spec => []FoundIsReadable
<1>1. Init => SearchInv
  BY TypesAtFirst DEF SearchInv, SearchAllows, FoundIsReadable, Init
<1>2. SearchInv /\ [Next]_vars => SearchInv'
  BY TypesNext, SearchAllowsNext DEF SearchInv
<1>3. SearchInv => FoundIsReadable
  BY DEF SearchInv
<1> QED BY <1>1, <1>2, <1>3, PTL DEF Spec
----------------------------------------------------------------------------
(* What may be read is found.                                              *)

Relevant == {u \in Nearest : query.score[u] >= Threshold}
Base == IF ranked THEN {{F("uuid", "in", Relevant)}} ELSE FiltersOf(query)
MayBeShown(u) == Readable(nodes, nodes[u]) /\ ~GrantedToOtherGroup(nodes, nodes[u])

\* A node passes the filters resolved, or the question that one of the others
\* asks of its parent.
Reached(u) ==
    \/ groups = {} /\ pending = {}
    \/ \E g \in groups : Satisfies(nodes[u], g)
    \/ \E g \in pending : FitsGroup(nodes, g, nodes[u])
SearchReaches ==
    stage = "resolve" /\ changes = 0 =>
       \A u \in Uuids : MayBeShown(u) /\ Fits(nodes, Base, nodes[u]) => Reached(u)

LEMMA FitsWithout ==
  ASSUME NEW store, NEW n, NEW g, ~AsksParent(g)
  PROVE  FitsGroup(store, g, n) <=> Satisfies(n, g)
BY DEF AsksParent, FitsGroup, Satisfies

\* A node that may be shown fits what some alternative asks.
LEMMA ShownFits ==
  ASSUME FindTypes, ~IsMember(who, Admins), NEW u \in Uuids, MayBeShown(u)
  PROVE  \E a \in Alternatives : \E q \in {OfFolder(a), OfParent(a)} : FitsGroup(nodes, q, nodes[u])
<1> DEFINE n == nodes[u]
           folder == FolderOf(nodes, n)
<1>0. /\ who \in Principals /\ nodes \in seen /\ "mimetype" \in DOMAIN n
      /\ ~F("mimetype", "==", "folder").at /\ ~F("mimetype", "!=", "folder").at
  BY HeldIsRecord DEF FindTypes, F
<1>1. IsFolderRecord(folder) /\ (n.mimetype # "folder" => folder = ParentOfNode(nodes, n))
  BY <1>0, HeldIsRecord, ParentIsFolder, FolderAtIs DEF FolderOf
<1>2. IsPrincipalAllowedTo(who, folder, "Read")
  BY DEF MayBeShown, Readable, MayGet, FolderOf
<1>3. folder.group = Head(who.groups) \/ IsPrincipalAllowedTo(who, [folder EXCEPT !.granted = {}], "Read")
  BY DEF MayBeShown, GrantedToOtherGroup
<1>4. PICK a \in Alternatives : Satisfies(folder, a)
  <2> HIDE DEF folder
  <2> QED BY <1>0, <1>1, <1>2, <1>3, AllowedByAlternative
<1>5. \A f \in a : f = F(f.field, f.op, f.value) /\ ~f.at
  BY <1>0, AlternativesAre DEF F
<1>6. CASE n.mimetype = "folder"
  <2>1. SatisfiesFilter(n, F("mimetype", "==", "folder")) /\ folder = n
    BY <1>0, <1>6, OfMimetype DEF FolderOf
  <2>2. FitsGroup(nodes, OfFolder(a), n)
    <3> HIDE DEF folder, n
    <3> QED BY <1>0, <1>4, <1>5, <2>1 DEF FitsGroup, OfFolder, Satisfies
  <2> QED BY <2>2
<1>7. CASE n.mimetype # "folder"
  <2>1. SatisfiesFilter(n, F("mimetype", "!=", "folder")) /\ folder = ParentOfNode(nodes, n)
    BY <1>0, <1>1, <1>7, OfMimetype
  <2>2. \A field, op, value : LET above == AtF(field, op, value)
          IN  above.at /\ above.field = field /\ above.op = op /\ above.value = value
    BY DEF AtF
  <2>3. ASSUME NEW f \in OfParent(a)
        PROVE  IF f.at THEN SatisfiesFilter(folder, F(f.field, f.op, f.value)) ELSE SatisfiesFilter(n, f)
    <3>1. CASE f = F("mimetype", "!=", "folder")
      <4> HIDE DEF folder, n
      <4> QED BY <1>0, <2>1, <3>1
    <3>2. ASSUME NEW h \in a, f = AtF(h.field, h.op, h.value)
          PROVE  f.at /\ SatisfiesFilter(folder, F(f.field, f.op, f.value))
      <4> HIDE DEF folder, n
      <4>1. F(f.field, f.op, f.value) = h /\ f.at
        BY <1>5, <2>2, <3>2
      <4> QED BY <1>4, <4>1 DEF Satisfies
    <3> QED BY <3>1, <3>2 DEF OfParent
  <2>4. FitsGroup(nodes, OfParent(a), n)
    <3> HIDE DEF folder, n
    <3> QED BY <2>1, <2>3 DEF FitsGroup
  <2> QED BY <2>4
<1> QED BY <1>6, <1>7

\* The filters of a search, with those of the permission, reach what fits them.
LEMMA FindWithReaches ==
  ASSUME FindTypes, NEW filters, NEW isRanked, FindWith(filters, isRanked), UNCHANGED <<nodes, who>>,
         NEW u \in Uuids, MayBeShown(u), Fits(nodes, filters, nodes[u])
  PROVE  Reached(u)'
<1> DEFINE all == WithPermissions(filters, who, "Read")
           n == nodes[u]
<1>0. groups' = {g \in all : ~AsksParent(g)} \ {{}} /\ pending' = {g \in all : AsksParent(g)} /\ nodes' = nodes
  BY DEF FindWith
<1>1. ASSUME NEW g \in all, g # {}, FitsGroup(nodes, g, n)
      PROVE  Reached(u)'
  <2>1. CASE AsksParent(g)
    <3>1. g \in pending' /\ FitsGroup(nodes, g, n)'
      BY <1>0, <1>1, <2>1 DEF FitsGroup, ParentOfNode
    <3> QED BY <3>1 DEF Reached
  <2>2. CASE ~AsksParent(g)
    <3>1. g \in groups' /\ Satisfies(nodes'[u], g)
      BY <1>0, <1>1, <2>2, FitsWithout
    <3> QED BY <3>1 DEF Reached, Satisfies
  <2> QED BY <2>1, <2>2
<1>2. CASE IsMember(who, Admins)
  <2>1. all = filters
    BY <1>2 DEF WithPermissions
  <2>2. CASE filters \ {{}} = {}
    <3>1. ~AsksParent({})
      BY DEF AsksParent
    <3>2. groups' = {} /\ pending' = {}
      BY <1>0, <2>1, <2>2, <3>1
    <3> QED BY <3>2 DEF Reached
  <2>3. CASE \E group \in filters \ {{}} : FitsGroup(nodes, group, n)
    BY <1>1, <2>1, <2>3
  <2> QED BY <2>2, <2>3 DEF Fits
<1>3. CASE ~IsMember(who, Admins)
  <2>1. all = {group \cup q : group \in filters, q \in UNION {{OfFolder(a), OfParent(a)} : a \in Alternatives}}
    BY <1>3 DEF WithPermissions, Alternatives
  <2>2. PICK a \in Alternatives : \E q \in {OfFolder(a), OfParent(a)} : FitsGroup(nodes, q, n)
    BY <1>3, ShownFits
  <2>3. PICK q \in {OfFolder(a), OfParent(a)} : FitsGroup(nodes, q, n)
    BY <2>2
  <2>4. q # {}
    BY DEF OfFolder, OfParent
  <2>5. ASSUME NEW group \in filters, FitsGroup(nodes, group, n) PROVE Reached(u)'
    <3>1. group \cup q \in all /\ group \cup q # {}
      <4>1. q \in UNION {{OfFolder(b), OfParent(b)} : b \in Alternatives}
        BY <2>3
      <4> HIDE DEF all
      <4> QED BY <2>1, <2>4, <4>1
    <3>2. FitsGroup(nodes, group \cup q, n)
      BY <2>3, <2>5 DEF FitsGroup
    <3> QED BY <1>1, <3>1, <3>2
  <2>6. CASE filters = {}
    <3>1. groups' = {} /\ pending' = {}
      BY <1>0, <2>1, <2>6
    <3> QED BY <3>1 DEF Reached
  <2>7. CASE {} \in filters
    BY <2>5, <2>7 DEF FitsGroup
  <2>8. CASE \E group \in filters \ {{}} : FitsGroup(nodes, group, n)
    BY <2>5, <2>8
  <2> QED BY <2>6, <2>7, <2>8 DEF Fits
<1> QED BY <1>2, <1>3

\* The folder of a node that fits a group is among those found for its question,
\* and the node passes what the group becomes.
LEMMA ResolvedReaches ==
  ASSUME FindTypes, NEW g, NEW u \in Uuids, FitsGroup(nodes, g, nodes[u])
  PROVE  \E h \in Resolved(g, Folders({Asked(g)})) : Satisfies(nodes[u], h)
<1> DEFINE n == nodes[u]
           p == n.parent
           folder == FolderAt(nodes, p)
           parents == Folders({Asked(g)})
           h == {f \in g : ~f.at /\ f.field # "parent"} \cup {F("parent", "in", parents)}
<1>0. nodes \in seen /\ who \in Principals /\ "parent" \in DOMAIN n
  BY HeldIsRecord DEF FindTypes
<1>1. p \in FolderUuids(nodes) \cup {Root} /\ ParentOfNode(nodes, n) = folder
  BY <1>0, ParentIsFolder
<1>2. /\ IsFolderRecord(folder) /\ "uuid" \in DOMAIN folder /\ folder.uuid = p
  <2>1. IsFolderRecord(folder)
    BY <1>0, <1>1, FolderAtIs
  <2>2. "uuid" \in DOMAIN RootFolder /\ RootFolder.uuid = Root
    BY DEF RootFolder
  <2>3. p # Root => p \in Uuids
    BY <1>1 DEF FolderUuids
  <2> QED BY <1>0, <2>1, <2>2, <2>3, HeldIsRecord DEF FolderAt
<1>3. ASSUME NEW f \in Asked(g) PROVE SatisfiesFilter(folder, f)
  <2>1. ASSUME NEW e \in g, e.at, f = F(e.field, e.op, e.value) PROVE SatisfiesFilter(folder, f)
    <3> HIDE DEF folder, n
    <3> QED BY <1>1, <2>1 DEF FitsGroup, n
  <2>2. CASE f = F("mimetype", "==", "folder")
    <3> HIDE DEF folder
    <3> QED BY <1>2, <2>2, OfMimetype DEF IsFolderRecord
  <2>3. ASSUME NEW e \in OfField(g, "parent"), f = F("uuid", e.op, e.value) PROVE SatisfiesFilter(folder, f)
    <3>1. e \in g /\ ~e.at /\ e.field = "parent"
      BY DEF OfField
    <3>2. SatisfiesFilter(n, e)
      BY <3>1 DEF FitsGroup
    <3>3. FilterFn(e.op, p, e.value)
      BY <1>0, <3>1, <3>2 DEF SatisfiesFilter, GetFieldValue
    <3>4. GetFieldValue(folder, "uuid") = p
      <4> HIDE DEF folder, p
      <4> QED BY <1>2 DEF GetFieldValue
    <3> HIDE DEF folder, p
    <3> QED BY <2>3, <3>3, <3>4, FilterOf
  <2>4. OfField(g, "parent") # {} => (CHOOSE e \in OfField(g, "parent") : TRUE) \in OfField(g, "parent")
    OBVIOUS
  <2> HIDE DEF folder
  <2> QED BY <2>1, <2>2, <2>3, <2>4 DEF Asked
<1>4. p \in parents
  <2>1. SatisfiedBy({Asked(g)}, folder)
    BY <1>3 DEF SatisfiedBy
  <2> QED BY <1>1, <2>1 DEF Folders, Matching, FolderAt, FolderUuids
<1>5. Satisfies(n, h)
  <2>1. SatisfiesFilter(n, F("parent", "in", parents))
    <3>1. GetFieldValue(n, "parent") = p
      BY <1>0 DEF GetFieldValue
    <3> HIDE DEF p, parents
    <3> QED BY <1>4, <3>1, FilterOf, OpsMean
  <2>2. \A f \in g : ~f.at => SatisfiesFilter(n, f)
    BY DEF FitsGroup
  <2> HIDE DEF parents, n
  <2> QED BY <2>1, <2>2 DEF Satisfies
<1>6. h \in Resolved(g, parents)
  <2> HIDE DEF parents
  <2> QED BY <1>4 DEF Resolved
<1> QED BY <1>5, <1>6

\* What the answer gives of a search that nothing changed under.
LEMMA AnswerReaches ==
  ASSUME FindTypes, SearchReaches, Answer, changes = 0
  PROVE  \A u \in Uuids : MayBeShown(u) /\ Fits(nodes, Base, nodes[u]) => u \in Matching(groups)
<1>1. stage = "resolve" /\ pending = {}
  BY DEF Answer
<1> QED BY <1>1 DEF SearchReaches, Reached, Matching, SatisfiedBy, Satisfies

LEMMA AnswerIs ==
  ASSUME FindTypes, Answer
  PROVE  /\ InTheOrder(Matching(groups), InOrder(Matching(groups)))
         /\ IsPage(Uuids, InOrder(Matching(groups)), query.size, query.token, result')
<1> DEFINE S == Matching(groups)
           seq == InOrder(S)
<1>1. S \in SUBSET Uuids
  BY DEF Matching
<1>2. query.size \in Nat \ {0} /\ query.token \in Nat \ {0}
  BY FindAssumption DEF FindTypes
<1>3. result' = Page(seq, query.size, query.token)
  BY DEF Answer
<1> HIDE DEF S
<1>4. InTheOrder(S, InOrder(S))
  BY <1>1, InOrderIs
<1> HIDE DEF seq
<1>5. seq \in Seq(Uuids)
  BY <1>1, <1>4 DEF InTheOrder, seq
<1>6. IsPage(Uuids, seq, query.size, query.token, Page(seq, query.size, query.token))
  BY <1>2, <1>5, PageHolds
<1>7. IsPage(Uuids, seq, query.size, query.token, result')
  BY <1>3, <1>6
<1> QED BY <1>4, <1>7 DEF S, seq

\* Every page looks at the first TopK neighbours, and with one at all before it.
LEMMA NeighboursAre ==
  ASSUME FindTypes, ranked, NEW t \in Nat \ {0}
  PROVE  /\ Neighbours(TopK) \subseteq Neighbours(LookAt(t))
         /\ \A u \in Neighbours(LookAt(t)), v \in Uuids : ByScore(v, u) => v \in Neighbours(LookAt(t))
<1> DEFINE ahead(u) == {v \in Uuids : ByScore(v, u)}
           k == LookAt(t)
<1>1. query.size \in Nat \ {0} /\ query.score \in [Uuids -> Nat] /\ TopK \in Nat /\ Title \in [Uuids -> Nat]
  BY FindAssumption DEF FindTypes
<1>2. k \in Nat /\ k >= TopK
  <2> DEFINE b == query.size * t
  <2>1. b \in Nat
    BY <1>1, Z3
  <2>2. k = Max({TopK, b})
    BY DEF LookAt
  <2> HIDE DEF b, k
  <2>3. \E x \in {TopK, b} : \A y \in {TopK, b} : x >= y
    BY <1>1, <2>1
  <2>4. k \in {TopK, b} /\ \A y \in {TopK, b} : k >= y
    BY <2>2, <2>3 DEF Max
  <2> QED BY <1>1, <2>1, <2>4
<1> HIDE DEF k
<1>3. \A u \in Uuids : IsFiniteSet(ahead(u)) /\ Cardinality(ahead(u)) \in Nat
  BY FindAssumption, FS_Subset, FS_CardinalityType
<1>4. Neighbours(TopK) \subseteq Neighbours(k)
  BY <1>1, <1>2, <1>3 DEF Neighbours
<1>5. ASSUME NEW u \in Neighbours(k), NEW v \in Uuids, ByScore(v, u) PROVE v \in Neighbours(k)
  <2>1. u \in Uuids /\ query.score[u] > 0 /\ Cardinality(ahead(u)) < k
    BY DEF Neighbours
  <2>2. ahead(v) \in SUBSET ahead(u) /\ query.score[v] > 0
    BY <1>1, <1>5, <2>1 DEF ByScore
  <2>3. Cardinality(ahead(v)) <= Cardinality(ahead(u))
    <3> HIDE DEF ahead
    <3> QED BY <1>3, <2>1, <2>2, FS_Subset
  <2> QED BY <1>2, <1>3, <2>1, <2>2, <2>3 DEF Neighbours
<1> QED BY <1>4, <1>5 DEF k

\* So one of those is shown by the page of its place in the answer of any.
LEMMA ShownAtItsPlace ==
  ASSUME FindTypes, ranked, NEW seq, InTheOrder(Matching(groups), seq),
         NEW j \in 1..Len(seq), seq[j] \in Neighbours(TopK),
         NEW t \in Nat \ {0}, (t - 1) * query.size < j, j <= t * query.size
  PROVE  seq[j] \in PageOf(t)
<1> DEFINE u == seq[j]
           answer == Matching(groups) \cap Neighbours(LookAt(t))
           before == {v \in Matching(groups) : Precedes(v, u)}
<1>1. Matching(groups) \in SUBSET Uuids /\ u \in Matching(groups) /\ Len(seq) \in Nat
  BY DEF Matching, InTheOrder
<1>2. u \in answer
  BY <1>1, NeighboursAre
<1>3. {v \in answer : ByScore(v, u)} = before
  BY <1>1, <1>2, NeighboursAre DEF Precedes
<1>4. Cardinality(before) = j - 1
  BY <1>1, PlaceIs
<1>5. j - 1 \in (t - 1) * query.size .. t * query.size - 1
  <2>1. query.size \in Nat \ {0} /\ t - 1 \in Nat
    BY FindAssumption DEF FindTypes
  <2>2. (t - 1) * query.size \in Nat /\ t * query.size \in Nat
    BY <2>1, Z3
  <2> QED BY <1>1, <2>2
<1> HIDE DEF u, before
<1> QED BY <1>2, <1>3, <1>4, <1>5 DEF PageOf, u

FindInv == FindTypes /\ SearchReaches /\ ReadableIsFound /\ BestFirst

LEMMA SearchReachesNext == FindInv /\ [Next]_vars => SearchReaches' /\ ReadableIsFound' /\ BestFirst'
<1> SUFFICES ASSUME FindInv, [Next]_vars PROVE SearchReaches' /\ ReadableIsFound' /\ BestFirst'
  OBVIOUS
<1>0. FindTypes /\ SearchReaches /\ ReadableIsFound /\ BestFirst
  BY DEF FindInv
\* A state that is not the end of a search says nothing of its result.
<1>1. ASSUME stage' \notin {"resolve", "done"} \/ (stage' = "done" /\ query'.kind = "semantic" /\ result' = <<>>)
      PROVE  SearchReaches' /\ ReadableIsFound' /\ BestFirst'
  BY <1>1 DEF SearchReaches, ReadableIsFound, BestFirst
<1>2. ASSUME NEW u \in Uuids, UNCHANGED <<nodes, who>>
      PROVE  /\ MayBeShown(u)' <=> MayBeShown(u)
             /\ \A filters : Fits(nodes, filters, nodes[u])' <=> Fits(nodes, filters, nodes[u])
  BY <1>2 DEF MayBeShown, Readable, MayGet, GrantedToOtherGroup, FolderOf, ParentOfNode, Fits, FitsGroup
<1>3. ASSUME NEW filters, NEW isRanked, FindWith(filters, isRanked), UNCHANGED <<nodes, who, changes, query>>,
             Base' = filters
      PROVE  SearchReaches' /\ ReadableIsFound' /\ BestFirst'
  <2>1. \A u \in Uuids : MayBeShown(u)' /\ Fits(nodes, Base, nodes[u])' => Reached(u)'
    <3> TAKE u \in Uuids
    <3>1. Fits(nodes, Base, nodes[u])' => Fits(nodes, filters, nodes[u])
      BY <1>3 DEF Fits, FitsGroup, ParentOfNode
    <3> QED BY <1>0, <1>2, <1>3, <3>1, FindWithReaches
  <2> QED BY <1>3, <2>1 DEF SearchReaches, ReadableIsFound, BestFirst, FindWith
<1>4. FiltersOf(query) = FiltersOf(query)' \/ query' # query
  OBVIOUS
<1>5. CASE Begin
  <2>1. CASE FindWith(FiltersOf(query), FALSE)
    <3>1. UNCHANGED <<nodes, who, changes, query>> /\ ranked' = FALSE
      BY <1>5, <2>1 DEF Begin, FindWith
    <3>2. Base' = FiltersOf(query)
      BY <3>1 DEF Base
    <3> QED BY <1>3, <2>1, <3>1, <3>2
  <2>2. CASE stage' \in {"refused", "embed"}
    BY <1>1, <2>2
  <2> QED BY <1>5, <2>1, <2>2 DEF Begin
<1>6. CASE Embed
  BY <1>1, <1>6 DEF Embed
<1>7. CASE VectorSearch
  <2>1. UNCHANGED <<nodes, who, changes, query>> /\ stage = "vector"
    BY <1>7 DEF VectorSearch
  <2>2. CASE stage' = "done" /\ UNCHANGED result
    BY <1>0, <1>1, <2>1, <2>2 DEF FindTypes
  <2>3. CASE FindWith({{F("uuid", "in", Relevant)}}, TRUE)
    <3>1. ranked' = TRUE
      BY <2>3 DEF FindWith
    <3>2. Relevant' = Relevant
      BY <2>1 DEF Relevant, Nearest, Neighbours, LookAt, ByScore
    <3>3. Base' = {{F("uuid", "in", Relevant)}}
      BY <3>1, <3>2 DEF Base
    <3> QED BY <1>3, <2>1, <2>3, <3>3
  <2> QED BY <1>7, <2>2, <2>3 DEF VectorSearch, Relevant
<1>8. CASE FallBack
  <2>1. UNCHANGED <<nodes, who, changes, query>> /\ FindWith(FiltersOf(query), FALSE) /\ ranked' = FALSE
    BY <1>8 DEF FallBack, FindWith
  <2>2. Base' = FiltersOf(query)
    BY <2>1 DEF Base
  <2> QED BY <1>3, <2>1, <2>2
<1>9. CASE SomeAnswered
  <2>1. PICK answered \in SUBSET pending : Resolve(answered)
    BY <1>9 DEF SomeAnswered
  <2>2. UNCHANGED <<nodes, who, changes, query, ranked, stage>> /\ stage = "resolve" /\ pending # {}
    BY <2>1 DEF Resolve
  <2>3. Base' = Base
    BY <2>2 DEF Base, Relevant, Nearest, Neighbours, LookAt, ByScore
  <2>4. ASSUME NEW u \in Uuids, Reached(u) PROVE Reached(u)'
    <3>1. groups \subseteq groups' /\ pending' = pending \ answered /\ nodes' = nodes
      BY <2>1 DEF Resolve
    <3>2. ASSUME NEW g \in groups, Satisfies(nodes[u], g) PROVE Reached(u)'
      BY <3>1, <3>2 DEF Reached, Satisfies
    <3>3. ASSUME NEW g \in answered, FitsGroup(nodes, g, nodes[u]) PROVE Reached(u)'
      <4>1. PICK h \in Resolved(g, Folders({Asked(g)})) : Satisfies(nodes[u], h)
        BY <1>0, <3>3, ResolvedReaches
      <4>2. h \in groups' /\ Satisfies(nodes'[u], h)
        BY <2>1, <3>1, <4>1 DEF Resolve
      <4> QED BY <4>2 DEF Reached, Satisfies
    <3>4. ASSUME NEW g \in pending', FitsGroup(nodes, g, nodes[u]) PROVE Reached(u)'
      <4>1. FitsGroup(nodes, g, nodes[u])'
        BY <3>1, <3>4 DEF FitsGroup, ParentOfNode
      <4> QED BY <4>1 DEF Reached
    <3> QED BY <2>2, <2>4, <3>1, <3>2, <3>3, <3>4 DEF Reached
  <2>5. SearchReaches'
    <3>1. ASSUME changes = 0, NEW u \in Uuids, MayBeShown(u)', Fits(nodes, Base, nodes[u])' PROVE Reached(u)'
      <4>1. Fits(nodes, Base, nodes[u])
        BY <2>2, <2>3, <3>1 DEF Fits, FitsGroup, ParentOfNode
      <4>2. MayBeShown(u)
        BY <1>2, <2>2, <3>1
      <4> QED BY <1>0, <2>2, <2>4, <3>1, <4>1, <4>2 DEF SearchReaches
    <3> QED BY <2>2, <3>1 DEF SearchReaches
  <2> QED BY <2>2, <2>5 DEF ReadableIsFound, BestFirst
<1>10. CASE Answer
  <2> DEFINE seq == InOrder(Matching(groups))
  <2>1. UNCHANGED <<nodes, who, changes, query, ranked, groups>> /\ stage' = "done" /\ stage = "resolve"
    BY <1>10 DEF Answer
  <2>2. /\ seq \in Seq(Uuids) /\ result' \in Seq(Uuids)
        /\ \A u \in Matching(groups) : \E i \in 1..Len(seq) : seq[i] = u
        /\ \A i, j \in 1..Len(seq) : i < j => Precedes(seq[i], seq[j])
        /\ query.token = 1 => \A i \in 1..Len(result') : i \in 1..Len(seq) /\ result'[i] = seq[i]
        /\ query.token = 1 => Len(result') = IF query.size < Len(seq) THEN query.size ELSE Len(seq)
        /\ \A i \in 1..Len(result') : /\ (query.token - 1) * query.size + i \in 1..Len(seq)
                                      /\ result'[i] = seq[(query.token - 1) * query.size + i]
        /\ InTheOrder(Matching(groups), seq)
    <3>1. InTheOrder(Matching(groups), seq) /\ IsPage(Uuids, seq, query.size, query.token, result')
      BY <1>0, <1>10, AnswerIs
    <3>2. Matching(groups) \subseteq Uuids
      BY DEF Matching
    <3> HIDE DEF seq
    <3> QED BY <3>1, <3>2 DEF InTheOrder, IsPage
  <2> HIDE DEF seq
  <2>3. Len(seq) \in Nat /\ Len(result') \in Nat /\ query.size \in Nat /\ query.token \in Nat
    BY <1>0, <2>2, FindAssumption DEF FindTypes
  <2>4. changes = 0 => \A u \in Uuids : MayBeShown(u) /\ Fits(nodes, Base, nodes[u]) => u \in Matching(groups)
    BY <1>0, <1>10, AnswerReaches
  <2>5. ReadableIsFound'
    <3> SUFFICES ASSUME changes = 0, query.kind # "semantic", query.token = 1, NEW u \in Uuids,
                        MayBeShown(u), Fits(nodes, FiltersOf(query), nodes[u]), Len(result') < query.size
                 PROVE  u \in ToSet(result')
      <4>1. \A v \in Uuids : Readable(nodes, nodes[v])' /\ ~GrantedToOtherGroup(nodes, nodes[v])' => MayBeShown(v)
        BY <1>2, <2>1 DEF MayBeShown
      <4>2. \A v \in Uuids : Fits(nodes, FiltersOf(query), nodes[v])' => Fits(nodes, FiltersOf(query), nodes[v])
        BY <2>1 DEF Fits, FitsGroup, ParentOfNode
      <4> QED BY <2>1, <4>1, <4>2 DEF ReadableIsFound
    <3>1. Base = FiltersOf(query)
      BY <1>0 DEF FindTypes, Base
    <3>2. u \in Matching(groups)
      BY <2>4, <3>1
    <3>3. PICK i \in 1..Len(seq) : seq[i] = u
      BY <2>2, <3>2
    <3>4. Len(result') = Len(seq)
      BY <2>2, <2>3
    <3>5. i \in 1..Len(result') /\ result'[i] = u
      BY <2>2, <3>3, <3>4
    <3> QED BY <2>2, <3>5 DEF ToSet
  <2>6. BestFirst'
    <3> SUFFICES ASSUME ranked, changes = 0, NEW i \in 1..Len(result'), NEW u \in Uuids, MayBeShown(u),
                        u \in Neighbours(TopK), query.score[u] >= Threshold, ByScore(u, result'[i])
                 PROVE  \/ \E j \in 1..i : result'[j] = u
                        \/ \E t \in 1..(query.token - 1) : u \in PageOf(t)
      <4>1. \A v \in Uuids : Readable(nodes, nodes[v])' /\ ~GrantedToOtherGroup(nodes, nodes[v])' => MayBeShown(v)
        BY <1>2, <2>1 DEF MayBeShown
      <4>2. Neighbours(TopK)' = Neighbours(TopK) /\ Neighbours(TopK) \subseteq Uuids
        BY <2>1 DEF Neighbours, ByScore
      <4>3. \A a, b : ByScore(a, b)' <=> ByScore(a, b)
        BY <2>1 DEF ByScore
      <4>4. DOMAIN result' = 1..Len(result')
        BY <2>2
      <4>5. \A t : PageOf(t)' = PageOf(t)
        BY <2>1 DEF PageOf, Matching, Neighbours, LookAt, ByScore
      <4> HIDE DEF MayBeShown
      <4> QED BY <2>1, <4>1, <4>2, <4>3, <4>4, <4>5 DEF BestFirst
    <3>0. u \in Relevant
      BY <1>0, NeighboursAre, FindAssumption DEF FindTypes, Relevant, Nearest
    <3>1. Fits(nodes, Base, nodes[u])
      <4>1. "uuid" \in DOMAIN nodes[u] /\ nodes[u].uuid = u
        BY <1>0, HeldIsRecord DEF FindTypes
      <4>2. SatisfiesFilter(nodes[u], F("uuid", "in", Relevant)) /\ ~F("uuid", "in", Relevant).at
        <5>1. GetFieldValue(nodes[u], "uuid") = u
          BY <4>1 DEF GetFieldValue
        <5>2. ~F("uuid", "in", Relevant).at
          BY DEF F
        <5> QED BY <3>0, <5>1, <5>2, FilterOf, OpsMean
      <4>3. Base = {{F("uuid", "in", Relevant)}}
        BY DEF Base
      <4> QED BY <4>2, <4>3 DEF Fits, FitsGroup
    <3>2. PICK j \in 1..Len(seq) : seq[j] = u
      BY <2>2, <2>4, <3>1
    <3> DEFINE first == (query.token - 1) * query.size
    <3>3. first \in Nat /\ first + i \in 1..Len(seq) /\ result'[i] = seq[first + i]
      <4>1. query.token - 1 \in Nat /\ query.size \in Nat
        BY <1>0, FindAssumption DEF FindTypes
      <4>2. first \in Nat
        BY <4>1, Z3
      <4> QED BY <2>2, <4>2
    <3>4. Precedes(seq[j], seq[first + i])
      BY <3>2, <3>3 DEF Precedes
    <3>5. j < first + i
      <4>1. seq[first + i] \in Uuids /\ seq[j] \in Uuids
        BY <2>2, <3>3
      <4>2. ~(first + i < j)
        BY <1>0, <2>2, <3>3, <3>4, <4>1, PrecedesOrders
      <4>3. first + i # j
        BY <1>0, <3>4, <4>1, PrecedesOrders
      <4> QED BY <2>3, <3>3, <4>2, <4>3
    <3> HIDE DEF first
    <3>6. CASE j > first
      <4>1. j - first \in 1..i /\ j - first \in 1..Len(result') /\ first + (j - first) = j
        BY <2>3, <3>3, <3>5, <3>6
      <4>2. result'[j - first] = seq[first + (j - first)]
        BY <2>2, <4>1 DEF first
      <4> QED BY <3>2, <4>1, <4>2
    <3>7. CASE ~(j > first)
      <4>1. query.size \in Nat \ {0} /\ query.token \in Nat \ {0} /\ j \in Nat \ {0}
        BY <1>0, <2>3, FindAssumption DEF FindTypes
      <4>2. PICK t \in Nat \ {0} : (t - 1) * query.size < j /\ j <= t * query.size
        BY <4>1, PageOfPlace
      <4>3. t < query.token
        <5> SUFFICES ASSUME query.token - 1 <= t - 1 PROVE FALSE
          BY <4>1
        <5>1. query.token - 1 \in Nat /\ t - 1 \in Nat
          BY <4>1
        <5>2. (t - 1) * query.size \in Nat /\ first <= (t - 1) * query.size
          BY <4>1, <5>1, PagesGrow DEF first
        <5> QED BY <3>3, <3>7, <4>1, <4>2, <5>2
      <4>4. u \in PageOf(t)
        BY <1>0, <2>2, <3>2, <4>2, ShownAtItsPlace
      <4> QED BY <4>1, <4>3, <4>4
    <3> QED BY <3>6, <3>7
  <2> QED BY <2>1, <2>5, <2>6 DEF SearchReaches
<1>11. CASE Change
  <2>1. stage' # "done" /\ changes' # 0
    BY <1>0, <1>11 DEF Change, FindTypes
  <2> QED BY <2>1 DEF SearchReaches, ReadableIsFound, BestFirst
<1>12. CASE UNCHANGED vars
  <2>1. UNCHANGED <<nodes, seen, changes, who, query, stage, groups, pending, ranked, result>>
    BY <1>12 DEF vars
  <2>2. \A u \in Uuids : Reached(u)' <=> Reached(u)
    BY <2>1 DEF Reached, Satisfies, FitsGroup, ParentOfNode
  <2>3. Base' = Base
    BY <2>1 DEF Base, Relevant, Nearest, Neighbours, LookAt, ByScore
  <2>4. SearchReaches'
    <3>1. \A u \in Uuids : Fits(nodes, Base, nodes[u])' <=> Fits(nodes, Base, nodes[u])
      BY <2>1, <2>3 DEF Fits, FitsGroup, ParentOfNode
    <3> QED BY <1>0, <1>2, <2>1, <2>2, <3>1 DEF SearchReaches
  <2>5. ReadableIsFound' /\ BestFirst'
    <3>1. \A u \in Uuids : (Readable(nodes, nodes[u])' <=> Readable(nodes, nodes[u]))
                           /\ (GrantedToOtherGroup(nodes, nodes[u])' <=> GrantedToOtherGroup(nodes, nodes[u]))
      BY <2>1 DEF Readable, MayGet, GrantedToOtherGroup, FolderOf, ParentOfNode
    <3>2. \A u \in Uuids : Fits(nodes, FiltersOf(query), nodes[u])' <=> Fits(nodes, FiltersOf(query), nodes[u])
      BY <2>1 DEF Fits, FitsGroup, ParentOfNode
    <3>3. Nearest' = Nearest /\ (\A a, b : ByScore(a, b)' <=> ByScore(a, b)) /\ Nearest \subseteq Uuids
      BY <2>1 DEF Nearest, Neighbours, LookAt, ByScore
    <3>31. Neighbours(TopK)' = Neighbours(TopK) /\ Neighbours(TopK) \subseteq Uuids
      BY <2>1 DEF Neighbours, ByScore
    <3>32. \A t : PageOf(t)' = PageOf(t)
      BY <2>1 DEF PageOf, Matching, Neighbours, LookAt, ByScore
    <3>4. ReadableIsFound'
      BY <1>0, <2>1, <3>1, <3>2 DEF ReadableIsFound
    <3>5. BestFirst'
      BY <1>0, <2>1, <3>1, <3>3, <3>31, <3>32 DEF BestFirst
    <3> QED BY <3>4, <3>5
  <2> QED BY <2>4, <2>5
<1> QED BY <1>5, <1>6, <1>7, <1>8, <1>9, <1>10, <1>11, <1>12 DEF Next

LEMMA SearchesReach == Spec => []FindInv
<1>1. Init => FindInv
  BY TypesAtFirst DEF FindInv, SearchReaches, ReadableIsFound, BestFirst, Init
<1>2. FindInv /\ [Next]_vars => FindInv'
  BY TypesNext, SearchReachesNext DEF FindInv
<1> QED BY <1>1, <1>2, PTL DEF Spec

\* A search that nothing changes under finds all that may be read and is what
\* its filters ask for, those about the parent answered by the folders found.
THEOREM SearchesFindTheReadable == Spec => []ReadableIsFound
<1>1. FindInv => ReadableIsFound
  BY DEF FindInv
<1> QED BY <1>1, SearchesReach, PTL

\* And a page of a search by meaning, the first or a later one, shows no node while
\* a better one, readable and among the neighbours every page looks at, is on no page
\* up to it (#performSemanticSearch: ordered before it is cut).
THEOREM BestAreShownFirst == Spec => []BestFirst
<1>1. FindInv => BestFirst
  BY DEF FindInv
<1> QED BY <1>1, SearchesReach, PTL

----------------------------------------------------------------------------
(* The paths of WebDAV.                                                    *)

Paths == Seq(STRING)
Titles == {tree[k].title : k \in DOMAIN tree}

FoldersThere ==
    /\ DOMAIN tree \subseteq used /\ used \subseteq DavNodes
    /\ \A k \in DOMAIN tree : ParentOf(k) = DavRoot \/ ParentOf(k) \in DavFolders \cap DOMAIN tree

\* What a walk up from a node has seen, as long as nobody crossed it: the path
\* from where it is leads down to the node.
Sure(w, path) ==
    /\ w.node \in DOMAIN tree /\ tree[w.node].title = Last(path) /\ w.crumbs \in Seq(Titles)
    /\ (w.at = w.node /\ w.crumbs = <<>>) \/ Leads(w.at, Append(w.crumbs, Last(path)), w.node)

Resolving(q) ==
    /\ q.left \in Seq(Paths) /\ (q.at \in {"look", "verify", "find", "walk"} => q.left # <<>>)
    /\ q.at = "rename" => q.nodes[1] \in DavNodes \ DavFolders
    /\ q.at = "walk" => Head(q.left) # <<>>
    /\ q.at = "walk" /\ ~q.crossed => \A i \in DOMAIN q.walks : Sure(q.walks[i], Head(q.left))

Requests == \A c \in DavClients : \A q : q = dav[c] /\ q # NoRequest => Resolving(q)

DavInv ==
    /\ dav = [c \in DavClients |-> dav[c]] /\ FoldersThere
    /\ Requests
    /\ DOMAIN cache \subseteq Paths /\ CacheFollowsTree

LEMMA FrontIs == ASSUME NEW s \in Paths PROVE Front(s) \in Paths
<1>1. Len(s) \in Nat /\ \A i \in 1..Len(s) : s[i] \in STRING
  BY LenProperties DEF Paths
<1>2. \A i \in 1 .. Len(s) - 1 : s[i] \in STRING
  BY <1>1
<1> QED BY <1>1, <1>2, SubSeqProperties DEF Front, Paths

LEMMA FrontAndLast ==
  ASSUME NEW s \in Paths, s # <<>>
  PROVE  /\ Append(Front(s), Last(s)) = s
<1>1. Len(s) \in Nat \ {0} /\ \A i \in 1..Len(s) : s[i] \in STRING
  BY LenProperties, EmptySeq DEF Paths
<1>2. Front(s) \in Seq(STRING) /\ Len(Front(s)) = Len(s) - 1 /\ \A i \in 1 .. Len(s) - 1 : Front(s)[i] = s[i]
  <2> DEFINE k == Len(s) - 1
  <2>1. k \in Nat /\ k \in Int /\ 1 \in Int /\ \A i \in 1..k : s[i] \in STRING
    BY <1>1
  <2> HIDE DEF k
  <2>2. /\ SubSeq(s, 1, k) \in Seq(STRING) /\ Len(SubSeq(s, 1, k)) = IF 1 <= k THEN k - 1 + 1 ELSE 0
        /\ \A i \in 1 .. k - 1 + 1 : SubSeq(s, 1, k)[i] = s[1 + i - 1]
    BY <2>1, SubSeqProperties
  <2>3. Len(SubSeq(s, 1, k)) = k /\ \A i \in 1..k : SubSeq(s, 1, k)[i] = s[i]
    BY <2>1, <2>2
  <2> QED BY <2>2, <2>3 DEF Front, k
<1>3. Last(s) = s[Len(s)] /\ Last(s) \in STRING
  BY <1>1 DEF Last
<1>4. Append(Front(s), Last(s)) \in Seq(STRING) /\ Len(Append(Front(s), Last(s))) = Len(s)
      /\ \A i \in 1..Len(s) : Append(Front(s), Last(s))[i] = s[i]
  <2> DEFINE f == Front(s)
             e == Last(s)
  <2>1. f \in Seq(STRING) /\ Len(f) = Len(s) - 1 /\ \A i \in 1 .. Len(s) - 1 : f[i] = s[i]
    BY <1>2
  <2>2. e = s[Len(s)] /\ e \in STRING
    BY <1>3
  <2> HIDE DEF f, e
  <2>3. /\ Append(f, e) \in Seq(STRING) /\ Len(Append(f, e)) = Len(f) + 1
        /\ \A i \in 1..Len(f) : Append(f, e)[i] = f[i]
        /\ Append(f, e)[Len(f) + 1] = e
    BY <2>1, <2>2, AppendProperties
  <2>4. Append(f, e)[Len(s)] = s[Len(s)]
    <3>1. Len(f) + 1 = Len(s)
      BY <1>1, <2>1
    <3> QED BY <2>2, <2>3, <3>1
  <2>5. \A i \in 1 .. Len(s) - 1 : Append(f, e)[i] = s[i]
    BY <1>1, <2>1, <2>3
  <2>6. \A i \in 1..Len(s) : Append(f, e)[i] = s[i]
    <3>1. \A i \in 1..Len(s) : i \in 1 .. Len(s) - 1 \/ i = Len(s)
      BY <1>1
    <3> QED BY <2>4, <2>5, <3>1
  <2>7. Len(Append(f, e)) = Len(s)
    BY <1>1, <2>1, <2>3
  <2> QED BY <2>3, <2>6, <2>7 DEF f, e
<1> QED BY <1>4, SeqEqual DEF Paths

\* A line of nodes on record is one still when none of them has changed.
LEMMA LineStays ==
  ASSUME NEW path \in Paths, NEW line \in Lines(DavRoot, path),
         \A i \in 1..Len(path) : line[i] \in DOMAIN tree' /\ tree'[line[i]] = tree[line[i]]
  PROVE  line \in Lines(DavRoot, path)'
<1>1. line \in [1..Len(path) -> DOMAIN tree] /\ Line(DavRoot, path, line)
  BY DEF Lines
<1>2. line \in [1..Len(path) -> DOMAIN tree']
  BY <1>1
<1>3. Line(DavRoot, path, line)'
  BY <1>1 DEF Line, ParentOf
<1> QED BY <1>2, <1>3 DEF Lines

\* One more folder up.
LEMMA HigherLeads ==
  ASSUME NEW crumbs, NEW title, NEW n, NEW at \in DOMAIN tree, NEW S,
         crumbs \in Seq(S), title \in S, tree[at].title \in S,
         Leads(at, Append(crumbs, title), n)
  PROVE  Leads(ParentOf(at), Append(<<tree[at].title>> \o crumbs, title), n)
<1> DEFINE long == Append(crumbs, title)
           higher == <<tree[at].title>> \o crumbs
           path == Append(higher, title)
           k == Len(crumbs)
<1>1. PICK line \in [1..Len(long) -> DOMAIN tree] : Line(at, long, line) /\ line[Len(long)] = n
  BY DEF Leads, Lines
<1>2. k \in Nat /\ long \in Seq(S) /\ Len(long) = k + 1 /\ long[k + 1] = title /\ \A i \in 1..k : long[i] = crumbs[i]
  BY AppendProperties, LenProperties
<1>3. /\ higher \in Seq(S) /\ Len(higher) = k + 1 /\ higher[1] = tree[at].title
      /\ \A i \in 1..k : higher[i + 1] = crumbs[i]
  <2> DEFINE one == <<tree[at].title>>
  <2>1. one \in Seq(S) /\ Len(one) = 1 /\ one[1] = tree[at].title
    OBVIOUS
  <2> HIDE DEF one
  <2>2. /\ one \o crumbs \in Seq(S) /\ Len(one \o crumbs) = 1 + k
        /\ \A i \in 1 .. 1 + k : (one \o crumbs)[i] = IF i <= 1 THEN one[i] ELSE crumbs[i - 1]
    BY <2>1, ConcatProperties
  <2>3. (one \o crumbs)[1] = one[1] /\ \A i \in 1..k : (one \o crumbs)[i + 1] = crumbs[i]
    BY <1>2, <2>2
  <2> QED BY <1>2, <2>1, <2>2, <2>3 DEF one
<1> HIDE DEF higher
<1>4. /\ path \in Seq(S) /\ Len(path) = k + 2 /\ path[k + 2] = title /\ path[1] = tree[at].title
      /\ \A i \in 1..k : path[i + 1] = crumbs[i]
  <2>1. /\ path \in Seq(S) /\ Len(path) = Len(higher) + 1 /\ path[Len(higher) + 1] = title
        /\ \A i \in 1..Len(higher) : path[i] = higher[i]
    BY <1>3, AppendProperties
  <2> HIDE DEF path
  <2> QED BY <1>2, <1>3, <2>1
<1> HIDE DEF path
<1>5. \A i \in 1 .. k + 1 : path[i + 1] = long[i]
  <2> HIDE DEF long, k
  <2>1. \A i \in 1 .. k + 1 : i \in 1..k \/ i = k + 1
    BY <1>2
  <2>2. path[k + 2] = long[k + 1] /\ (k + 1) + 1 = k + 2
    BY <1>2, <1>4
  <2> QED BY <1>2, <1>4, <2>1, <2>2
<1> HIDE DEF long
<1> DEFINE up == [i \in 1 .. k + 2 |-> IF i = 1 THEN at ELSE line[i - 1]]
<1> HIDE DEF k
<1>6. up \in [1..Len(path) -> DOMAIN tree] /\ up[1] = at /\ up[k + 2] = n
      /\ \A i \in 1 .. k + 1 : up[i + 1] = line[i]
  BY <1>1, <1>2, <1>4
<1>7. ASSUME NEW i \in 1 .. k + 2
      PROVE  tree[up[i]].title = path[i] /\ ParentOf(up[i]) = IF i = 1 THEN ParentOf(at) ELSE up[i - 1]
  <2>1. CASE i = 1
    BY <1>4, <1>6, <2>1
  <2>2. CASE i # 1
    <3>1. i - 1 \in 1 .. k + 1 /\ (i - 1) + 1 = i /\ (i - 1 = 1 <=> i = 2)
      BY <1>2, <2>2
    <3>2. up[i] = line[i - 1] /\ path[i] = long[i - 1]
      BY <1>5, <1>6, <3>1
    <3>3. tree[line[i - 1]].title = long[i - 1] /\ ParentOf(line[i - 1]) = IF i - 1 = 1 THEN at ELSE line[(i - 1) - 1]
      BY <1>1, <1>2, <3>1 DEF Line
    <3>4. up[i - 1] = IF i - 1 = 1 THEN at ELSE line[(i - 1) - 1]
      <4>1. CASE i = 2
        BY <1>6, <3>1, <4>1
      <4>2. CASE i # 2
        BY <1>2, <2>2, <4>2 DEF up
      <4> QED BY <4>1, <4>2
    <3> QED BY <2>2, <3>2, <3>3, <3>4
  <2> QED BY <2>1, <2>2
<1> HIDE DEF up
<1>8. Line(ParentOf(at), path, up)
  BY <1>4, <1>7 DEF Line
<1> QED BY <1>4, <1>6, <1>8 DEF Leads, Lines, path, higher

\* The node alone, in its folder.
LEMMA FolderLeads ==
  ASSUME NEW n \in DOMAIN tree
  PROVE  Leads(ParentOf(n), Append(<<>>, tree[n].title), n)
<1> DEFINE path == <<tree[n].title>>
           line == [i \in 1..1 |-> n]
<1>1. Append(<<>>, tree[n].title) = path /\ Len(path) = 1 /\ path[1] = tree[n].title
  OBVIOUS
<1>2. line \in [1..1 -> DOMAIN tree] /\ \A i \in 1..1 : i = 1 /\ line[i] = n
  OBVIOUS
<1> HIDE DEF path, line
<1>3. line \in Lines(ParentOf(n), path) /\ line[Len(path)] = n
  BY <1>1, <1>2 DEF Lines, Line
<1> QED BY <1>1, <1>3 DEF Leads

LEMMA StepIsSure ==
  ASSUME FoldersThere, NEW w, NEW path, Sure(w, path), w.at # DavRoot
  PROVE  Sure(Step(w), path)
<1>1. /\ w.node \in DOMAIN tree /\ tree[w.node].title = Last(path) /\ w.crumbs \in Seq(Titles)
      /\ (w.at = w.node /\ w.crumbs = <<>>) \/ Leads(w.at, Append(w.crumbs, Last(path)), w.node)
  BY DEF Sure
<1>2. Last(path) \in Titles
  BY <1>1 DEF Titles
<1>3. w.at \in DOMAIN tree
  <2>1. CASE Leads(w.at, Append(w.crumbs, Last(path)), w.node)
    <3> DEFINE long == Append(w.crumbs, Last(path))
    <3>1. Len(long) \in Nat \ {0}
      BY <1>1, <1>2, AppendProperties, EmptySeq
    <3>2. PICK line \in [1..Len(long) -> DOMAIN tree] : Line(w.at, long, line)
      BY <2>1 DEF Leads, Lines
    <3> HIDE DEF long
    <3>3. 1 \in 1..Len(long)
      BY <3>1
    <3>4. line[1] \in DOMAIN tree /\ ParentOf(line[1]) = w.at
      BY <3>2, <3>3 DEF Line
    <3> QED BY <3>4 DEF FoldersThere
  <2> QED BY <1>1, <2>1
<1>4. Step(w) = Crumbs(w.node, ParentOf(w.at), IF w.at = w.node THEN <<>> ELSE <<tree[w.at].title>> \o w.crumbs, w.ok)
  BY <1>3 DEF Step, Exists
<1> DEFINE v == Step(w)
<1>5. v.node = w.node /\ v.at = ParentOf(w.at)
      /\ v.crumbs = IF w.at = w.node THEN <<>> ELSE <<tree[w.at].title>> \o w.crumbs
  BY <1>4 DEF Crumbs
<1> HIDE DEF v
<1>6. CASE w.at = w.node
  <2>1. v.crumbs = <<>> /\ <<>> \in Seq(Titles)
    BY <1>5, <1>6, EmptySeq
  <2>2. Leads(v.at, Append(v.crumbs, Last(path)), v.node)
    BY <1>1, <1>5, <1>6, <2>1, FolderLeads
  <2> QED BY <1>1, <1>5, <2>1, <2>2 DEF Sure, v
<1>7. CASE w.at # w.node
  <2>1. tree[w.at].title \in Titles
    BY <1>3 DEF Titles
  <2>2. v.crumbs \in Seq(Titles)
    <3>1. <<tree[w.at].title>> \in Seq(Titles)
      BY <2>1
    <3> QED BY <1>1, <1>5, <1>7, <3>1, ConcatProperties
  <2>3. Leads(v.at, Append(v.crumbs, Last(path)), v.node)
    BY <1>1, <1>2, <1>3, <1>5, <1>7, <2>1, HigherLeads
  <2> QED BY <1>1, <1>5, <2>2, <2>3 DEF Sure, v
<1> QED BY <1>6, <1>7

\* At the top the crumbs are the path.
LEMMA EndedIsAt ==
  ASSUME FoldersThere, NEW w, NEW path \in Paths, path # <<>>, Sure(w, path), Ended(w), w.crumbs = Front(path)
  PROVE  IsAt(w.node, path)
<1>1. w.at = DavRoot /\ w.node \in DOMAIN tree
  BY DEF Ended, Sure
<1>2. w.node # DavRoot
  BY <1>1, DavAssumption DEF FoldersThere
<1>3. Leads(DavRoot, Append(Front(path), Last(path)), w.node)
  BY <1>1, <1>2 DEF Sure
<1> QED BY <1>3, FrontAndLast DEF IsAt

----------------------------------------------------------------------------

\* What the operations of the cache leave of it: of other paths what was there.
SameAt(p) == p \in DOMAIN cache /\ cache'[p].node = cache[p].node /\ cache'[p].shaken = cache[p].shaken

LEMMA KeptIs ==
  ASSUME NEW paths
  PROVE  DOMAIN Kept(paths) = paths
         /\ \A p \in paths : Kept(paths)[p].node = cache[p].node /\ Kept(paths)[p].shaken = cache[p].shaken
BY DEF Kept, CacheEntry

LEMMA StoredIs ==
  ASSUME NEW path, NEW n, NEW shaken, cache' = Stored(path, n, shaken), NEW p \in DOMAIN cache'
  PROVE  \/ p = path /\ cache'[p].node = n /\ cache'[p].shaken = shaken
         \/ SameAt(p)
<1>1. PICK room \in SUBSET DOMAIN cache : cache' = Accessed(room, path, n, shaken)
  BY DEF Stored
<1>2. p \in DOMAIN Kept(room \ {path}) \cup {path}
  BY <1>1 DEF Accessed
<1>3. CASE p = path
  BY <1>1, <1>3 DEF Accessed, CacheEntry
<1>4. CASE p # path
  <2>1. p \in room \ {path} /\ cache'[p] = Kept(room \ {path})[p]
    BY <1>1, <1>2, <1>4, KeptIs DEF Accessed
  <2> QED BY <1>1, <2>1, KeptIs DEF SameAt
<1> QED BY <1>3, <1>4

LEMMA TouchedIs ==
  ASSUME NEW path \in DOMAIN cache, cache' = Touched(path), NEW p \in DOMAIN cache'
  PROVE  SameAt(p)
<1>1. cache' = Accessed(DOMAIN cache, path, cache[path].node, cache[path].shaken)
  BY DEF Touched
<1>2. p \in DOMAIN Kept(DOMAIN cache \ {path}) \cup {path}
  BY <1>1 DEF Accessed
<1>3. CASE p = path
  BY <1>1, <1>3 DEF Accessed, CacheEntry, SameAt
<1>4. CASE p # path
  <2>1. p \in DOMAIN cache \ {path} /\ cache'[p] = Kept(DOMAIN cache \ {path})[p]
    BY <1>1, <1>2, <1>4, KeptIs DEF Accessed
  <2> QED BY <2>1, KeptIs DEF SameAt
<1> QED BY <1>3, <1>4

LEMMA WithoutIs ==
  ASSUME NEW path, cache' = Without(path), NEW p \in DOMAIN cache'
  PROVE  SameAt(p)
BY KeptIs DEF Without, SameAt

\* As long as the tree stays, an entry that stays or is right keeps the cache right.
LEMMA CacheStays ==
  ASSUME CacheFollowsTree, tree' = tree, announced \subseteq announced',
         \A p \in DOMAIN cache' : SameAt(p) \/ cache'[p].shaken \/ IsAt(cache'[p].node, p)
  PROVE  CacheFollowsTree'
<1>1. \A n, p : IsAt(n, p)' <=> IsAt(n, p)
  BY DEF IsAt, Leads, Lines, Line, ParentOf
<1> SUFFICES ASSUME NEW p \in DOMAIN cache'
             PROVE  cache'[p].shaken \/ (\E event \in announced' : cache'[p].node \in event) \/ IsAt(cache'[p].node, p)
  BY <1>1 DEF CacheFollowsTree
<1> QED BY DEF CacheFollowsTree, SameAt

\* A change of one node, who is told or new, and whose entries below are shaken.
LEMMA ChangeKeepsCache ==
  ASSUME DavInv, NEW n, NEW event, announced' = announced \cup {event},
         n \in event \/ n \notin DOMAIN tree,
         \A k \in DOMAIN tree \ {n} : k \in DOMAIN tree' /\ tree'[k] = tree[k],
         DOMAIN cache' = DOMAIN cache,
         \A p \in DOMAIN cache : /\ cache'[p].node = cache[p].node
                                 /\ cache[p].shaken => cache'[p].shaken
                                 /\ Passes(p, cache[p].node, n) => cache'[p].shaken
  PROVE  CacheFollowsTree'
<1> SUFFICES ASSUME NEW p \in DOMAIN cache, NEW m, m = cache[p].node, ~cache'[p].shaken,
                    \A e \in announced' : m \notin e
             PROVE  IsAt(m, p)'
  <2>1. ASSUME NEW p \in DOMAIN cache', ~cache'[p].shaken, \A e \in announced' : cache'[p].node \notin e
        PROVE  IsAt(cache[p].node, p)'
    <3>1. PICK x : x = cache[p].node
      OBVIOUS
    <3>2. p \in DOMAIN cache /\ cache'[p].node = x
      BY <2>1, <3>1
    <3>3. IsAt(x, p)'
      BY <2>1, <3>1, <3>2
    <3> QED BY <3>2, <3>3 DEF IsAt, Leads, Lines, Line, ParentOf
  <2> QED BY <2>1 DEF CacheFollowsTree
<1>1. IsAt(m, p) /\ ~Passes(p, m, n) /\ m \notin event /\ p \in Paths
  BY DEF DavInv, CacheFollowsTree
<1>2. CASE p = <<>>
  BY <1>1, <1>2 DEF IsAt
<1>3. CASE p # <<>>
  <2>1. PICK line \in Lines(DavRoot, p) : line[Len(p)] = m
    BY <1>1, <1>3 DEF IsAt, Leads
  <2>2. Len(p) \in Nat \ {0}
    BY <1>1, <1>3, EmptySeq DEF Paths
  <2>3. line \in [1..Len(p) -> DOMAIN tree]
    BY DEF Lines
  <2>4. ASSUME NEW i \in 1..Len(p) PROVE line[i] # n
    <3>1. CASE i = Len(p)
      BY <1>1, <2>1, <2>3, <3>1
    <3>2. CASE i # Len(p)
      <4>1. i \in 1 .. Len(p) - 1
        BY <2>2, <3>2
      <4> QED BY <1>1, <2>1, <4>1 DEF Passes
    <3> QED BY <3>1, <3>2
  <2>5. \A i \in 1..Len(p) : line[i] \in DOMAIN tree' /\ tree'[line[i]] = tree[line[i]]
    BY <2>3, <2>4
  <2>6. line \in Lines(DavRoot, p)'
    BY <1>1, <2>5, LineStays
  <2> QED BY <1>1, <1>3, <2>1, <2>6 DEF IsAt, Leads
<1> QED BY <1>2, <1>3

----------------------------------------------------------------------------

\* One request goes on, and the tree stays.
LEMMA RequestsStay ==
  ASSUME DavInv, UNCHANGED <<tree, used>>, NEW c \in DavClients, NEW r, dav' = [dav EXCEPT ![c] = r],
         r = NoRequest \/ Resolving(r)
  PROVE  dav' = [d \in DavClients |-> dav'[d]] /\ FoldersThere' /\ Requests'
<1>1. dav = [d \in DavClients |-> dav[d]] /\ FoldersThere
  BY DEF DavInv
<1>2. dav' = [d \in DavClients |-> IF d = c THEN r ELSE dav[d]]
  BY <1>1
<1>3. dav' = [d \in DavClients |-> dav'[d]]
  BY <1>2
<1>4. FoldersThere'
  BY <1>1 DEF FoldersThere, ParentOf
<1>5. ASSUME NEW q PROVE Resolving(q)' <=> Resolving(q)
  BY DEF Resolving, Sure, Titles, Leads, Lines, Line, ParentOf
<1>6. ASSUME NEW d \in DavClients, NEW q, q = dav'[d], q # NoRequest PROVE Resolving(q)'
  <2>1. CASE d = c
    BY <1>2, <1>5, <1>6, <2>1
  <2>2. CASE d # c
    BY <1>2, <1>5, <1>6, <2>2 DEF DavInv, Requests
  <2> QED BY <2>1, <2>2
<1>7. Requests'
  BY <1>6 DEF Requests
<1> QED BY <1>3, <1>4, <1>7

\* A change of the tree crosses all the others.
LEMMA CrossedStay ==
  ASSUME DavInv, NEW c \in DavClients, NEW r, dav' = [Crossed(c) EXCEPT ![c] = r],
         r = NoRequest \/ (r.left = <<>> /\ r.at = "rename" /\ r.nodes[1] \in DavNodes \ DavFolders)
  PROVE  dav' = [d \in DavClients |-> dav'[d]] /\ Requests'
<1>1. dav' = [d \in DavClients |-> IF d = c THEN r ELSE Crossed(c)[d]]
  BY DEF Crossed
<1>2. ASSUME NEW d \in DavClients, NEW q, q = dav'[d], q # NoRequest PROVE Resolving(q)'
  <2>1. CASE d = c
    <3>1. q = r
      BY <1>1, <1>2, <2>1
    <3>2. q.left \in Seq(Paths)
      BY <1>2, <3>1, EmptySeq
    <3> QED BY <1>2, <3>1, <3>2 DEF Resolving
  <2>2. CASE d # c
    <3>1. q = Crossed(c)[d]
      BY <1>1, <1>2, <2>2
    <3>2. dav[d] # NoRequest
      BY <1>2, <2>2, <3>1 DEF Crossed
    <3>3. q = Request(dav[d].ask, dav[d].at, dav[d].left, dav[d].nodes, dav[d].walks, TRUE)
      BY <2>2, <3>1, <3>2 DEF Crossed
    <3>4. Resolving(dav[d])
      BY <3>2 DEF DavInv, Requests
    <3>5. q.at = dav[d].at /\ q.left = dav[d].left /\ q.nodes = dav[d].nodes /\ q.crossed
      BY <3>3 DEF Request
    <3> QED BY <3>4, <3>5 DEF Resolving
  <2> QED BY <2>1, <2>2
<1>3. Requests'
  BY <1>2 DEF Requests
<1>4. dav' = [d \in DavClients |-> dav'[d]]
  BY <1>1
<1> QED BY <1>3, <1>4

LEMMA AskKeeps ==
  ASSUME DavInv, NEW c \in DavClients, NEW r \in DavRequests[c], Ask(c, r)
  PROVE  DavInv'
<1> DEFINE q == Request(r, "look", ToResolve(r), <<>>, <<>>, FALSE)
<1>1. r.path \in Paths /\ r.to \in Paths
  BY DavAssumption DEF Paths
<1>2. ToResolve(r) \in Seq(Paths) /\ ToResolve(r) # <<>>
  <2>1. ParentPath(r.path) \in Paths /\ ParentPath(r.to) \in Paths
    BY <1>1, FrontIs DEF ParentPath
  <2> QED BY <1>1, <2>1 DEF ToResolve
<1>3. q.at = "look" /\ q.left = ToResolve(r)
  BY DEF Request
<1>4. dav' = [dav EXCEPT ![c] = q] /\ UNCHANGED <<tree, used, cache, announced>>
  BY DEF Ask
<1> HIDE DEF q
<1>5. Resolving(q)
  BY <1>2, <1>3 DEF Resolving
<1>6. dav' = [d \in DavClients |-> dav'[d]] /\ FoldersThere' /\ Requests'
  BY <1>4, <1>5, RequestsStay
<1>7. CacheFollowsTree' /\ DOMAIN cache' \subseteq Paths
  BY <1>4, CacheStays DEF DavInv, SameAt
<1> QED BY <1>6, <1>7 DEF DavInv

AtWork(c) == dav[c] # NoRequest /\ dav[c].at \in {"look", "verify", "find", "walk"}

LEMMA LeftIs ==
  ASSUME DavInv, NEW c \in DavClients, AtWork(c)
  PROVE  /\ Resolving(dav[c]) /\ dav[c].left \in Seq(Paths) /\ dav[c].left # <<>>
         /\ Head(dav[c].left) \in Paths
<1>1. Resolving(dav[c])
  BY DEF DavInv, Requests, AtWork
<1>2. dav[c].left \in Seq(Paths) /\ dav[c].left # <<>>
  BY <1>1 DEF Resolving, AtWork
<1> QED BY <1>1, <1>2, HeadTailProperties

\* A resolution goes on, without walks or with such as are sure.
LEMMA GotoKeeps ==
  ASSUME DavInv, NEW c \in DavClients, AtWork(c), NEW at \in {"find", "verify", "walk"}, NEW walks, Goto(c, at, walks),
         UNCHANGED <<tree, used>>,
         at = "walk" => /\ Head(dav[c].left) # <<>>
                        /\ ~dav[c].crossed => \A i \in DOMAIN walks : Sure(walks[i], Head(dav[c].left))
  PROVE  dav' = [d \in DavClients |-> dav'[d]] /\ FoldersThere' /\ Requests'
<1> DEFINE q == dav[c]
           r == Request(q.ask, at, q.left, q.nodes, walks, q.crossed)
<1>1. dav' = [dav EXCEPT ![c] = r]
  BY DEF Goto
<1>2. r.at = at /\ r.left = q.left /\ r.walks = walks /\ r.crossed = q.crossed
  BY DEF Request
<1>3. q.left \in Seq(Paths) /\ q.left # <<>>
  BY LeftIs
<1> HIDE DEF r, q
<1>4. Resolving(r)
  BY <1>2, <1>3 DEF Resolving, q
<1> QED BY <1>1, <1>4, RequestsStay

LEMMA SettledKeeps ==
  ASSUME DavInv, NEW c \in DavClients, AtWork(c), NEW n, Settled(c, n), UNCHANGED <<tree, used>>
  PROVE  dav' = [d \in DavClients |-> dav'[d]] /\ FoldersThere' /\ Requests'
<1> DEFINE q == dav[c]
           at == IF Len(q.left) = 1 THEN "act" ELSE "look"
           r == Request(q.ask, at, Tail(q.left), Append(q.nodes, n), <<>>, FALSE)
<1>1. dav' = [dav EXCEPT ![c] = r]
  BY DEF Settled
<1>2. r.at = at /\ r.left = Tail(q.left)
  BY DEF Request
<1>3. q.left \in Seq(Paths) /\ q.left # <<>>
  BY LeftIs
<1> HIDE DEF r, q
<1>4. r.left \in Seq(Paths) /\ (r.at = "look" => r.left # <<>>) /\ r.at \in {"act", "look"}
  <2>1. /\ Tail(q.left) \in Seq(Paths) /\ Len(Tail(q.left)) = Len(q.left) - 1
        /\ Len(q.left) \in Nat \ {0}
    <3>1. Tail(q.left) \in Seq(Paths) /\ Len(Tail(q.left)) = Len(q.left) - 1
      BY <1>3, HeadTailProperties
    <3>2. Len(q.left) \in Nat \ {0}
      BY <1>3, EmptySeq
    <3> QED BY ONLY <3>1, <3>2, Zenon
  <2>2. Len(q.left) # 1 => Tail(q.left) # <<>>
    <3> DEFINE rest == Tail(q.left)
               k == Len(q.left)
    <3>1. rest \in Seq(Paths) /\ Len(rest) = k - 1 /\ k \in Nat \ {0}
      BY <2>1
    <3> HIDE DEF rest, k
    <3>2. rest = <<>> => Len(rest) = 0
      BY <3>1, EmptySeq
    <3>3. k # 1 => rest # <<>>
      BY <3>1, <3>2
    <3> QED BY <3>3 DEF rest, k
  <2> QED BY <1>2, <2>1, <2>2
<1>5. Resolving(r)
  BY <1>4 DEF Resolving
<1> QED BY <1>1, <1>5, RequestsStay

LEMMA UnresolvedKeeps ==
  ASSUME DavInv, NEW c \in DavClients, AtWork(c), Unresolved(c), UNCHANGED <<tree, used>>
  PROVE  dav' = [d \in DavClients |-> dav'[d]] /\ FoldersThere' /\ Requests'
<1>1. CASE Settled(c, NoNode)
  BY <1>1, SettledKeeps
<1>2. CASE dav' = [dav EXCEPT ![c] = NoRequest]
  BY <1>2, RequestsStay
<1> QED BY <1>1, <1>2 DEF Unresolved

LEMMA CacheKeeps ==
  ASSUME DavInv, UNCHANGED <<tree, announced>>, NEW path \in Paths,
         \A p \in DOMAIN cache' :
            SameAt(p) \/ (p = path /\ (cache'[p].shaken \/ IsAt(cache'[p].node, p)))
  PROVE  CacheFollowsTree' /\ DOMAIN cache' \subseteq Paths
<1>1. DOMAIN cache' \subseteq Paths
  BY DEF DavInv, SameAt
<1>2. CacheFollowsTree'
  BY CacheStays DEF DavInv
<1> QED BY <1>1, <1>2

LEMMA LookKeeps ==
  ASSUME DavInv, NEW c \in DavClients, Look(c)
  PROVE  DavInv'
<1> DEFINE path == Head(dav[c].left)
<1>1. AtWork(c) /\ UNCHANGED <<tree, used, announced>>
  BY DEF Look, AtWork
<1>2. path \in Paths
  BY <1>1, LeftIs
<1>3. dav' = [d \in DavClients |-> dav'[d]] /\ FoldersThere' /\ Requests'
  <2>1. \E at \in {"find", "verify"} : \E walks : Goto(c, at, walks)
    BY DEF Look
  <2> QED BY <1>1, <2>1, GotoKeeps
<1>4. \A p \in DOMAIN cache' : SameAt(p)
  <2>1. cache' = cache \/ cache' = Without(path) \/ (path \in DOMAIN cache /\ cache' = Touched(path))
    BY DEF Look
  <2>2. cache' = cache => \A p \in DOMAIN cache' : SameAt(p)
    BY DEF SameAt
  <2> HIDE DEF path
  <2> QED BY <2>1, <2>2, WithoutIs, TouchedIs
<1> HIDE DEF path
<1>5. CacheFollowsTree' /\ DOMAIN cache' \subseteq Paths
  BY <1>1, <1>2, <1>4, CacheKeeps
<1> QED BY <1>3, <1>5 DEF DavInv

LEMMA VerifyKeeps ==
  ASSUME DavInv, NEW c \in DavClients, Verify(c)
  PROVE  DavInv'
<1> DEFINE path == Head(dav[c].left)
<1>1. AtWork(c) /\ UNCHANGED <<tree, used, announced>>
  BY DEF Verify, AtWork
<1>2. path \in Paths
  BY <1>1, LeftIs
<1>3. dav' = [d \in DavClients |-> dav'[d]] /\ FoldersThere' /\ Requests'
  <2>1. (\E n : Settled(c, n)) \/ Goto(c, "find", <<>>)
    BY DEF Verify
  <2> QED BY <1>1, <2>1, GotoKeeps, SettledKeeps
<1>4. \A p \in DOMAIN cache' : SameAt(p)
  <2>1. cache' = cache \/ cache' = Without(path)
    BY DEF Verify
  <2>2. cache' = cache => \A p \in DOMAIN cache' : SameAt(p)
    BY DEF SameAt
  <2> HIDE DEF path
  <2> QED BY <2>1, <2>2, WithoutIs
<1> HIDE DEF path
<1>5. CacheFollowsTree' /\ DOMAIN cache' \subseteq Paths
  BY <1>1, <1>2, <1>4, CacheKeeps
<1> QED BY <1>3, <1>5 DEF DavInv

\* What is stored was resolved while nobody crossed it, or is marked.
LEMMA StoredKeeps ==
  ASSUME DavInv, UNCHANGED <<tree, announced>>, NEW path \in Paths, NEW n, NEW crossed,
         cache' = Stored(path, n, crossed), crossed \/ IsAt(n, path)
  PROVE  CacheFollowsTree' /\ DOMAIN cache' \subseteq Paths
<1>1. ASSUME NEW p \in DOMAIN cache'
      PROVE  SameAt(p) \/ (p = path /\ (cache'[p].shaken \/ IsAt(cache'[p].node, p)))
  <2>1. (p = path /\ cache'[p].node = n /\ cache'[p].shaken = crossed) \/ SameAt(p)
    BY StoredIs
  <2> QED BY <2>1
<1> QED BY <1>1, CacheKeeps

LEMMA FindKeeps ==
  ASSUME DavInv, NEW c \in DavClients, Find(c)
  PROVE  DavInv'
<1> DEFINE path == Head(dav[c].left)
<1>1. AtWork(c) /\ UNCHANGED <<tree, used, announced>>
  BY DEF Find, AtWork
<1>2. path \in Paths
  BY <1>1, LeftIs
<1>3. CASE path = <<>> /\ Settled(c, DavRoot) /\ cache' = Stored(path, DavRoot, dav[c].crossed)
  <2>1. IsAt(DavRoot, path)
    BY <1>3 DEF IsAt
  <2>2. CacheFollowsTree' /\ DOMAIN cache' \subseteq Paths
    <3> HIDE DEF path
    <3> QED BY <1>1, <1>2, <1>3, <2>1, StoredKeeps
  <2> QED BY <1>1, <1>3, <2>2, SettledKeeps DEF DavInv
<1>4. CASE Unresolved(c) /\ UNCHANGED cache
  <2>1. CacheFollowsTree' /\ DOMAIN cache' \subseteq Paths
    BY <1>1, <1>2, <1>4, CacheKeeps DEF SameAt
  <2> QED BY <1>1, <1>4, <2>1, UnresolvedKeeps DEF DavInv
<1>5. ASSUME path # <<>>, UNCHANGED cache, NEW page \in SUBSET Hits(c, path), NEW found \in SetToSeqs(page),
             Goto(c, "walk", [i \in DOMAIN found |-> Walk(found[i])])
      PROVE  DavInv'
  <2> DEFINE walks == [i \in DOMAIN found |-> Walk(found[i])]
  <2>1. ASSUME NEW i \in DOMAIN walks PROVE Sure(walks[i], path)
    <3>1. found[i] \in page /\ walks[i] = Walk(found[i])
      BY DEF SetToSeqs
    <3>2. found[i] \in DOMAIN tree /\ tree[found[i]].title = Last(path)
      BY <3>1 DEF Hits
    <3>3. walks[i].node = found[i] /\ walks[i].at = found[i] /\ walks[i].crumbs = <<>>
      BY <3>1 DEF Walk, Crumbs
    <3> QED BY <3>2, <3>3, EmptySeq DEF Sure
  <2>2. dav' = [d \in DavClients |-> dav'[d]] /\ FoldersThere' /\ Requests'
    <3> HIDE DEF walks
    <3> QED BY <1>1, <1>5, <2>1, GotoKeeps DEF walks
  <2>3. CacheFollowsTree' /\ DOMAIN cache' \subseteq Paths
    BY <1>1, <1>2, <1>5, CacheKeeps DEF SameAt
  <2> QED BY <2>2, <2>3 DEF DavInv
<1>6. \A hits, page : page \in Pages(hits) => page \in SUBSET hits
  BY DEF Pages
<1> QED BY <1>3, <1>4, <1>5, <1>6 DEF Find

LEMMA WalkUpKeeps ==
  ASSUME DavInv, NEW c \in DavClients, WalkUp(c)
  PROVE  DavInv'
<1> DEFINE q == dav[c]
           path == Head(q.left)
<1>1. AtWork(c) /\ q.at = "walk" /\ UNCHANGED <<tree, used, cache, announced>>
  BY DEF WalkUp, AtWork
<1>2. path \in Paths /\ Resolving(q)
  BY <1>1, LeftIs
<1>3. PICK i \in DOMAIN q.walks :
         /\ ~Ended(q.walks[i])
         /\ Goto(c, "walk", [j \in DOMAIN q.walks |-> IF j = i THEN Step(q.walks[j]) ELSE q.walks[j]])
  BY DEF WalkUp
<1> DEFINE walks == [j \in DOMAIN q.walks |-> IF j = i THEN Step(q.walks[j]) ELSE q.walks[j]]
<1> HIDE DEF q, path
<1>4. path # <<>> /\ (~q.crossed => \A j \in DOMAIN q.walks : Sure(q.walks[j], path))
  BY <1>1, <1>2 DEF Resolving, path
<1>5. ~q.crossed => \A j \in DOMAIN walks : Sure(walks[j], path)
  BY <1>3, <1>4, StepIsSure DEF Ended, DavInv
<1> HIDE DEF walks
<1>6. dav' = [d \in DavClients |-> dav'[d]] /\ FoldersThere' /\ Requests'
  <2>1. Goto(c, "walk", walks)
    BY <1>3 DEF walks
  <2> QED BY <1>1, <1>4, <1>5, <2>1, GotoKeeps DEF q, path
<1>7. CacheFollowsTree' /\ DOMAIN cache' \subseteq Paths
  BY <1>1, <1>2, CacheKeeps DEF SameAt
<1> QED BY <1>6, <1>7 DEF DavInv

LEMMA ChooseKeeps ==
  ASSUME DavInv, NEW c \in DavClients, Choose(c)
  PROVE  DavInv'
<1> DEFINE q == dav[c]
           path == Head(q.left)
<1>1. AtWork(c) /\ q.at = "walk" /\ UNCHANGED <<tree, used, announced>>
  BY DEF Choose, AtWork
<1>2. path \in Paths /\ Resolving(q)
  BY <1>1, LeftIs
<1>3. path # <<>> /\ (~q.crossed => \A j \in DOMAIN q.walks : Sure(q.walks[j], path))
  BY <1>1, <1>2 DEF Resolving
<1>4. CASE Unresolved(c) /\ UNCHANGED cache
  <2>1. CacheFollowsTree' /\ DOMAIN cache' \subseteq Paths
    BY <1>1, <1>2, <1>4, CacheKeeps DEF SameAt
  <2> QED BY <1>1, <1>4, <2>1, UnresolvedKeeps DEF DavInv
<1>5. ASSUME NEW i \in Fit(q.walks, path), \A j \in DOMAIN q.walks : Ended(q.walks[j]),
             Settled(c, q.walks[i].node), cache' = Stored(path, q.walks[i].node, q.crossed)
      PROVE  DavInv'
  <2>1. i \in DOMAIN q.walks /\ q.walks[i].crumbs = Front(path)
    BY DEF Fit
  <2>2. q.crossed \/ IsAt(q.walks[i].node, path)
    <3> HIDE DEF q, path
    <3> QED BY <1>2, <1>3, <1>5, <2>1, EndedIsAt DEF DavInv
  <2>3. CacheFollowsTree' /\ DOMAIN cache' \subseteq Paths
    <3> HIDE DEF q, path
    <3> QED BY <1>1, <1>2, <1>5, <2>2, StoredKeeps
  <2> QED BY <1>1, <1>5, <2>3, SettledKeeps DEF DavInv
<1> QED BY <1>4, <1>5 DEF Choose

----------------------------------------------------------------------------

\* A request that ends, and one that changes no node.
LEMMA EndKeeps ==
  ASSUME DavInv, NEW c \in DavClients, UNCHANGED <<tree, used, cache>>, announced \subseteq announced',
         dav' = [dav EXCEPT ![c] = NoRequest] \/ End(c)
  PROVE  DavInv'
<1>1. CacheFollowsTree' /\ DOMAIN cache' \subseteq Paths
  BY CacheStays DEF DavInv, SameAt
<1>2. FoldersThere'
  BY DEF DavInv, FoldersThere, ParentOf
<1>3. dav' = [d \in DavClients |-> dav'[d]] /\ Requests'
  BY RequestsStay, CrossedStay DEF End
<1> QED BY <1>1, <1>2, <1>3 DEF DavInv

LEMMA WrittenIs ==
  ASSUME NEW n, NEW parent, NEW title, tree' = Written(n, parent, title)
  PROVE  /\ DOMAIN tree' = DOMAIN tree \cup {n} /\ tree'[n].parent = parent
         /\ \A k \in DOMAIN tree \ {n} : tree'[k] = tree[k] /\ ParentOf(k)' = ParentOf(k)
BY DEF Written, ParentOf

LEMMA PlaceKeeps ==
  ASSUME DavInv, NEW c \in DavClients, NEW n, NEW parent, NEW title, NEW r, Place(n, parent, title),
         dav' = [Crossed(c) EXCEPT ![c] = r],
         r = NoRequest \/ (r.left = <<>> /\ r.at = "rename" /\ r.nodes[1] \in DavNodes \ DavFolders)
  PROVE  DavInv'
<1>1. /\ n \in DavNodes \ used /\ parent \in DavFolders \cup {DavRoot} /\ Exists(parent)
      /\ tree' = Written(n, parent, title) /\ used' = used \cup {n}
      /\ announced' = announced \cup {CreatedEvent(parent)} /\ cache' = cache
  BY DEF Place, Publish
<1>2. n \notin DOMAIN tree /\ FoldersThere
  BY <1>1 DEF DavInv, FoldersThere
<1>3. /\ DOMAIN tree' = DOMAIN tree \cup {n} /\ tree'[n].parent = parent
      /\ \A k \in DOMAIN tree \ {n} : tree'[k] = tree[k] /\ ParentOf(k)' = ParentOf(k)
  BY <1>1, WrittenIs
<1>4. FoldersThere'
  BY <1>1, <1>2, <1>3 DEF FoldersThere, Exists, ParentOf
<1>5. \A p \in DOMAIN cache : ~Passes(p, cache[p].node, n)
  <2> SUFFICES ASSUME NEW p \in DOMAIN cache, Passes(p, cache[p].node, n) PROVE FALSE
    OBVIOUS
  <2>1. PICK line \in Lines(DavRoot, p), i \in 1 .. Len(p) - 1 : line[i] = n
    BY DEF Passes
  <2>2. p \in Paths
    BY DEF DavInv
  <2>3. i \in 1..Len(p)
    BY <2>2, LenProperties DEF Paths
  <2> QED BY <1>2, <2>1, <2>3 DEF Lines
<1>6. CacheFollowsTree'
  BY <1>1, <1>2, <1>3, <1>5, ChangeKeepsCache
<1>7. dav' = [d \in DavClients |-> dav'[d]] /\ Requests'
  BY CrossedStay
<1> QED BY <1>1, <1>4, <1>6, <1>7 DEF DavInv

LEMMA PutsKeep ==
  ASSUME DavInv, NEW c \in DavClients, PutNew(c) \/ Mkcol(c) \/ Copy(c)
  PROVE  DavInv'
<1>1. CASE PutNew(c) \/ Mkcol(c)
  <2>1. PICK n : Place(n, dav[c].nodes[1], Last(dav[c].ask.path))
    BY <1>1 DEF PutNew, Mkcol
  <2>2. dav' = [Crossed(c) EXCEPT ![c] = NoRequest]
    BY <1>1 DEF PutNew, Mkcol, End
  <2> QED BY <2>1, <2>2, PlaceKeeps
<1>2. CASE Copy(c)
  <2>1. PICK n \in DavNodes \ DavFolders :
           /\ Place(n, dav[c].nodes[2], tree[dav[c].nodes[1]].title \o " 2")
           /\ dav' = [Crossed(c) EXCEPT ![c] = Request(dav[c].ask, "rename", <<>>, <<n>>, <<>>, FALSE)]
    BY <1>2 DEF Copy
  <2> DEFINE r == Request(dav[c].ask, "rename", <<>>, <<n>>, <<>>, FALSE)
  <2>2. r.left = <<>> /\ r.at = "rename" /\ r.nodes = <<n>>
    BY DEF Request
  <2>3. r.nodes[1] \in DavNodes \ DavFolders
    <3> HIDE DEF r
    <3>1. <<n>>[1] = n
      OBVIOUS
    <3> QED BY <2>2, <3>1
  <2> DEFINE title == tree[dav[c].nodes[1]].title \o " 2"
  <2>4. Place(n, dav[c].nodes[2], title) /\ dav' = [Crossed(c) EXCEPT ![c] = r]
    BY <2>1
  <2> HIDE DEF r, title
  <2> QED BY <2>2, <2>3, <2>4, PlaceKeeps
<1> QED BY <1>1, <1>2

\* No path passes through a node that has no children.
LEMMA NotAFolderNotPassed ==
  ASSUME DavInv, NEW n, \A k \in DOMAIN tree : ParentOf(k) # n
  PROVE  \A p \in DOMAIN cache : ~Passes(p, cache[p].node, n)
<1> SUFFICES ASSUME NEW p \in DOMAIN cache, Passes(p, cache[p].node, n) PROVE FALSE
  OBVIOUS
<1>1. PICK line \in Lines(DavRoot, p), i \in 1 .. Len(p) - 1 : line[i] = n
  BY DEF Passes
<1>2. Len(p) \in Nat
  BY LenProperties DEF DavInv, Paths
<1>3. i + 1 \in 1..Len(p) /\ i + 1 # 1 /\ (i + 1) - 1 = i
  BY <1>2
<1>4. line[i + 1] \in DOMAIN tree /\ ParentOf(line[i + 1]) = line[i]
  BY <1>3 DEF Lines, Line
<1> QED BY <1>1, <1>4

LEMMA StaysSure ==
  ASSUME DavInv, UNCHANGED <<tree, used, dav>>
  PROVE  FoldersThere' /\ Requests'
<1>1. FoldersThere'
  BY DEF DavInv, FoldersThere, ParentOf
<1>2. \A w, path : Sure(w, path)' <=> Sure(w, path)
  BY DEF Sure, Leads, Lines, Line, ParentOf, Titles
<1>3. \A q : Resolving(q)' <=> Resolving(q)
  BY <1>2 DEF Resolving
<1>4. Requests'
  BY <1>3 DEF DavInv, Requests
<1> QED BY <1>1, <1>4

\* The requests that change no node.
LEMMA EndsKeep ==
  ASSUME DavInv, NEW c \in DavClients, Respond(c) \/ Refused(c) \/ PutOver(c)
  PROVE  DavInv'
<1>1. UNCHANGED <<tree, used, cache>> /\ announced \subseteq announced'
  BY DEF Respond, Refused, PutOver, Publish
<1>2. dav' = [dav EXCEPT ![c] = NoRequest] \/ End(c)
  BY DEF Respond, Refused, PutOver
<1> QED BY <1>1, <1>2, EndKeeps

\* The copy is a file: no path passes through it.
LEMMA RenameCopyKeeps ==
  ASSUME DavInv, NEW c \in DavClients, RenameCopy(c)
  PROVE  DavInv'
<1> DEFINE n == dav[c].nodes[1]
<1>1. UNCHANGED <<used, cache>> /\ dav' = [Crossed(c) EXCEPT ![c] = NoRequest]
  BY DEF RenameCopy, End
<1>2. CASE UNCHANGED <<tree, announced>>
  BY <1>1, <1>2, EndKeeps DEF End
<1>3. CASE Exists(n) /\ tree' = Written(n, ParentOf(n), Last(dav[c].ask.to)) /\ Publish(RenamedEvent(n))
  <2>1. n \in DavNodes \ DavFolders
    BY DEF RenameCopy, DavInv, Requests, Resolving
  <2>2. n \in DOMAIN tree /\ FoldersThere
    BY <1>3, <2>1, DavAssumption DEF Exists, DavInv
  <2>3. announced' = announced \cup {{n}}
    BY <1>3 DEF Publish, RenamedEvent
  <2> DEFINE title == Last(dav[c].ask.to)
  <2>4. tree' = Written(n, ParentOf(n), title)
    BY <1>3
  <2> HIDE DEF n, title
  <2>5. /\ DOMAIN tree' = DOMAIN tree \cup {n} /\ tree'[n].parent = ParentOf(n)
        /\ \A k \in DOMAIN tree \ {n} : tree'[k] = tree[k] /\ ParentOf(k)' = ParentOf(k)
    BY <2>4, WrittenIs
  <2>6. DOMAIN tree' = DOMAIN tree /\ \A k \in DOMAIN tree : ParentOf(k)' = ParentOf(k)
    BY <2>2, <2>5 DEF ParentOf
  <2>7. FoldersThere'
    BY <1>1, <2>2, <2>6 DEF FoldersThere
  <2>8. \A p \in DOMAIN cache : ~Passes(p, cache[p].node, n)
    BY <2>1, <2>2, NotAFolderNotPassed, DavAssumption DEF FoldersThere
  <2>9. CacheFollowsTree'
    BY <1>1, <2>3, <2>5, <2>8, ChangeKeepsCache
  <2>10. dav' = [d \in DavClients |-> dav'[d]] /\ Requests'
    BY <1>1, CrossedStay
  <2> QED BY <1>1, <2>7, <2>9, <2>10 DEF DavInv
<1> QED BY <1>2, <1>3 DEF RenameCopy

LEMMA DeleteKeeps ==
  ASSUME DavInv, NEW c \in DavClients, Delete(c)
  PROVE  DavInv'
<1> DEFINE n == dav[c].nodes[1]
           event == DeletedEvent(n, ParentOf(n))
<1>1. /\ n \in DOMAIN tree /\ \A k \in DOMAIN tree : ParentOf(k) # n
      /\ announced' = announced \cup {event} /\ tree' = [k \in DOMAIN tree \ {n} |-> tree[k]]
      /\ UNCHANGED <<used, cache>> /\ dav' = [Crossed(c) EXCEPT ![c] = NoRequest]
  BY DEF Delete, Publish, End
<1>2. n \in event
  BY DEF DeletedEvent
<1> HIDE DEF n, event
<1>3. DOMAIN tree' = DOMAIN tree \ {n} /\ \A k \in DOMAIN tree \ {n} : tree'[k] = tree[k] /\ ParentOf(k)' = ParentOf(k)
  BY <1>1 DEF ParentOf
<1>4. FoldersThere'
  BY <1>1, <1>3 DEF FoldersThere, DavInv
<1>5. \A p \in DOMAIN cache : ~Passes(p, cache[p].node, n)
  BY <1>1, NotAFolderNotPassed
<1>6. CacheFollowsTree'
  BY <1>1, <1>2, <1>3, <1>5, ChangeKeepsCache
<1>7. dav' = [d \in DavClients |-> dav'[d]] /\ Requests'
  BY <1>1, CrossedStay
<1> QED BY <1>1, <1>4, <1>6, <1>7 DEF DavInv

\* The paths through the node that moved are marked.
LEMMA MoveKeeps ==
  ASSUME DavInv, NEW c \in DavClients, Move(c)
  PROVE  DavInv'
<1> DEFINE n == dav[c].nodes[1]
           to == dav[c].nodes[2]
           new == [parent |-> to, title |-> Last(dav[c].ask.to)]
           event == MovedEvent(n, tree[n], new)
<1>1. /\ n \in DOMAIN tree /\ to \in DavFolders \cup {DavRoot} /\ Exists(to)
      /\ tree' = Written(n, new.parent, new.title) /\ announced' = announced \cup {event}
      /\ cache' = Shaken(n) /\ UNCHANGED used /\ dav' = [Crossed(c) EXCEPT ![c] = NoRequest]
  BY DEF Move, Publish, End
<1>2. n \in event
  BY DEF MovedEvent
<1>3. new.parent = to
  OBVIOUS
<1> HIDE DEF n, to, new, event
<1>4. /\ DOMAIN tree' = DOMAIN tree \cup {n} /\ tree'[n].parent = to
      /\ \A k \in DOMAIN tree \ {n} : tree'[k] = tree[k] /\ ParentOf(k)' = ParentOf(k)
  BY <1>1, <1>3, WrittenIs
<1>5. FoldersThere'
  BY <1>1, <1>4 DEF FoldersThere, DavInv, Exists, ParentOf
<1>6. DOMAIN cache' = DOMAIN cache
      /\ \A p \in DOMAIN cache : /\ cache'[p].node = cache[p].node
                                 /\ cache[p].shaken => cache'[p].shaken
                                 /\ Passes(p, cache[p].node, n) => cache'[p].shaken
  BY <1>1 DEF Shaken, CacheEntry
<1>7. CacheFollowsTree'
  BY <1>1, <1>2, <1>4, <1>6, ChangeKeepsCache
<1>8. dav' = [d \in DavClients |-> dav'[d]] /\ Requests'
  BY <1>1, CrossedStay
<1> QED BY <1>5, <1>6, <1>7, <1>8 DEF DavInv

LEMMA OutliveKeeps ==
  ASSUME DavInv, NEW path \in DOMAIN cache, Outlive(path)
  PROVE  DavInv'
<1>1. UNCHANGED <<tree, used, announced, dav>>
  BY DEF Outlive
<1>2. DOMAIN cache' = DOMAIN cache /\ \A p \in DOMAIN cache' : SameAt(p)
  BY DEF Outlive, CacheEntry, SameAt
<1>3. CacheFollowsTree'
  BY <1>1, <1>2, CacheStays DEF DavInv
<1>4. FoldersThere' /\ Requests'
  BY <1>1, StaysSure
<1> QED BY <1>1, <1>2, <1>3, <1>4 DEF DavInv

\* What the handler of an event leaves in the cache, another event excuses.
LEMMA HandleKeeps ==
  ASSUME DavInv, NEW event \in announced, Handle(event)
  PROVE  DavInv'
<1>1. UNCHANGED <<tree, used, dav>> /\ announced' = announced \ {event} /\ cache' = Invalidated(event)
  BY DEF Handle
<1>2. DOMAIN cache' = {p \in DOMAIN cache : cache[p].node \notin event}
      /\ \A p \in DOMAIN cache' : cache'[p].node = cache[p].node /\ cache'[p].shaken = cache[p].shaken
  BY <1>1, KeptIs DEF Invalidated
<1>3. \A n, p : IsAt(n, p)' <=> IsAt(n, p)
  BY <1>1 DEF IsAt, Leads, Lines, Line, ParentOf
<1>4. ASSUME NEW p \in DOMAIN cache'
      PROVE  cache'[p].shaken \/ (\E e \in announced' : cache'[p].node \in e) \/ IsAt(cache'[p].node, p)
  BY <1>1, <1>2 DEF DavInv, CacheFollowsTree
<1>5. CacheFollowsTree'
  BY <1>3, <1>4 DEF CacheFollowsTree
<1>6. FoldersThere' /\ Requests'
  BY <1>1, StaysSure
<1> QED BY <1>1, <1>2, <1>5, <1>6 DEF DavInv

LEMMA DavStarts == DavInit => DavInv
<1> SUFFICES ASSUME DavInit PROVE DavInv
  OBVIOUS
<1>1. FoldersThere
  BY DavAssumption DEF DavInit, FoldersThere, ParentOf
<1>2. DOMAIN cache = {}
  BY DEF DavInit
<1>3. dav = [c \in DavClients |-> dav[c]] /\ Requests
  BY DEF DavInit, Requests
<1> QED BY <1>1, <1>2, <1>3 DEF DavInv, CacheFollowsTree

LEMMA DavStep == DavInv /\ [DavNext]_davVars => DavInv'
<1> SUFFICES ASSUME DavInv, [DavNext]_davVars PROVE DavInv'
  OBVIOUS
<1>1. CASE UNCHANGED davVars
  <2>1. CacheFollowsTree'
    BY <1>1, CacheStays DEF davVars, DavInv, SameAt
  <2>2. FoldersThere' /\ Requests'
    BY <1>1, StaysSure DEF davVars
  <2> QED BY <1>1, <2>1, <2>2 DEF davVars, DavInv
<1>2. ASSUME NEW c \in DavClients, NEW r \in DavRequests[c], Ask(c, r) PROVE DavInv'
  BY <1>2, AskKeeps
<1>3. ASSUME NEW c \in DavClients, Look(c) \/ Verify(c) \/ Find(c) \/ WalkUp(c) \/ Choose(c) PROVE DavInv'
  BY <1>3, LookKeeps, VerifyKeeps, FindKeeps, WalkUpKeeps, ChooseKeeps
<1>4. ASSUME NEW c \in DavClients,
             \/ Respond(c) \/ Refused(c) \/ PutNew(c) \/ PutOver(c) \/ Mkcol(c)
             \/ Copy(c) \/ RenameCopy(c) \/ Delete(c) \/ Move(c)
      PROVE  DavInv'
  BY <1>4, EndsKeep, PutsKeep, RenameCopyKeeps, DeleteKeeps, MoveKeeps
<1>5. ASSUME NEW path \in DOMAIN cache, Outlive(path) PROVE DavInv'
  BY <1>5, OutliveKeeps
<1>6. ASSUME NEW event \in announced, Handle(event) PROVE DavInv'
  BY <1>6, HandleKeeps
<1> QED BY <1>1, <1>2, <1>3, <1>4, <1>5, <1>6 DEF DavNext

\* The entries of the path cache (webdav_path_cache.ts; the handlers of node
\* events): whatever the users ask of one another's nodes, what the cache has of
\* a path is where the path says, unless the event that drops it is on its way, a
\* folder above it was moved, or the tree changed while the path was resolved.
THEOREM CachedPathsLead == DavSpec => []CacheFollowsTree
<1>1. DavInv => CacheFollowsTree
  BY DEF DavInv
<1> QED BY <1>1, DavStarts, DavStep, PTL DEF DavSpec

=============================================================================

------------------------ MODULE AuthorizationService ------------------------
(***************************************************************************)
(* Permissions on folders (src/application/security/                       *)
(* authorization_service.ts): the check a handler makes on a folder it has *)
(* read, and the filters that stand for that check in a search.            *)
(***************************************************************************)
EXTENDS NodesFilters

CONSTANTS
    Principals,     \* [email, groups : a sequence, the user's own group first]
    Admins,         \* Groups.ADMINS_GROUP_UUID
    RootUser,       \* Users.ROOT_USER_EMAIL
    Anonymous       \* Users.ANONYMOUS_USER_EMAIL

\* A user has a group of its own before any others, and the root user is
\* an administrator.
ASSUME PrincipalsHaveGroups == \A who \in Principals :
    /\ who.groups \in Seq(ToSet(who.groups)) \ {<<>>}
    /\ who.email = RootUser => Admins \in ToSet(who.groups)

IsMember(who, group) == group \in ToSet(who.groups)

\* #isGroupAllowedTo: advanced grants count for members of the folder's group.
IsGroupAllowedTo(who, folder, p) ==
    /\ IsMember(who, folder.group)
    /\ \/ p \in folder.granted
       \/ \E g \in DOMAIN folder.advanced : IsMember(who, g) /\ p \in folder.advanced[g]

IsPrincipalAllowedTo(who, folder, p) ==
    \/ who.email = RootUser \/ IsMember(who, Admins)
    \/ p \in folder.anonymous
    \/ /\ who.email # Anonymous
       /\ \/ folder.owner = who.email
          \/ p \in folder.authenticated
          \/ IsGroupAllowedTo(who, folder, p)

----------------------------------------------------------------------------

\* #addAnonymousPermissionFilters and #addAuthenticatedPermissionFilters: what
\* the folder may be asked for, one alternative each.  Only the principal's
\* first group counts as the folder's own.
\* Variant: any of the groups may be the folder's.
PermissionAlternativesAnyGroup(who, p) ==
    {{F("anonymous", "contains", p)}}
    \cup IF who.email = Anonymous THEN {}
         ELSE {{F("authenticated", "contains", p)}, {F("owner", "==", who.email)}}
              \cup {{F("group", "in", ToSet(who.groups))}}
              \cup {{F(g, "contains", p)} : g \in ToSet(who.groups)}
PermissionAlternatives(who, p) ==
    {{F("anonymous", "contains", p)}}
    \cup IF who.email = Anonymous THEN {}
         ELSE {{F("authenticated", "contains", p)}, {F("owner", "==", who.email)}}
              \cup {{F("group", "==", Head(who.groups)), F("granted", "contains", p)}}
              \cup {{F(g, "contains", p)} : g \in ToSet(who.groups)}

\* #addPermissionFilters: of a folder itself, of any other node its parent.
\* Variant: of every node itself.
OfParentItself(alternative) == alternative \cup {F("mimetype", "!=", "folder")}
OfFolder(alternative) == alternative \cup {F("mimetype", "==", "folder")}
OfParent(alternative) ==
    {AtF(f.field, f.op, f.value) : f \in alternative} \cup {F("mimetype", "!=", "folder")}

\* toFiltersWithPermissionsResolved: every group of filters with every
\* alternative; the administrators' groups stay as they are.
WithPermissions(filters, who, p) ==
    IF IsMember(who, Admins) THEN filters
    ELSE {group \cup q : group \in filters,
            q \in UNION {{OfFolder(a), OfParent(a)} : a \in PermissionAlternatives(who, p)}}
=============================================================================

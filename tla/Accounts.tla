------------------------------ MODULE Accounts ------------------------------
(***************************************************************************)
(* Who a request comes from: the authentication middleware, the login      *)
(* handlers and the lookups they make in the users and the API keys        *)
(* (src/api/authentication_middleware.ts, login_handler.ts,                *)
(* external_login_service.ts).  Accounts change at any time; a request is  *)
(* authenticated first and answered later.                                 *)
(***************************************************************************)
EXTENDS Naturals, FiniteSets, TLC

CONSTANTS
    Emails,         \* of users on record
    UserRecords,    \* what a user's record can be: [group, groups, phone, active]
    Secrets, KeyRecords,           \* API keys: [group, active]
    BuiltinUsers,   \* e-mail -> record of the users that are always there
    Root, Anonymous, ApiKeyUser,   \* e-mails
    Admins, AnonymousGroup,
    Clients, ExternalTokens,       \* what clients can show: [email, phone, good]
    RootToken,                     \* what the root login hands out
    None, Garbled,                 \* no credential; what is no token
    Unauthorized

ASSUME BuiltinAssumption ==
    /\ {Root, Anonymous} \subseteq DOMAIN BuiltinUsers
    /\ \A email \in DOMAIN BuiltinUsers : BuiltinUsers[email] # None
    /\ Admins \in BuiltinUsers[Root].groups \cup {BuiltinUsers[Root].group}
    /\ {None, RootToken, Garbled} \cap ExternalTokens = {}

VARIABLES
    users, keys,
    rootToken,   \* the token of the root login: "none", "fresh" or "expired"
    jar,         \* client -> whether its cookie holds that token
    request,     \* client -> [principal, current, shown, bearer] of its request, or None
    answers      \* [token, login, me]: the answers to the token shown last, since accounts changed

accountVars == <<users, keys, rootToken, jar, request, answers>>

Tokens == ExternalTokens \cup {RootToken, Garbled}
AnonymousPrincipal == [email |-> Anonymous, groups |-> {AnonymousGroup}]

\* findUserForAuthentication and getUser: a builtin user hides one on record.
Account(email) ==
    IF email \in DOMAIN BuiltinUsers THEN BuiltinUsers[email]
    ELSE IF email \in Emails THEN users[email] ELSE None
AllGroups(account) == account.groups \cup {account.group}

\* The claims of a token another party signed: a phone only without an e-mail.
Identity(token) ==
    [email |-> token.email, phone |-> IF token.email # None THEN None ELSE token.phone]
\* findUserForAuthentication: the user, or None, and never whether the user is
\* active.  A record found by its phone is not hidden by a builtin user of its
\* e-mail.
FindUser(identity) ==
    IF identity.email # None /\ Account(identity.email) # None
    THEN [email |-> identity.email, account |-> Account(identity.email)]
    ELSE LET found == {e \in Emails : users[e] # None /\ users[e].phone = identity.phone}
         IN IF identity.phone = None \/ found = {} THEN None
            ELSE LET email == CHOOSE e \in found : TRUE IN [email |-> email, account |-> users[email]]
ResolveUser(token) ==
    IF token \notin ExternalTokens \/ ~token.good THEN None ELSE FindUser(Identity(token))

\* getApiKeyBySecret.
ActiveKey(secret) == keys[secret] # None /\ keys[secret].active

AuthenticateApiKey(secret) ==
    IF ActiveKey(secret) THEN [email |-> ApiKeyUser, groups |-> {keys[secret].group}] ELSE AnonymousPrincipal
AuthenticateRoot == IF rootToken = "fresh" THEN [email |-> Root, groups |-> {Admins}] ELSE AnonymousPrincipal
\* Variant: only the groups in the list of the account.
AuthenticateTokenListed(token) ==
    LET user == ResolveUser(token) IN
      IF user = None THEN AnonymousPrincipal ELSE [email |-> user.email, groups |-> user.account.groups]
AuthenticateToken(token) ==
    LET user == ResolveUser(token) IN
      IF user = None THEN AnonymousPrincipal
      ELSE [email |-> user.email, groups |-> AllGroups(user.account)]

\* What a request shows: an authorization header of one of two schemes, a
\* key in its query, and the cookie.  "Bearer" and its token are written as they
\* should be, with a small letter, with other space between them than one blank,
\* or with something after the token.
Forms == {"exact", "cased", "spaced", "trailed"}
Credentials == [apiKey : Secrets \cup {None}, bearer : Tokens \cup {None}, form : Forms,
                query : Secrets \cup {None}, cookie : {None, RootToken}]
Sendable(cred) ==
    /\ cred.apiKey = None \/ cred.bearer = None
    /\ cred.bearer = None => cred.form = "exact"

\* Each handler reads the header for itself: the middleware takes a key first,
\* wherever it is, and the word between two blanks after "Bearer" ...
GetApiKey(cred) == IF cred.apiKey # None THEN cred.apiKey ELSE cred.query
GetToken(cred) ==
    CASE cred.bearer = None \/ cred.form = "cased" -> cred.cookie
      [] cred.bearer # None /\ cred.form = "spaced" -> None
      [] OTHER -> cred.bearer
\* ... and the login all that follows "bearer", whatever else is shown.
GetBearerToken(cred) == IF cred.bearer # None /\ cred.form = "trailed" THEN Garbled ELSE cred.bearer

\* The middleware.  A token that cannot be decoded fails the request.
Principal(cred) ==
    IF GetApiKey(cred) # None THEN AuthenticateApiKey(GetApiKey(cred))
    ELSE IF GetToken(cred) = None THEN AnonymousPrincipal
    ELSE IF GetToken(cred) = RootToken THEN AuthenticateRoot
    ELSE AuthenticateToken(GetToken(cred))
Fails(cred) == GetApiKey(cred) = None /\ GetToken(cred) = Garbled

----------------------------------------------------------------------------

Unanswered(token) == [token |-> token, login |-> None, me |-> None]
AnswersTo(token) == IF answers.token = token THEN answers ELSE Unanswered(token)

\* The services change an account: what was answered before is history.
AccountsChange ==
    /\ request' = [c \in Clients |->
         IF request[c] = None THEN None ELSE [request[c] EXCEPT !.current = FALSE]]
    /\ answers' = Unanswered(None)
    /\ UNCHANGED jar
ChangeUser(email) ==
    /\ \E rec \in UserRecords \cup {None} : users' = [users EXCEPT ![email] = rec]
    /\ AccountsChange /\ UNCHANGED <<keys, rootToken>>
ChangeKey(secret) ==
    /\ \E rec \in KeyRecords \cup {None} : keys' = [keys EXCEPT ![secret] = rec]
    /\ AccountsChange /\ UNCHANGED <<users, rootToken>>
\* Four hours after the login.
Expire ==
    /\ rootToken = "fresh" /\ rootToken' = "expired"
    /\ AccountsChange /\ UNCHANGED <<users, keys>>

\* rootHandler, with the right password; whoever asks.
RootLogin(c) ==
    /\ rootToken' = "fresh"
    /\ jar' = [jar EXCEPT ![c] = TRUE]
    /\ UNCHANGED <<users, keys, request, answers>>
\* logoutHandler clears the cookie; the token stays good.
Logout(c) ==
    /\ jar' = [jar EXCEPT ![c] = FALSE]
    /\ UNCHANGED <<users, keys, rootToken, request, answers>>

Authenticate(c) ==
    /\ request[c] = None
    /\ \E cred \in Credentials :
         /\ Sendable(cred) /\ ~Fails(cred)
         /\ cred.cookie = IF jar[c] THEN RootToken ELSE None
         /\ request' = [request EXCEPT ![c] =
              [principal |-> Principal(cred), current |-> TRUE,
               shown |-> IF GetApiKey(cred) = None THEN GetToken(cred) ELSE None,
               bearer |-> GetBearerToken(cred)]]
    /\ UNCHANGED <<users, keys, rootToken, jar, answers>>

Result(account, email) == [email |-> email, groups |-> AllGroups(account)]

\* externalLoginHandler; it answers no other token than one of another party.
Login(c) ==
    /\ request[c] # None
    /\ LET token == request[c].bearer
           user == ResolveUser(token) IN
         answers' = IF token \in ExternalTokens
                    THEN [AnswersTo(token) EXCEPT !.login =
                            IF user = None THEN Unauthorized ELSE Result(user.account, user.email)]
                    ELSE answers
    /\ request' = [request EXCEPT ![c] = None]
    /\ UNCHANGED <<users, keys, rootToken, jar>>

\* getUser for oneself: only administrators may see the root user.
GetsOwn(principal) ==
    /\ Account(principal.email) # None
    /\ principal.email = Root => Admins \in principal.groups
\* meHandler: the account of the principal the middleware found earlier.
MeAnswer(principal) ==
    IF principal.email = Anonymous \/ ~GetsOwn(principal) THEN Unauthorized
    ELSE Result(Account(principal.email), principal.email)
Me(c) ==
    /\ request[c] # None
    /\ answers' = IF request[c].shown \in ExternalTokens /\ request[c].current
                  THEN [AnswersTo(request[c].shown) EXCEPT !.me = MeAnswer(request[c].principal)]
                  ELSE answers
    /\ request' = [request EXCEPT ![c] = None]
    /\ UNCHANGED <<users, keys, rootToken, jar>>

AccountsInit ==
    /\ users = [e \in Emails |-> None]
    /\ keys = [s \in Secrets |-> None]
    /\ rootToken = "none"
    /\ jar = [c \in Clients |-> FALSE]
    /\ request = [c \in Clients |-> None]
    /\ answers = Unanswered(None)

AccountsNext ==
    \/ \E e \in Emails : ChangeUser(e)
    \/ \E s \in Secrets : ChangeKey(s)
    \/ Expire
    \/ \E c \in Clients : RootLogin(c) \/ Logout(c) \/ Authenticate(c) \/ Login(c) \/ Me(c)

AccountsSpec == AccountsInit /\ [][AccountsNext]_accountVars

----------------------------------------------------------------------------

\* A record with the e-mail of a builtin user: createUser saves one.
Hidden(email) == email \in Emails \cap DOMAIN BuiltinUsers /\ users[email] # None
OfHidden(result) == \E email \in Emails : Hidden(email) /\ result = Result(users[email], email)

\* Unless the accounts changed after it was authenticated, a request acts
\* with exactly the groups the accounts give its principal: nothing is taken
\* from the token, and a group that was withdrawn is gone at the next request.
\* The login and the account page, which ask for the groups in ways of their
\* own and read the header each for itself, give a token one answer while the
\* accounts stay as they are, except to one for the anonymous user.  A record
\* with the e-mail of a builtin user acts, by its phone, with groups of its
\* own, and is shown the builtin user's.  (authentication_middleware.ts,
\* ExternalLoginService, meHandler.)
GroupsAreCurrent ==
    /\ \A c \in Clients : request[c] # None /\ request[c].current =>
         LET p == request[c].principal IN
           \/ p = AnonymousPrincipal
           \/ p.email = ApiKeyUser /\ \E s \in Secrets : ActiveKey(s) /\ p.groups = {keys[s].group}
           \/ p.email = Root /\ rootToken = "fresh" /\ p.groups = {Admins}
           \/ Account(p.email) # None /\ p.groups = AllGroups(Account(p.email))
           \/ Hidden(p.email) /\ p.groups = AllGroups(users[p.email])
    /\ \/ None \in {answers.login, answers.me}
       \/ answers.token.email = Anonymous
       \/ OfHidden(answers.login)
       \/ answers.login = answers.me

=============================================================================

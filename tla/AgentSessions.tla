--------------------------- MODULE AgentSessions ---------------------------
(***************************************************************************)
(* The AgentsEngine's conversations: chat sessions kept by a SessionStore, *)
(* interactions with a model inside a session or without one, and the      *)
(* monthly limit of tokens that TenantLimitsGuard reads from the log of    *)
(* usage, to which the AuditLoggingService appends what an interaction     *)
(* cost after it is over.                                                  *)
(*                                                                         *)
(* The SessionStore is synchronous: one call is one step.  An interaction  *)
(* is three: it asks the guard, calls the model, and its usage is logged.  *)
(***************************************************************************)
EXTENDS Naturals, Sequences, FiniteSets

CONSTANTS
    Agents,                \* those there and exposed to users: others are refused at once
    MaxSessions,           \* bound: the sessions opened, their ids a number each
    Talkers,               \* bound: interactions at a time
    Costs,                 \* tokens an interaction may cost
    TtlMs, HardTtlMs, MaxEntries,  \* the options of the SessionStore
    TokenLimit,            \* the month's, with its tolerance
    MaxTime, MaxTalks,     \* bounds: the clock, interactions in all
    NoTalk

ASSUME SessionsAssumption ==
    /\ TtlMs \in Nat /\ HardTtlMs \in Nat /\ MaxEntries \in Nat \ {0}
    /\ Costs \subseteq Nat \ {0} /\ TokenLimit \in Nat
    /\ NoTalk \notin {"guard", "model"}

VARIABLES
    entries,   \* the Map of sessions, in the order of insertion: [id, agent, created, lastUsed]
    time,      \* of the store's clock
    talks,     \* talker -> "guard" or "model", or NoTalk
    talked,    \* interactions so far
    unlogged,  \* the usage published and not yet appended: a bag as a sequence
    logged,    \* the tokens of the month in the log
    spent,     \* history: the tokens of the month
    unseen,    \* history: a guard was asked while tokens were being spent or had been lost
    known,     \* history: the sessions opened, the last used last, closed or not
    closed     \* history: the ids of those closed

sessionVars == <<entries, time, talks, talked, unlogged, logged, spent, unseen, known, closed>>

Expired(entry) == time >= entry.created + HardTtlMs \/ time - entry.lastUsed > TtlMs
Live(entry) == ~Expired(entry)
\* The places picked of a sequence in their order, and what it has there.
InTurn(places) ==
    CHOOSE turn \in [1 .. Cardinality(places) -> places] : \A a, b \in DOMAIN turn : a < b => turn[a] < turn[b]
Picked(s, places) == LET turn == InTurn(places) IN [k \in DOMAIN turn |-> s[turn[k]]]
Without(s, id) == Picked(s, {i \in DOMAIN s : s[i].id # id})
Find(s, id) == {s[i] : i \in {k \in DOMAIN s : s[k].id = id}}
\* #enforceCapacity: expired ones go first, then those inserted first.
Capped(s) ==
    LET live == {i \in DOMAIN s : Live(s[i])}
    IN  Picked(s, {i \in live : Cardinality({j \in live : j > i}) < MaxEntries})
\* Variant: a session keeps its place when it is used.
UsedInPlace(s, entry) == [i \in DOMAIN s |-> IF s[i].id = entry.id THEN [entry EXCEPT !.lastUsed = time] ELSE s[i]]
\* A session used is inserted again.
Used(s, entry) == Append(Without(s, entry.id), [entry EXCEPT !.lastUsed = time])

----------------------------------------------------------------------------

(* Sessions. *)

OpenChatSession(agent) ==
    /\ Len(known) < MaxSessions
    /\ LET entry == [id |-> Len(known) + 1, agent |-> agent, created |-> time, lastUsed |-> time] IN
         /\ entries' = Capped(Append(entries, entry))
         /\ known' = Append(known, entry)
    /\ UNCHANGED <<time, talks, talked, unlogged, logged, spent, unseen, closed>>

CloseChatSession(id) ==
    /\ Find(known, id) # {} /\ closed' = closed \cup {id}
    /\ entries' = Without(entries, id)
    /\ UNCHANGED <<time, talks, talked, unlogged, logged, spent, unseen, known>>

SessionTick ==
    /\ time < MaxTime /\ time' = time + 1
    /\ UNCHANGED <<entries, talks, talked, unlogged, logged, spent, unseen, known, closed>>

----------------------------------------------------------------------------

(* Interactions. *)

Talk(p, talk) == talks' = [talks EXCEPT ![p] = talk]
BeginTalk(p) == talked < MaxTalks /\ talked' = talked + 1 /\ Talk(p, "guard")

\* Without a session: with the agent as it is stored.
StartTalk(p) ==
    /\ talks[p] = NoTalk
    /\ BeginTalk(p)
    /\ UNCHANGED <<entries, time, unlogged, logged, spent, unseen, known, closed>>

\* In a session: with the agent as it was when the session was opened, though
\* it be hidden or deleted since.  A session
\* of another agent is refused, and has been used all the same; an expired
\* one is removed.
TalkInSession(p, id, agent) ==
    /\ talks[p] = NoTalk
    /\ \E entry \in Find(entries, id) :
         IF Expired(entry)
         THEN entries' = Without(entries, id) /\ UNCHANGED <<talks, talked, known>>
         ELSE /\ entries' = Used(entries, entry)
              /\ known' = Append(Without(known, id), [entry EXCEPT !.lastUsed = time])
              /\ IF entry.agent = agent THEN BeginTalk(p) ELSE UNCHANGED <<talks, talked>>
    /\ UNCHANGED <<time, unlogged, logged, spent, unseen, closed>>

\* Variant: a month is over its limit above it.
OverLimitAbove == logged > TokenLimit
\* ensureCanRunAgent
OverLimit == logged >= TokenLimit
Calling == {q \in Talkers : talks[q] = "model"}
AskGuard(p) ==
    /\ talks[p] = "guard"
    /\ IF OverLimit THEN Talk(p, NoTalk) /\ UNCHANGED unseen
       ELSE /\ Talk(p, "model")
            /\ unseen' = (unseen \/ Calling # {} \/ unlogged # <<>>)
    /\ UNCHANGED <<entries, time, talked, unlogged, logged, spent, known, closed>>

\* The history names a tool the session does not have, or the tools cannot
\* be built: nothing is spent.
RefuseTalk(p) ==
    /\ talks[p] = "model"
    /\ Talk(p, NoTalk)
    /\ UNCHANGED <<entries, time, talked, unlogged, logged, spent, unseen, known, closed>>

Answer(p, cost) ==
    /\ talks[p] = "model"
    /\ Talk(p, NoTalk)
    /\ spent' = spent + cost
    /\ unlogged' = Append(unlogged, cost)
    /\ UNCHANGED <<entries, time, talked, logged, unseen, known, closed>>

\* The model fails on the way: what it cost is not told to anyone.
FailedAnswer(p, cost) ==
    /\ talks[p] = "model"
    /\ Talk(p, NoTalk)
    /\ spent' = spent + cost /\ unseen' = TRUE
    /\ UNCHANGED <<entries, time, talked, unlogged, logged, known, closed>>

LogUsage ==
    /\ unlogged # <<>> /\ unlogged' = Tail(unlogged)
    /\ \/ logged' = logged + Head(unlogged) /\ UNCHANGED unseen
       \/ unseen' = TRUE /\ UNCHANGED logged   \* the append fails
    /\ UNCHANGED <<entries, time, talks, talked, spent, known, closed>>

\* The guard counts the month's usage only.  An answer begun before the end
\* of the month is the next month's.
NextMonth ==
    /\ logged # 0 /\ unlogged = <<>>
    /\ logged' = 0 /\ spent' = 0 /\ unseen' = FALSE
    /\ Calling = {}
    /\ UNCHANGED <<entries, time, talks, talked, unlogged, known, closed>>

\* A restart forgets the sessions, and what is not yet logged.
Restart ==
    /\ entries' = <<>> /\ known' = <<>> /\ closed' = {} /\ unlogged' = <<>>
    /\ talks' = [p \in Talkers |-> NoTalk]
    /\ unseen' = (unseen \/ unlogged # <<>> \/ Calling # {})
    /\ UNCHANGED <<time, talked, logged, spent>>

----------------------------------------------------------------------------

SessionsInit ==
    /\ entries = <<>> /\ known = <<>> /\ closed = {} /\ time = 0
    /\ talks = [p \in Talkers |-> NoTalk] /\ talked = 0
    /\ unlogged = <<>> /\ logged = 0 /\ spent = 0 /\ unseen = FALSE

SessionsNext ==
    \/ \E id \in 1..MaxSessions : CloseChatSession(id)
    \/ \E p \in Talkers : \/ AskGuard(p) \/ RefuseTalk(p)
                          \/ \E c \in Costs : Answer(p, c) \/ FailedAnswer(p, c)
                          \/ StartTalk(p)
                          \/ \E a \in Agents, id \in 1..MaxSessions : TalkInSession(p, id, a)
    \/ \E a \in Agents : OpenChatSession(a)
    \/ SessionTick \/ LogUsage \/ NextMonth \/ Restart

SessionsSpec == SessionsInit /\ [][SessionsNext]_sessionVars

----------------------------------------------------------------------------

(* Properties. *)

\* A session that is neither closed nor too old answers, as long as fewer
\* than MaxEntries others were opened or used after its last use: a full
\* store drops the ones unused for longest (session_store.ts:61-77, 103-110).
RecentSessionsAnswer ==
    \A i \in DOMAIN known :
        (known[i].id \notin closed /\ Live(known[i]) /\ i > Len(known) - MaxEntries) => Find(entries, known[i].id) # {}

\* The limit is looked at before an interaction, its cost logged after it:
\* unless interactions overlapped or usage was lost, a month costs less than
\* its limit and one interaction (tenant_limits_guard.ts:66-103).
LimitIsKept ==
    ~unseen => \A c \in Costs : (\A d \in Costs : d <= c) => spent < TokenLimit + c
=============================================================================

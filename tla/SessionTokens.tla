---------------------------- MODULE SessionTokens ----------------------------
(***************************************************************************)
(* Sessions and refresh tokens: login, refresh (rotation, adoption of a    *)
(* token without a row, reuse detection) and "revoke all my sessions".     *)
(*                                                                         *)
(* The program is one asyncio process: a handler runs alone between two    *)
(* awaits and any other handler may run at an await.  One action below is  *)
(* what a handler does from one database round trip to the next; a         *)
(* transaction is one action.                                              *)
(*                                                                         *)
(* A request is used once, so the uuid4 a request draws is named after it: *)
(* request r can only create session r and refresh-token row r.            *)
(***************************************************************************)
EXTENDS FiniteSets

CONSTANTS
    Users,      \* user ids
    Requests,   \* handler executions, each used once
    Legacy,     \* refresh JWTs in clients' hands that have no row in the table
    Sub,        \* Sub[t]: the user a legacy JWT names
    None

ASSUME DomainAssumption ==
    /\ Sub \in [Legacy -> Users]
    /\ Legacy \cap Requests = {}
    /\ None \notin Users \cup Requests \cup Legacy

Sessions == Requests
Tokens   == Requests \cup Legacy

VARIABLES
    users,      \* rows of the user table
    owner,      \* owner[s]: Session.user_id; None while there is no row s
    ended,      \* sessions whose revoked_at is set
    old,        \* sessions created at least MIN_REVOKE_DELAY (a day) ago
    family,     \* family[t]: session of refresh-token row t; None: no row
    spent,      \* refresh-token rows whose revoked_at is set
    jwt,        \* jwt[t]: user of a refresh JWT a client holds; None: no JWT
    access,     \* rows whose access JWT a client holds and has not expired
    pc,         \* where each request is
    tok,        \* the token it presented
    user,       \* the user it was authenticated as
    sawSpent,   \* whether it read its token as revoked
    targets,    \* the sessions it is about to revoke
    crashed,    \* requests that died at an await
    parent,     \* history: parent[t] is the token rotated into t
    late        \* history: rows created in a session that had already ended

sessionTable == <<owner, ended, old>>
tokenTable   == <<family, spent>>
wire         == <<jwt, access>>
history      == <<parent, late>>
locals       == <<tok, user, sawSpent, targets>>
vars == <<users, sessionTable, tokenTable, wire, pc, locals, crashed, history>>

Labels == {"idle", "open", "adopt", "session", "replay", "user", "rotate",
           "login", "reply", "others", "end", "sweep", "done"}

TypeOK ==
    /\ users \subseteq Users
    /\ owner \in [Sessions -> Users \cup {None}]
    /\ ended \subseteq Sessions
    /\ old \subseteq Sessions
    /\ family \in [Tokens -> Sessions \cup {None}]
    /\ spent \subseteq Tokens
    /\ jwt \in [Tokens -> Users \cup {None}]
    /\ access \subseteq Tokens
    /\ pc \in [Requests -> Labels]
    /\ tok \in [Requests -> Tokens \cup {None}]
    /\ user \in [Requests -> Users \cup {None}]
    /\ sawSpent \in [Requests -> BOOLEAN]
    /\ targets \in [Requests -> SUBSET Sessions]
    /\ crashed \subseteq Requests
    /\ parent \in [Tokens -> Tokens \cup {None}]
    /\ late \subseteq Tokens

Init ==
    /\ users = Users
    /\ owner = [s \in Sessions |-> None]
    /\ ended = {}
    /\ old = {}
    /\ family = [t \in Tokens |-> None]
    /\ spent = {}
    /\ jwt = [t \in Tokens |-> IF t \in Legacy THEN Sub[t] ELSE None]
    /\ access = {}
    /\ pc = [r \in Requests |-> "idle"]
    /\ tok = [r \in Requests |-> None]
    /\ user = [r \in Requests |-> None]
    /\ sawSpent = [r \in Requests |-> FALSE]
    /\ targets = [r \in Requests |-> {}]
    /\ crashed = {}
    /\ parent = [t \in Tokens |-> None]
    /\ late = {}

-----------------------------------------------------------------------------
(* Requests.                                                               *)

At(r, label) == pc[r] = label /\ r \notin crashed

InFlight(r) == pc[r] \notin {"idle", "done"} /\ r \notin crashed

Goto(r, label) == pc' = [pc EXCEPT ![r] = label]

RowsOf(S) == {t \in Tokens : family[t] \in S}

\* The row a handler inserts, late when its session has ended meanwhile.
InsertRow(t, s) ==
    /\ family' = [family EXCEPT ![t] = s]
    /\ late' = IF s \in ended THEN late \cup {t} ELSE late

-----------------------------------------------------------------------------
(* POST /me/auth/session/login                                             *)

\* The user is found by e-mail and the password matches.
LoginUser(r, u) ==
    /\ At(r, "idle")
    /\ u \in users
    /\ user' = [user EXCEPT ![r] = u]
    /\ Goto(r, "login")
    /\ UNCHANGED <<users, sessionTable, tokenTable, wire, tok, sawSpent, targets, crashed, history>>

\* One transaction: a new session and its first refresh-token row.
LoginCommit(r) ==
    /\ At(r, "login")
    /\ owner' = [owner EXCEPT ![r] = user[r]]
    /\ InsertRow(r, r)
    /\ Goto(r, "reply")
    /\ UNCHANGED <<users, ended, old, spent, wire, locals, crashed, parent>>

-----------------------------------------------------------------------------
(* POST /me/auth/session/refresh.  The dependencies run in order: the      *)
(* refresh token first, then its user; the body rotates the token.         *)

\* The row is read; its session is fetched by a second query.
RefreshRow(r, t) ==
    /\ At(r, "idle")
    /\ jwt[t] # None
    /\ tok' = [tok EXCEPT ![r] = t]
    /\ user' = [user EXCEPT ![r] = jwt[t]]
    /\ sawSpent' = [sawSpent EXCEPT ![r] = t \in spent]
    /\ Goto(r, IF family[t] = None THEN "open" ELSE "session")
    /\ UNCHANGED <<users, sessionTable, tokenTable, wire, targets, crashed, history>>

\* Mutated: the session's revoked_at is not looked at.
RefreshSessionUnchecked(r) ==
    /\ At(r, "session")
    /\ \/ /\ sawSpent[r]
          /\ targets' = [targets EXCEPT ![r] = {family[tok[r]]}]
          /\ Goto(r, "replay")
       \/ ~sawSpent[r] /\ Goto(r, "user") /\ UNCHANGED targets
    /\ UNCHANGED <<users, sessionTable, tokenTable, wire, tok, user, sawSpent, crashed, history>>

\* An ended session refuses every token; a spent token ends a live session.
RefreshSession(r) ==
    /\ At(r, "session")
    /\ LET s == family[tok[r]] IN
       \/ s \in ended /\ Goto(r, "done") /\ UNCHANGED targets
       \/ /\ s \notin ended /\ sawSpent[r]
          /\ targets' = [targets EXCEPT ![r] = {s}]
          /\ Goto(r, "replay")
       \/ s \notin ended /\ ~sawSpent[r] /\ Goto(r, "user") /\ UNCHANGED targets
    /\ UNCHANGED <<users, sessionTable, tokenTable, wire, tok, user, sawSpent, crashed, history>>

\* Mutated: its rows first.
ReplayRowsFirst(r) ==
    /\ At(r, "replay")
    /\ spent' = spent \cup RowsOf(targets[r])
    /\ Goto(r, "sweep")
    /\ UNCHANGED <<users, sessionTable, family, wire, locals, crashed, history>>

\* revoke_session: first the session is saved ...
Replay(r) ==
    /\ At(r, "replay")
    /\ ended' = ended \cup targets[r]
    /\ Goto(r, "sweep")
    /\ UNCHANGED <<users, owner, old, tokenTable, wire, locals, crashed, history>>

\* Mutated: only the presented token is revoked.
SweepPresented(r) ==
    /\ At(r, "sweep")
    /\ spent' = spent \cup {tok[r]}
    /\ Goto(r, "done")
    /\ UNCHANGED <<users, sessionTable, family, wire, locals, crashed, history>>

\* Mutated: the rows of every session of the user are revoked.
SweepWholeUser(r) ==
    /\ At(r, "sweep")
    /\ spent' = spent \cup RowsOf({s \in Sessions : owner[s] = user[r]})
    /\ Goto(r, "done")
    /\ UNCHANGED <<users, sessionTable, family, wire, locals, crashed, history>>

\* ... then, by a statement of its own, its rows.  Revoking all sessions
\* ends with the same statement.
Sweep(r) ==
    /\ At(r, "sweep")
    /\ spent' = spent \cup RowsOf(targets[r])
    /\ Goto(r, "done")
    /\ UNCHANGED <<users, sessionTable, family, wire, locals, crashed, history>>

\* A JWT without a row is given a new session ...
AdoptSession(r) ==
    /\ At(r, "open")
    /\ owner' = [owner EXCEPT ![r] = user[r]]
    /\ Goto(r, "adopt")
    /\ UNCHANGED <<users, ended, old, tokenTable, wire, locals, crashed, history>>

\* ... and a row; the primary key refuses a second one.
AdoptRow(r) ==
    /\ At(r, "adopt")
    /\ \/ family[tok[r]] = None /\ InsertRow(tok[r], r) /\ Goto(r, "user")
       \/ family[tok[r]] # None /\ Goto(r, "done") /\ UNCHANGED <<family, late>>
    /\ UNCHANGED <<users, sessionTable, spent, wire, locals, crashed, parent>>

RefreshUser(r) ==
    /\ At(r, "user")
    /\ Goto(r, IF user[r] \in users THEN "rotate" ELSE "done")
    /\ UNCHANGED <<users, sessionTable, tokenTable, wire, locals, crashed, history>>

\* Mutated: the presented token is not saved as revoked.
RotateKeepsToken(r) ==
    /\ At(r, "rotate")
    /\ InsertRow(r, family[tok[r]])
    /\ parent' = [parent EXCEPT ![r] = tok[r]]
    /\ Goto(r, "reply")
    /\ UNCHANGED <<users, sessionTable, spent, wire, locals, crashed>>

\* One transaction: the token read above is revoked and its successor inserted.
\* Nothing that was read is read again.
Rotate(r) ==
    /\ At(r, "rotate")
    /\ spent' = spent \cup {tok[r]}
    /\ InsertRow(r, family[tok[r]])
    /\ parent' = [parent EXCEPT ![r] = tok[r]]
    /\ Goto(r, "reply")
    /\ UNCHANGED <<users, sessionTable, wire, locals, crashed>>

\* After the commit the two JWTs are built and reach the client.
Reply(r) ==
    /\ At(r, "reply")
    /\ jwt' = [jwt EXCEPT ![r] = user[r]]
    /\ access' = access \cup {r}
    /\ Goto(r, "done")
    /\ UNCHANGED <<users, sessionTable, tokenTable, locals, crashed, history>>

-----------------------------------------------------------------------------
(* DELETE /me/auth/session and DELETE /me/auth/session/{id}                *)

\* The user and the session come from the access JWT alone: neither the row
\* nor the session need be live.  Within a day of the session's creation the
\* request is refused.
RevokeAllAuth(r, a) ==
    /\ At(r, "idle")
    /\ a \in access
    /\ jwt[a] \in users
    /\ tok' = [tok EXCEPT ![r] = a]
    /\ user' = [user EXCEPT ![r] = jwt[a]]
    /\ Goto(r, IF family[a] \in old THEN "others" ELSE "done")
    /\ UNCHANGED <<users, sessionTable, tokenTable, wire, sawSpent, targets, crashed, history>>

\* Mutated: the sessions of every user.
OtherSessionsOfAnyone(r) ==
    {s \in Sessions \ {family[tok[r]]} : owner[s] # None /\ s \notin ended}

\* Mutated: the request's own session too.
OtherSessionsAndOwn(r) ==
    {s \in Sessions : owner[s] = user[r] /\ s \notin ended}

OtherSessions(r) ==
    {s \in Sessions \ {family[tok[r]]} : owner[s] = user[r] /\ s \notin ended}

RevokeAllRead(r) ==
    /\ At(r, "others")
    /\ targets' = [targets EXCEPT ![r] = OtherSessions(r)]
    /\ Goto(r, IF OtherSessions(r) = {} THEN "done" ELSE "end")
    /\ UNCHANGED <<users, sessionTable, tokenTable, wire, tok, user, sawSpent, crashed, history>>

RevokeAllEnd(r) ==
    /\ At(r, "end")
    /\ ended' = ended \cup targets[r]
    /\ Goto(r, "sweep")
    /\ UNCHANGED <<users, owner, old, tokenTable, wire, locals, crashed, history>>

\* The route declares `id: int`, a session's id is a UUID: a UUID in the path
\* is refused and an integer matches no row, so the request never gets to the
\* revocation.
RevokeOne(r, a) ==
    /\ At(r, "idle")
    /\ a \in access
    /\ Goto(r, "done")
    /\ UNCHANGED <<users, sessionTable, tokenTable, wire, locals, crashed, history>>

-----------------------------------------------------------------------------
(* The environment.                                                        *)

\* A day passes while no request runs: every session is old enough to revoke
\* others, every access JWT (15 minutes) has expired.
Day ==
    /\ \A r \in Requests : ~InFlight(r)
    /\ \E s \in Sessions \ old : owner[s] # None
    /\ old' = {s \in Sessions : owner[s] # None}
    /\ access' = {}
    /\ UNCHANGED <<users, owner, ended, tokenTable, jwt, pc, locals, crashed, history>>

\* The deletion job or an administrator deletes a user; Session.user_id is a
\* plain integer, so the sessions stay.
DeleteUser(u) ==
    /\ u \in users
    /\ users' = users \ {u}
    /\ UNCHANGED <<sessionTable, tokenTable, wire, pc, locals, crashed, history>>

\* A statement fails or the process dies while the request waits for it.
Fail(r) ==
    /\ InFlight(r)
    /\ crashed' = crashed \cup {r}
    /\ UNCHANGED <<users, sessionTable, tokenTable, wire, pc, locals, history>>

-----------------------------------------------------------------------------

\* What a request that has started goes on to do.
Continue(r) ==
    \/ LoginCommit(r)
    \/ RefreshSession(r) \/ Replay(r) \/ Sweep(r)
    \/ AdoptSession(r) \/ AdoptRow(r)
    \/ RefreshUser(r) \/ Rotate(r) \/ Reply(r)
    \/ RevokeAllRead(r) \/ RevokeAllEnd(r)

Start(r) ==
    \/ \E u \in Users : LoginUser(r, u)
    \/ \E t \in Tokens : RefreshRow(r, t) \/ RevokeAllAuth(r, t) \/ RevokeOne(r, t)

Next ==
    \/ \E r \in Requests : Start(r) \/ Continue(r) \/ Fail(r)
    \/ Day
    \/ \E u \in Users : DeleteUser(u)

Spec == Init /\ [][Next]_vars

\* The event loop resumes every handler whose query has been answered.
FairSpec == Spec /\ \A r \in Requests : WF_vars(Continue(r))
-----------------------------------------------------------------------------
(* The tables promise what SessionLedger says.                             *)

Ledger == INSTANCE SessionLedger WITH
              Sessions <- Sessions, Tokens <- Tokens, None <- None,
              family <- family, ended <- ended, spent <- spent

\* Sessions and tokens only ever end, a token never changes its session, and a
\* token is spent by its rotation or because its session has ended before.
KeepsLedger == Ledger!Spec

-----------------------------------------------------------------------------
(* Properties.                                                             *)

Live(t)  == family[t] # None /\ t \notin spent
Children(t) == {c \in Tokens : parent[c] = t}

\* A token of session s was rotated into two.
Forked(s) ==
    \E c1, c2 \in Tokens :
        c1 # c2 /\ parent[c1] = parent[c2] /\ parent[c1] # None /\ family[c1] = s

\* Reuse detection never accuses a client of a rotation nobody made: a request
\* that is about to end a session because its token is spent (refresh_auth.py,
\* "refresh token revoked") presented a token that some request did rotate,
\* although spent rows also come from sweeps that run at the same time.
ReplayVerdictJust ==
    \A r \in Requests : pc[r] = "replay" => Children(tok[r]) # {}

\* A session falls apart into two live tokens only if one of its tokens was
\* rotated twice, which takes requests that read it before either committed.
ForkOnlyByDoubleRotation ==
    \A t1, t2 \in Tokens :
        Live(t1) /\ Live(t2) /\ t1 # t2 /\ family[t1] = family[t2] => Forked(family[t1])

\* Once a session has ended and every sweep of it has run, the only unspent
\* rows left in it were inserted after its end by requests that had checked it
\* before: revoke_session and revoke_all_sessions miss nothing else.
UnsweptOnlyLate ==
    \A t \in Tokens :
        Live(t) /\ family[t] \in ended /\ t \notin late =>
            \E r \in Requests : pc[r] = "sweep" /\ family[t] \in targets[r]

\* What such a late row is worth: it is never rotated, except that the request
\* which adopts a token without a row goes on to rotate it without looking at
\* the session it created.
LateTokenIsBarren ==
    \A c \in Tokens : parent[c] \in late => parent[c] \in Legacy

\* What revocation misses is late, and worth nothing.
LateRows == UnsweptOnlyLate /\ LateTokenIsBarren

\* The user a refresh JWT names owns the session its row belongs to, whoever
\* rotated, adopted or revoked in between: post_refresh takes the user from the
\* JWT and the session from the row and never compares them.
SubjectOwnsSession ==
    \A t \in Tokens :
        jwt[t] # None /\ family[t] # None => owner[family[t]] = jwt[t]

\* A request only ever aims at sessions of the user it was authenticated as.
OwnSessionsOnly ==
    \A r \in Requests : \A s \in targets[r] : owner[s] = user[r]

\* A client never holds JWTs whose row is not there yet, so that
\* SessionResolveEntity, which reads `.session` of whatever it found, finds one.
HandedOutHaveRows ==
    \A t \in Tokens : t \in access \/ (jwt[t] # None /\ t \notin Legacy) =>
        family[t] # None

\* A session without a single row is what a lost adoption leaves: its request
\* is still to insert the row, died before it, or found the row already there
\* in the session of another adoption.
RowlessSessionsExplained ==
    \A s \in Sessions :
        owner[s] # None /\ RowsOf({s}) = {} =>
            \/ pc[s] = "adopt"
            \/ pc[s] = "done" /\ tok[s] # None /\ family[tok[s]] \notin {None, s}

\* JWTs, rows, sessions and requests agree on whose they are, and hang together.
Ownership ==
    /\ SubjectOwnsSession
    /\ OwnSessionsOnly
    /\ HandedOutHaveRows
    /\ RowlessSessionsExplained

\* A session ends only at the hands of its own user: by replaying one of its
\* spent tokens, or by revoking from another of the user's sessions.
EndedForCause ==
    [][\A s \in ended' \ ended : \E r \in Requests :
          /\ owner[s] = user[r]
          /\ \/ pc[r] = "replay" /\ family[tok[r]] = s
             \/ pc[r] = "end" /\ family[tok[r]] # s]_vars

\* A request that has seen a spent token in a live session ends that session.
ReplayEndsSession ==
    \A r \in Requests :
        pc[r] = "session" /\ sawSpent[r] ~>
            r \in crashed \/ (tok[r] # None /\ family[tok[r]] \in ended)

\* Every row that was in a session when it ended is spent in the end, unless
\* the request that was to sweep it died.
EndedIsSwept ==
    \A t \in Tokens :
        family[t] \in ended /\ t \notin late ~>
            t \in spent \/ \E r \in crashed : family[t] \in targets[r]

\* What a replay, a logout or an end comes to: no session survives in part.
EndsComplete == ReplayEndsSession /\ EndedIsSwept
=============================================================================

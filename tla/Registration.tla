----------------------------- MODULE Registration -----------------------------
(***************************************************************************)
(* Who is bound to which profile: sign-up with a role, the roles that an   *)
(* administrator writes, and the deletions that pull a role or a profile   *)
(* from under the other.                                                   *)
(*                                                                         *)
(* A sign-up is one transaction: what it writes is seen by nobody before   *)
(* it commits, except that an e-mail it has inserted makes another sign-up *)
(* with the same e-mail wait.  Nothing ties profile_id to a row.           *)
(***************************************************************************)
EXTENDS Naturals

CONSTANTS
    Requests,       \* handler executions, each used once
    Emails, Athletes,
    None

\* A user, and a coach or a parent, is named by the request that signed it up.
Profiles == Athletes \cup Requests

Role == [type : {"athlete", "coach", "parent", "other"}, profile : Profiles]

ASSUME NamesAssumption ==
    /\ None \notin Emails \cup Requests \cup Athletes \cup Role
    /\ Athletes \cap Requests = {}

VARIABLES
    athletes,       \* rows that exist
    profiles,       \* rows of coaches and parents
    users,          \* each user's e-mail, None where there is no user
    roles,          \* each user's role, None where there is none
    pc, job,        \* where a request is and what it was given
    raced,          \* history: was about to bind the athlete when this one did
    assigned,       \* history: users whose role an administrator has written or deleted
    gone            \* history: requests that chose an athlete deleted since

tables  == <<athletes, profiles, users, roles>>
history == <<raced, assigned, gone>>
vars == <<tables, pc, job, history>>

Accounts == {u \in Requests : users[u] # None}

Jobs == [email : Emails \cup {None}, role : {"none", "athlete", "coach", "parent"},
         athlete : Athletes \cup {None}, user : Requests \cup {None}, new : Role \cup {None}]

NoJob == [email |-> None, role |-> "none", athlete |-> None, user |-> None, new |-> None]

\* Places in the transaction of a sign-up once its user is inserted.
Inserted == {"find", "check", "profile", "bind", "commit"}

TypeOK ==
    /\ athletes \subseteq Athletes
    /\ profiles \subseteq Requests
    /\ users \in [Requests -> Emails \cup {None}]
    /\ roles \in [Requests -> Role \cup {None}]
    /\ \A u \in Requests : roles[u] # None => users[u] # None
    /\ pc \in [Requests -> Inserted \cup {"idle", "validate", "insert", "set", "done",
                                          "refused", "failed"}]
    /\ job \in [Requests -> Jobs]
    /\ raced \in [Requests -> SUBSET Requests]
    /\ assigned \subseteq Requests
    /\ gone \subseteq Requests

Init ==
    /\ athletes = Athletes
    /\ profiles = {}
    /\ users = [u \in Requests |-> None]
    /\ roles = [u \in Requests |-> None]
    /\ pc = [r \in Requests |-> "idle"]
    /\ job = [r \in Requests |-> NoJob]
    /\ raced = [r \in Requests |-> {}]
    /\ assigned = {}
    /\ gone = {}

-----------------------------------------------------------------------------
(* Sign-up.                                                                *)

Goto(r, label) == pc' = [pc EXCEPT ![r] = label]

\* The handler for the role.  The athlete it names may be gone.
StartSignup(r) ==
    /\ pc[r] = "idle"
    /\ \E e \in Emails, role \in {"none", "athlete", "coach", "parent"}, a \in Athletes :
          job' = [job EXCEPT ![r] = [NoJob EXCEPT !.email = e, !.role = role,
                                        !.athlete = IF role = "athlete" THEN a ELSE None]]
    /\ Goto(r, "validate")
    /\ UNCHANGED <<tables, history>>

Taken(e) == \E u \in Requests : users[u] = e

Validate(r) ==
    /\ pc[r] = "validate"
    /\ Goto(r, IF Taken(job[r].email) THEN "refused" ELSE "insert")
    /\ UNCHANGED <<tables, job, history>>

\* The place after the insertion, by role.
RoleStep(role) == CASE role = "none" -> "commit"
                    [] role = "athlete" -> "find"
                    [] OTHER -> "profile"

\* The unique index: it waits for one that has inserted the e-mail and not committed.
InsertUser(r) ==
    /\ pc[r] = "insert"
    /\ \A q \in Requests : pc[q] \in Inserted => job[q].email # job[r].email
    /\ Goto(r, IF Taken(job[r].email) THEN "failed" ELSE RoleStep(job[r].role))
    /\ UNCHANGED <<tables, job, history>>

FindAthlete(r) ==
    /\ pc[r] = "find"
    /\ Goto(r, IF job[r].athlete \in athletes THEN "check" ELSE "refused")
    /\ UNCHANGED <<tables, job, history>>

AthleteRole(a) == [type |-> "athlete", profile |-> a]

\* Mutated: the role of an athlete is looked for by its user, who has none yet.
CheckBoundOwn(r) ==
    /\ pc[r] = "check"
    /\ Goto(r, IF roles[r] = AthleteRole(job[r].athlete) THEN "refused" ELSE "bind")
    /\ UNCHANGED <<tables, job, history>>

CheckBound(r) ==
    /\ pc[r] = "check"
    /\ Goto(r, IF \E u \in Requests : roles[u] = AthleteRole(job[r].athlete)
               THEN "refused" ELSE "bind")
    /\ UNCHANGED <<tables, job, history>>

\* Mutated: the profile is created outside of the transaction.
CreateProfileAtOnce(r) ==
    /\ pc[r] = "profile"
    /\ profiles' = profiles \cup {r}
    /\ Goto(r, "bind")
    /\ UNCHANGED <<athletes, users, roles, job, history>>

CreateProfile(r) ==
    /\ pc[r] = "profile"
    /\ Goto(r, "bind")
    /\ UNCHANGED <<tables, job, history>>

BindRole(r) ==
    /\ pc[r] = "bind"
    /\ Goto(r, "commit")
    /\ UNCHANGED <<tables, job, history>>

\* The role that a sign-up gives its user.
RoleOf(r) == IF job[r].role = "none" THEN None
             ELSE [type |-> job[r].role,
                   profile |-> IF job[r].role = "athlete" THEN job[r].athlete ELSE r]

\* All that the transaction has written: user, profile and role.
Commit(r) ==
    /\ pc[r] = "commit"
    /\ users' = [users EXCEPT ![r] = job[r].email]
    /\ roles' = [roles EXCEPT ![r] = RoleOf(r)]
    /\ profiles' = IF job[r].role \in {"coach", "parent"} THEN profiles \cup {r} ELSE profiles
    /\ raced' = [q \in Requests |->
                    IF q # r /\ pc[q] \in {"bind", "commit"} /\ job[r].role = "athlete"
                             /\ job[q].athlete = job[r].athlete
                    THEN raced[q] \cup {r} ELSE raced[q]]
    /\ Goto(r, "done")
    /\ UNCHANGED <<athletes, job, assigned, gone>>

-----------------------------------------------------------------------------
(* Administration.                                                         *)

\* A user without a role is not given one: the insertion lacks its user.
AdminReadRole(r) ==
    /\ pc[r] = "idle"
    /\ \E u \in Accounts, new \in Role :
          IF roles[u] = None
          THEN Goto(r, "failed") /\ UNCHANGED job
          ELSE /\ job' = [job EXCEPT ![r] = [NoJob EXCEPT !.user = u, !.new = new]]
               /\ Goto(r, "set")
    /\ UNCHANGED <<tables, history>>

\* The update finds no row when role or user is gone.
AdminSaveRole(r) ==
    /\ pc[r] = "set"
    /\ LET u == job[r].user IN
       IF roles[u] = None
       THEN UNCHANGED <<roles, assigned>>
       ELSE /\ roles' = [roles EXCEPT ![u] = job[r].new]
            /\ assigned' = assigned \cup {u}
    /\ Goto(r, "done")
    /\ UNCHANGED <<athletes, profiles, users, job, raced, gone>>

AdminDeleteRole(r) ==
    /\ pc[r] = "idle"
    /\ \E u \in Accounts :
          /\ roles' = [roles EXCEPT ![u] = None]
          /\ assigned' = assigned \cup {u}
    /\ Goto(r, "done")
    /\ UNCHANGED <<athletes, profiles, users, job, raced, gone>>

\* The role goes with its user; a coach or a parent stays.
DeleteUser(r) ==
    /\ pc[r] = "idle"
    /\ \E u \in Accounts :
          /\ users' = [users EXCEPT ![u] = None]
          /\ roles' = [roles EXCEPT ![u] = None]
    /\ Goto(r, "done")
    /\ UNCHANGED <<athletes, profiles, job, history>>

\* A role that refers to the athlete stays.
DeleteAthlete(r) ==
    /\ pc[r] = "idle"
    /\ \E a \in athletes :
          /\ athletes' = athletes \ {a}
          /\ gone' = gone \cup {q \in Requests : job[q].athlete = a
                                     /\ pc[q] \in {"check", "bind", "commit", "done"}}
    /\ Goto(r, "done")
    /\ UNCHANGED <<profiles, users, roles, job, raced, assigned>>

\* A statement fails, or the process dies: an open transaction leaves nothing.
Fail(r) ==
    /\ pc[r] \in Inserted \cup {"validate", "insert", "set"}
    /\ Goto(r, "failed")
    /\ UNCHANGED <<tables, job, history>>

Next == \E r \in Requests :
    \/ StartSignup(r) \/ Validate(r) \/ InsertUser(r)
    \/ FindAthlete(r) \/ CheckBound(r) \/ CreateProfile(r) \/ BindRole(r) \/ Commit(r)
    \/ AdminReadRole(r) \/ AdminSaveRole(r) \/ AdminDeleteRole(r)
    \/ DeleteUser(r) \/ DeleteAthlete(r) \/ Fail(r)

Spec == Init /\ [][Next]_vars

-----------------------------------------------------------------------------
(* Properties.                                                             *)

\* No e-mail has two accounts, however their sign-ups interleave
\* (UserRegistration._validate and the unique index behind it).
OneAccountPerEmail ==
    \A u, v \in Accounts : users[u] = users[v] => u = v

\* Two users of one athlete signed up at the same time, each having checked before
\* the other committed, or an administrator wrote one of their roles
\* (AthleteRegistration._assign_role).
BoundOnceUnlessRaced ==
    \A u, v \in Accounts :
        /\ u # v /\ roles[u] # None /\ roles[u] = roles[v]
        => {u, v} \cap assigned # {} \/ u \in raced[v] \/ v \in raced[u]

\* Who is who, however the sign-ups interleave.
AccountsUnique == OneAccountPerEmail /\ BoundOnceUnlessRaced

\* A user is an athlete that does not exist only if the athlete was deleted after
\* the sign-up found it: nothing but the order of the statements ties them.
DanglingExplained ==
    \A u \in Accounts \ assigned :
        (roles[u] # None /\ roles[u].type = "athlete") =>
            roles[u].profile \in athletes \/ u \in gone

\* A coach or a parent without an account lost it to a deletion or an administrator:
\* a sign-up that fails half-way leaves none (register_user).
OrphansExplained ==
    \A p \in profiles :
        \/ p \in assigned
        \/ pc[p] = "done" /\ (users[p] = None \/ roles[p] = RoleOf(p))

\* Profiles without users and users without profiles have one explanation each.
ProfilesExplained == DanglingExplained /\ OrphansExplained
=============================================================================

-------------------------- MODULE RegistrationProofs --------------------------
(***************************************************************************)
(* One account per e-mail, and why an athlete has two users or a user no   *)
(* athlete, for any number of sign-ups and administrators.                 *)
(*                                                                         *)
(* The invariant speaks of the transactions that have not committed: their *)
(* e-mails differ from each other and from all accounts, and whoever has   *)
(* bound an athlete since one looked is in its history.                    *)
(***************************************************************************)
EXTENDS Registration, TLAPS

\* What a sign-up or an administrator was given, by place.
JobInv ==
    \A r \in Requests :
        /\ pc[r] \in Inserted \cup {"validate", "insert"} => job[r].email \in Emails
        /\ pc[r] \in {"find", "check"} => job[r].role = "athlete"
        /\ pc[r] = "profile" => job[r].role \in {"coach", "parent"}
        /\ job[r].role = "athlete" => job[r].athlete \in Athletes
        /\ pc[r] = "set" => job[r].user \in Requests /\ job[r].new \in Role
        /\ pc[r] \in {"idle", "set"} => job[r].role = "none"

\* A request has no rows before it commits.
FreshInv ==
    \A r \in Requests : pc[r] # "done" => users[r] = None /\ r \notin profiles

\* An e-mail that is inserted and not committed is nobody else's.
HeldInv ==
    \A q \in Requests : pc[q] \in Inserted =>
        /\ \A u \in Requests : users[u] # job[q].email
        /\ \A p \in Requests : pc[p] \in Inserted /\ job[p].email = job[q].email => p = q

\* A role is the one its sign-up gave, unless an administrator wrote it.
GivenInv ==
    \A u \in Requests : roles[u] # None /\ u \notin assigned =>
        pc[u] = "done" /\ job[u].role # "none" /\ roles[u] = RoleOf(u)

\* Who has bound the athlete since it was looked for.
RaceInv ==
    \A q, u \in Requests :
        /\ pc[q] \in {"bind", "commit"} /\ job[q].role = "athlete"
        /\ roles[u] = AthleteRole(job[q].athlete)
        => u \in raced[q] \/ u \in assigned

\* An athlete that was found is there, or is deleted since.
FoundInv ==
    \A q \in Requests :
        /\ pc[q] \in {"check", "bind", "commit", "done"} /\ job[q].role = "athlete"
        => job[q].athlete \in athletes \/ q \in gone

IInv == /\ TypeOK /\ JobInv /\ FreshInv /\ HeldInv /\ GivenInv /\ RaceInv /\ FoundInv
        /\ OneAccountPerEmail /\ BoundOnceUnlessRaced /\ OrphansExplained

-----------------------------------------------------------------------------

LEMMA InitIInv == Init => IInv
<1> SUFFICES ASSUME Init PROVE IInv
  OBVIOUS
<1> USE NamesAssumption DEF Init
<1>1. TypeOK
  BY DEF TypeOK, NoJob, Jobs
<1>2. JobInv
  BY DEF JobInv, NoJob, Inserted
<1>3. FreshInv /\ HeldInv /\ GivenInv /\ FoundInv /\ OrphansExplained
  BY DEF FreshInv, HeldInv, GivenInv, FoundInv, OrphansExplained, Inserted
<1>4. RaceInv
  BY DEF RaceInv
<1>5. OneAccountPerEmail /\ BoundOnceUnlessRaced
  BY DEF OneAccountPerEmail, BoundOnceUnlessRaced, Accounts
<1>6. QED
  BY <1>1, <1>2, <1>3, <1>4, <1>5 DEF IInv

\* The role a sign-up gives is a role, and its own.
LEMMA RoleOfIsRole ==
  ASSUME TypeOK, JobInv, NEW r \in Requests, job[r].role # "none"
  PROVE  /\ RoleOf(r) \in Role
         /\ RoleOf(r) # None
         /\ RoleOf(r).type = job[r].role
         /\ RoleOf(r).profile = IF job[r].role = "athlete" THEN job[r].athlete ELSE r
<1>1. job[r].role \in {"athlete", "coach", "parent"}
  BY DEF TypeOK, Jobs
<1>2. RoleOf(r) = [type |-> job[r].role,
                   profile |-> IF job[r].role = "athlete" THEN job[r].athlete ELSE r]
  BY DEF RoleOf
<1>3. (IF job[r].role = "athlete" THEN job[r].athlete ELSE r) \in Profiles
  BY DEF JobInv, Profiles
<1>4. RoleOf(r) \in Role
  BY <1>1, <1>2, <1>3 DEF Role
<1>5. QED
  BY <1>2, <1>4, NamesAssumption

\* Type correctness, action by action.
LEMMA TypeStep == IInv /\ [Next]_vars => TypeOK'
<1> SUFFICES ASSUME IInv, [Next]_vars PROVE TypeOK'
  OBVIOUS
<1> USE DEF IInv, tables, history
<1>1. ASSUME NEW r \in Requests, StartSignup(r) PROVE TypeOK'
  <2>1. PICK e \in Emails, role \in {"none", "athlete", "coach", "parent"}, a \in Athletes :
           job' = [job EXCEPT ![r] = [NoJob EXCEPT !.email = e, !.role = role,
                                         !.athlete = IF role = "athlete" THEN a ELSE None]]
    BY <1>1 DEF StartSignup
  <2>2. [NoJob EXCEPT !.email = e, !.role = role,
                      !.athlete = IF role = "athlete" THEN a ELSE None] \in Jobs
    BY DEF NoJob, Jobs
  <2>3. job' \in [Requests -> Jobs]
    BY <2>1, <2>2 DEF TypeOK
  <2>4. QED
    BY <1>1, <2>3 DEF TypeOK, StartSignup, Goto
<1>2. ASSUME NEW r \in Requests,
             Validate(r) \/ InsertUser(r) \/ FindAthlete(r) \/ CheckBound(r)
               \/ CreateProfile(r) \/ BindRole(r) \/ Fail(r)
      PROVE  TypeOK'
  <2>1. PICK l \in Inserted \cup {"insert", "refused", "failed"} : Goto(r, l)
    BY <1>2 DEF Validate, InsertUser, FindAthlete, CheckBound, CreateProfile, BindRole, Fail,
                RoleStep, Inserted
  <2>2. UNCHANGED <<tables, job, history>>
    BY <1>2 DEF Validate, InsertUser, FindAthlete, CheckBound, CreateProfile, BindRole, Fail
  <2>3. QED
    BY <2>1, <2>2 DEF TypeOK, Goto
<1>3. ASSUME NEW r \in Requests, Commit(r) PROVE TypeOK'
  <2>1. job[r].email \in Emails
    BY <1>3 DEF Commit, JobInv, Inserted
  <2>2. RoleOf(r) \in Role \cup {None}
    BY RoleOfIsRole DEF RoleOf
  <2>3. users' \in [Requests -> Emails \cup {None}] /\ roles' \in [Requests -> Role \cup {None}]
    BY <1>3, <2>1, <2>2 DEF Commit, TypeOK
  <2>4. \A u \in Requests : roles'[u] # None => users'[u] # None
    BY <1>3, <2>1, NamesAssumption DEF Commit, TypeOK
  <2>5. QED
    BY <1>3, <2>3, <2>4 DEF TypeOK, Commit, Goto
<1>4. ASSUME NEW r \in Requests, AdminReadRole(r) PROVE TypeOK'
  <2>1. job' \in [Requests -> Jobs]
    <3>1. CASE UNCHANGED job
      BY <3>1 DEF TypeOK
    <3>2. CASE \E u \in Accounts, new \in Role :
                  job' = [job EXCEPT ![r] = [NoJob EXCEPT !.user = u, !.new = new]]
      <4>1. PICK u \in Accounts, new \in Role :
                job' = [job EXCEPT ![r] = [NoJob EXCEPT !.user = u, !.new = new]]
        BY <3>2
      <4>2. [NoJob EXCEPT !.user = u, !.new = new] \in Jobs
        BY DEF NoJob, Jobs, Accounts
      <4>3. QED
        BY <4>1, <4>2 DEF TypeOK
    <3>3. QED
      BY <1>4, <3>1, <3>2 DEF AdminReadRole
  <2>2. QED
    BY <1>4, <2>1 DEF TypeOK, AdminReadRole, Goto
<1>5. ASSUME NEW r \in Requests, AdminSaveRole(r) PROVE TypeOK'
  BY <1>5 DEF TypeOK, AdminSaveRole, Goto, JobInv
<1>6. ASSUME NEW r \in Requests, AdminDeleteRole(r) PROVE TypeOK'
  BY <1>6 DEF TypeOK, AdminDeleteRole, Goto, Accounts
<1>7. ASSUME NEW r \in Requests, DeleteUser(r) PROVE TypeOK'
  BY <1>7 DEF TypeOK, DeleteUser, Goto, Accounts
<1>8. ASSUME NEW r \in Requests, DeleteAthlete(r) PROVE TypeOK'
  BY <1>8 DEF TypeOK, DeleteAthlete, Goto
<1>9. CASE UNCHANGED vars
  BY <1>9 DEF TypeOK, vars
<1>10. QED
  BY <1>1, <1>2, <1>3, <1>4, <1>5, <1>6, <1>7, <1>8, <1>9 DEF Next

LEMMA JobStep == IInv /\ [Next]_vars => JobInv'
<1> SUFFICES ASSUME IInv, [Next]_vars PROVE JobInv'
  OBVIOUS
<1> USE DEF IInv, TypeOK, tables, history
<1>1. ASSUME NEW r \in Requests, StartSignup(r) PROVE JobInv'
  <2>1. PICK e \in Emails, role \in {"none", "athlete", "coach", "parent"}, a \in Athletes :
           job' = [job EXCEPT ![r] = [NoJob EXCEPT !.email = e, !.role = role,
                                         !.athlete = IF role = "athlete" THEN a ELSE None]]
    BY <1>1 DEF StartSignup
  <2>2. /\ job'[r].email = e /\ job'[r].role = role
        /\ role = "athlete" => job'[r].athlete = a
    BY <2>1 DEF NoJob
  <2>3. /\ pc'[r] = "validate"
        /\ \A q \in Requests \ {r} : pc'[q] = pc[q] /\ job'[q] = job[q]
    BY <1>1, <2>1 DEF StartSignup, Goto
  <2>4. QED
    BY <2>2, <2>3 DEF JobInv, Inserted
<1>2. ASSUME NEW r \in Requests,
             Validate(r) \/ InsertUser(r) \/ FindAthlete(r) \/ CheckBound(r)
               \/ CreateProfile(r) \/ BindRole(r) \/ Fail(r)
      PROVE  JobInv'
  <2>1. CASE InsertUser(r)
    <3>1. job[r].role \in {"none", "athlete", "coach", "parent"}
      BY DEF Jobs
    <3>2. QED
      BY <2>1, <3>1 DEF JobInv, InsertUser, RoleStep, Goto, Inserted
  <2>2. QED
    BY <1>2, <2>1 DEF JobInv, Validate, FindAthlete, CheckBound, CreateProfile, BindRole, Fail,
                      Goto, Inserted
<1>3. ASSUME NEW r \in Requests, AdminReadRole(r) PROVE JobInv'
  <2>1. CASE UNCHANGED job /\ Goto(r, "failed")
    BY <2>1 DEF JobInv, Goto, Inserted
  <2>2. CASE \E u \in Accounts, new \in Role :
                /\ job' = [job EXCEPT ![r] = [NoJob EXCEPT !.user = u, !.new = new]]
                /\ Goto(r, "set")
    <3>1. PICK u \in Accounts, new \in Role :
              /\ job' = [job EXCEPT ![r] = [NoJob EXCEPT !.user = u, !.new = new]]
              /\ Goto(r, "set")
      BY <2>2
    <3>2. job'[r].role = "none" /\ job'[r].user = u /\ job'[r].new = new
      BY <3>1 DEF NoJob
    <3>3. QED
      BY <3>1, <3>2 DEF JobInv, Goto, Inserted, Accounts
  <2>3. QED
    BY <1>3, <2>1, <2>2 DEF AdminReadRole
<1>4. ASSUME NEW r \in Requests,
             Commit(r) \/ AdminSaveRole(r) \/ AdminDeleteRole(r) \/ DeleteUser(r)
               \/ DeleteAthlete(r)
      PROVE  JobInv'
  BY <1>4 DEF JobInv, Commit, AdminSaveRole, AdminDeleteRole, DeleteUser, DeleteAthlete,
              Goto, Inserted
<1>5. CASE UNCHANGED vars
  BY <1>5 DEF JobInv, vars
<1>6. QED
  BY <1>1, <1>2, <1>3, <1>4, <1>5 DEF Next

LEMMA FreshStep == IInv /\ [Next]_vars => FreshInv'
<1> SUFFICES ASSUME IInv, [Next]_vars PROVE FreshInv'
  OBVIOUS
<1> USE DEF IInv, TypeOK, tables, history
<1>1. ASSUME NEW r \in Requests,
             StartSignup(r) \/ Validate(r) \/ InsertUser(r) \/ FindAthlete(r) \/ CheckBound(r)
               \/ CreateProfile(r) \/ BindRole(r) \/ Fail(r)
      PROVE  FreshInv'
  <2>1. pc[r] # "done" /\ UNCHANGED <<users, profiles>>
    BY <1>1 DEF StartSignup, Validate, InsertUser, FindAthlete, CheckBound, CreateProfile,
                BindRole, Fail, Inserted
  <2>2. \A q \in Requests \ {r} : pc'[q] = pc[q]
    BY <1>1 DEF StartSignup, Validate, InsertUser, FindAthlete, CheckBound, CreateProfile,
                BindRole, Fail, Goto
  <2>3. QED
    BY <2>1, <2>2 DEF FreshInv
<1>2. ASSUME NEW r \in Requests, Commit(r) PROVE FreshInv'
  BY <1>2 DEF FreshInv, Commit, Goto
<1>3. ASSUME NEW r \in Requests, AdminReadRole(r) \/ AdminSaveRole(r) \/ AdminDeleteRole(r)
                                   \/ DeleteAthlete(r)
      PROVE  FreshInv'
  BY <1>3 DEF FreshInv, AdminReadRole, AdminSaveRole, AdminDeleteRole, DeleteAthlete, Goto
<1>4. ASSUME NEW r \in Requests, DeleteUser(r) PROVE FreshInv'
  BY <1>4 DEF FreshInv, DeleteUser, Goto, Accounts
<1>5. CASE UNCHANGED vars
  BY <1>5 DEF FreshInv, vars
<1>6. QED
  BY <1>1, <1>2, <1>3, <1>4, <1>5 DEF Next

\* The transactions' e-mails; a commit turns one into an account.
LEMMA HeldStep == IInv /\ [Next]_vars => HeldInv' /\ OneAccountPerEmail'
<1> SUFFICES ASSUME IInv, [Next]_vars PROVE HeldInv' /\ OneAccountPerEmail'
  OBVIOUS
<1> USE NamesAssumption DEF IInv, TypeOK, tables, history
<1>1. ASSUME NEW r \in Requests, InsertUser(r) PROVE HeldInv'
  <2>1. CASE Taken(job[r].email)
    BY <1>1, <2>1 DEF HeldInv, InsertUser, Goto, Inserted
  <2>2. CASE ~Taken(job[r].email)
    <3>1. /\ pc' = [pc EXCEPT ![r] = RoleStep(job[r].role)] /\ UNCHANGED <<users, job>>
          /\ \A q \in Requests : pc[q] \in Inserted => job[q].email # job[r].email
      BY <1>1, <2>2 DEF InsertUser, Goto
    <3>2. \A u \in Requests : users[u] # job[r].email
      BY <2>2 DEF Taken
    <3>3. QED
      BY <3>1, <3>2 DEF HeldInv
  <2>3. QED
    BY <2>1, <2>2
<1>2. ASSUME NEW r \in Requests,
             StartSignup(r) \/ Validate(r) \/ FindAthlete(r) \/ CheckBound(r)
               \/ CreateProfile(r) \/ BindRole(r) \/ Fail(r) \/ AdminReadRole(r)
               \/ AdminSaveRole(r) \/ AdminDeleteRole(r) \/ DeleteAthlete(r)
      PROVE  HeldInv' /\ UNCHANGED users
  <2>1. UNCHANGED users
    BY <1>2 DEF StartSignup, Validate, FindAthlete, CheckBound, CreateProfile, BindRole, Fail,
                AdminReadRole, AdminSaveRole, AdminDeleteRole, DeleteAthlete
  <2>2. \A q \in Requests : pc'[q] \in Inserted => pc[q] \in Inserted /\ job'[q] = job[q]
    <3>1. CASE AdminReadRole(r)
      <4>1. pc' \in {[pc EXCEPT ![r] = "failed"], [pc EXCEPT ![r] = "set"]}
        BY <3>1 DEF AdminReadRole, Goto
      <4>2. \A q \in Requests \ {r} : job'[q] = job[q]
        BY <3>1 DEF AdminReadRole
      <4>3. QED
        BY <4>1, <4>2 DEF Inserted
    <3>2. CASE StartSignup(r)
      <4>1. /\ pc' = [pc EXCEPT ![r] = "validate"]
            /\ \A q \in Requests \ {r} : job'[q] = job[q]
        BY <3>2 DEF StartSignup, Goto
      <4>2. QED
        BY <4>1 DEF Inserted
    <3>3. QED
      BY <1>2, <3>1, <3>2 DEF Validate, FindAthlete, CheckBound, CreateProfile, BindRole,
                Fail, AdminSaveRole, AdminDeleteRole, DeleteAthlete, Goto, Inserted
  <2>3. QED
    BY <2>1, <2>2 DEF HeldInv
<1>3. ASSUME NEW r \in Requests, Commit(r) PROVE HeldInv' /\ OneAccountPerEmail'
  <2>1. pc[r] \in Inserted /\ UNCHANGED job /\ users' = [users EXCEPT ![r] = job[r].email]
    BY <1>3 DEF Commit, Inserted
  <2>2. \A q \in Requests : pc'[q] \in Inserted => pc[q] \in Inserted /\ q # r
    BY <1>3 DEF Commit, Goto, Inserted
  <2>3. HeldInv'
    BY <2>1, <2>2 DEF HeldInv
  <2>4. \A u \in Requests : users[u] # job[r].email
    BY <2>1 DEF HeldInv
  <2>5. OneAccountPerEmail'
    BY <2>1, <2>4 DEF OneAccountPerEmail, Accounts
  <2>6. QED
    BY <2>3, <2>5
<1>4. ASSUME NEW r \in Requests, DeleteUser(r) PROVE HeldInv' /\ OneAccountPerEmail'
  <2>1. PICK u \in Accounts : users' = [users EXCEPT ![u] = None]
    BY <1>4 DEF DeleteUser
  <2>2. /\ \A q \in Requests : pc'[q] \in Inserted => pc[q] \in Inserted
        /\ UNCHANGED job
    BY <1>4 DEF DeleteUser, Goto, Inserted
  <2>3. \A q \in Requests : pc[q] \in Inserted => job[q].email \in Emails
    BY DEF JobInv
  <2>4. HeldInv'
    BY <2>1, <2>2, <2>3 DEF HeldInv
  <2>5. OneAccountPerEmail'
    BY <2>1 DEF OneAccountPerEmail, Accounts
  <2>6. QED
    BY <2>4, <2>5
<1>5. CASE UNCHANGED vars
  BY <1>5 DEF HeldInv, OneAccountPerEmail, Accounts, vars
<1>6. UNCHANGED users => OneAccountPerEmail'
  BY DEF OneAccountPerEmail, Accounts
<1>7. ASSUME NEW r \in Requests, InsertUser(r) PROVE UNCHANGED users
  BY <1>7 DEF InsertUser
<1>8. QED
  BY <1>1, <1>2, <1>3, <1>4, <1>5, <1>6, <1>7 DEF Next

\* A request that is done stays done, and keeps what it was given.
LEMMA DoneStays ==
  ASSUME IInv, [Next]_vars, NEW u \in Requests, pc[u] = "done"
  PROVE  pc'[u] = "done" /\ job'[u] = job[u]
<1> USE DEF IInv, TypeOK, tables, history
<1>1. ASSUME NEW r \in Requests, AdminReadRole(r) PROVE pc'[u] = "done" /\ job'[u] = job[u]
  <2>1. r # u /\ pc' \in {[pc EXCEPT ![r] = "failed"], [pc EXCEPT ![r] = "set"]}
    BY <1>1 DEF AdminReadRole, Goto
  <2>2. \A q \in Requests \ {r} : job'[q] = job[q]
    BY <1>1 DEF AdminReadRole
  <2>3. QED
    BY <2>1, <2>2
<1>2. ASSUME NEW r \in Requests,
             StartSignup(r) \/ Validate(r) \/ InsertUser(r) \/ FindAthlete(r) \/ CheckBound(r)
               \/ CreateProfile(r) \/ BindRole(r) \/ Fail(r) \/ Commit(r) \/ AdminSaveRole(r)
               \/ AdminDeleteRole(r) \/ DeleteUser(r) \/ DeleteAthlete(r)
      PROVE  pc'[u] = "done" /\ job'[u] = job[u]
  BY <1>2 DEF StartSignup, Validate, InsertUser, FindAthlete, CheckBound, CreateProfile,
              BindRole, Fail, Commit, AdminSaveRole, AdminDeleteRole, DeleteUser,
              DeleteAthlete, Goto, Inserted
<1>3. CASE UNCHANGED vars
  BY <1>3 DEF vars
<1>4. QED
  BY <1>1, <1>2, <1>3 DEF Next

\* What each step does to roles: a commit gives one, an administrator writes or deletes
\* one, and a user takes one along.
LEMMA RolesStep ==
  ASSUME IInv, [Next]_vars
  PROVE  \/ UNCHANGED <<roles, users, profiles, assigned, raced>>
         \/ \E r \in Requests : Commit(r)
         \/ /\ UNCHANGED <<users, profiles, raced>>
            /\ \E u \in Requests : /\ roles' = [roles EXCEPT ![u] = roles'[u]]
                                   /\ assigned' = assigned \cup {u}
                                   /\ roles'[u] # None => roles[u] # None
         \/ /\ UNCHANGED <<profiles, raced, assigned>>
            /\ \E u \in Requests : /\ roles' = [roles EXCEPT ![u] = None]
                                   /\ users' = [users EXCEPT ![u] = None]
<1> USE DEF IInv, TypeOK, tables, history
<1> DEFINE Goal == \/ UNCHANGED <<roles, users, profiles, assigned, raced>>
                   \/ \E r \in Requests : Commit(r)
                   \/ /\ UNCHANGED <<users, profiles, raced>>
                      /\ \E u \in Requests : /\ roles' = [roles EXCEPT ![u] = roles'[u]]
                                             /\ assigned' = assigned \cup {u}
                                             /\ roles'[u] # None => roles[u] # None
                   \/ /\ UNCHANGED <<profiles, raced, assigned>>
                      /\ \E u \in Requests : /\ roles' = [roles EXCEPT ![u] = None]
                                             /\ users' = [users EXCEPT ![u] = None]
<1>1. ASSUME NEW r \in Requests,
             StartSignup(r) \/ Validate(r) \/ InsertUser(r) \/ FindAthlete(r) \/ CheckBound(r)
               \/ CreateProfile(r) \/ BindRole(r) \/ Fail(r) \/ AdminReadRole(r)
               \/ DeleteAthlete(r)
      PROVE  UNCHANGED <<roles, users, profiles, assigned, raced>>
  BY <1>1 DEF StartSignup, Validate, InsertUser, FindAthlete, CheckBound, CreateProfile,
              BindRole, Fail, AdminReadRole, DeleteAthlete
<1>2. ASSUME NEW r \in Requests, AdminSaveRole(r) PROVE Goal
  <2>1. job[r].user \in Requests
    BY <1>2 DEF AdminSaveRole, JobInv
  <2>2. QED
    BY <1>2, <2>1 DEF AdminSaveRole
<1>3. ASSUME NEW r \in Requests, AdminDeleteRole(r) PROVE Goal
  BY <1>3 DEF AdminDeleteRole, Accounts
<1>4. ASSUME NEW r \in Requests, DeleteUser(r) PROVE Goal
  BY <1>4 DEF DeleteUser, Accounts
<1>5. CASE UNCHANGED vars
  BY <1>5 DEF vars
<1>6. QED
  BY <1>1, <1>2, <1>3, <1>4, <1>5 DEF Next

LEMMA GivenStep == IInv /\ [Next]_vars => GivenInv' /\ OrphansExplained'
<1> SUFFICES ASSUME IInv, [Next]_vars PROVE GivenInv' /\ OrphansExplained'
  OBVIOUS
<1> USE DEF IInv, TypeOK
<1>1. \A u \in Requests : pc[u] = "done" => pc'[u] = "done" /\ RoleOf(u)' = RoleOf(u)
                                               /\ job'[u] = job[u]
  BY DoneStays DEF RoleOf
<1>2. CASE UNCHANGED <<roles, users, profiles, assigned, raced>>
  BY <1>1, <1>2 DEF GivenInv, OrphansExplained
<1>3. ASSUME NEW r \in Requests, Commit(r) PROVE GivenInv' /\ OrphansExplained'
  <2>1. /\ roles' = [roles EXCEPT ![r] = RoleOf(r)] /\ pc'[r] = "done" /\ UNCHANGED <<job, assigned>>
        /\ profiles' \subseteq profiles \cup {r}
        /\ \A u \in Requests \ {r} : users'[u] = users[u]
    BY <1>3 DEF Commit, Goto
  <2>2. RoleOf(r)' = RoleOf(r) /\ (RoleOf(r) # None => job[r].role # "none")
    BY <2>1 DEF RoleOf
  <2>3. GivenInv'
    BY <1>1, <2>1, <2>2 DEF GivenInv
  <2>4. OrphansExplained'
    BY <1>1, <2>1, <2>2 DEF OrphansExplained
  <2>5. QED
    BY <2>3, <2>4
<1>4. CASE /\ UNCHANGED <<users, profiles, raced>>
           /\ \E u \in Requests : /\ roles' = [roles EXCEPT ![u] = roles'[u]]
                                  /\ assigned' = assigned \cup {u}
  <2>1. PICK u \in Requests : /\ roles' = [roles EXCEPT ![u] = roles'[u]]
                              /\ assigned' = assigned \cup {u}
    BY <1>4
  <2>2. \A v \in Requests \ {u} : roles'[v] = roles[v]
    BY <2>1
  <2> HIDE DEF TypeOK
  <2>3. TypeOK
    BY DEF IInv
  <2>4. GivenInv'
    BY <1>1, <2>1, <2>2 DEF GivenInv
  <2>5. OrphansExplained'
    BY <1>1, <1>4, <2>1, <2>2, <2>3 DEF OrphansExplained, TypeOK
  <2>6. QED
    BY <2>4, <2>5
<1>5. CASE /\ UNCHANGED <<profiles, raced, assigned>>
           /\ \E u \in Requests : /\ roles' = [roles EXCEPT ![u] = None]
                                  /\ users' = [users EXCEPT ![u] = None]
  BY <1>1, <1>5 DEF GivenInv, OrphansExplained
<1>6. QED
  BY <1>2, <1>3, <1>4, <1>5, RolesStep

LEMMA RaceStep == IInv /\ [Next]_vars => RaceInv'
<1> SUFFICES ASSUME IInv, [Next]_vars,
                    NEW q \in Requests, NEW u \in Requests,
                    pc'[q] \in {"bind", "commit"}, job'[q].role = "athlete",
                    roles'[u] = AthleteRole(job'[q].athlete)
             PROVE  u \in raced'[q] \/ u \in assigned'
  BY DEF RaceInv, AthleteRole
<1> USE DEF IInv, tables, history
<1>1. CASE CheckBound(q)
  BY <1>1 DEF CheckBound, TypeOK, Goto
<1>2. CASE ~CheckBound(q)
  <2>1. /\ pc[q] \in {"bind", "commit"} /\ job'[q] = job[q]
        /\ raced[q] \subseteq raced'[q] /\ assigned \subseteq assigned'
    <3>1. ASSUME NEW r \in Requests,
                 StartSignup(r) \/ Validate(r) \/ InsertUser(r) \/ FindAthlete(r)
                   \/ CheckBound(r) \/ CreateProfile(r) \/ BindRole(r) \/ Fail(r)
          PROVE  pc[q] \in {"bind", "commit"} /\ job'[q] = job[q]
      <4>1. CASE r # q
        BY <3>1, <4>1 DEF StartSignup, Validate, InsertUser, FindAthlete, CheckBound,
                  CreateProfile, BindRole, Fail, Goto, TypeOK
      <4>2. CASE r = q
        BY <1>2, <3>1, <4>2 DEF StartSignup, Validate, InsertUser, FindAthlete,
                  CreateProfile, BindRole, Fail, Goto, TypeOK, RoleStep, JobInv
      <4>3. QED
        BY <4>1, <4>2
    <3>2. ASSUME NEW r \in Requests, AdminReadRole(r)
          PROVE  pc[q] \in {"bind", "commit"} /\ job'[q] = job[q]
      <4>1. pc' \in {[pc EXCEPT ![r] = "failed"], [pc EXCEPT ![r] = "set"]}
        BY <3>2 DEF AdminReadRole, Goto
      <4>2. q # r
        BY <4>1 DEF TypeOK
      <4>3. job'[q] = job[q]
        BY <3>2, <4>2 DEF AdminReadRole, TypeOK
      <4>4. QED
        BY <4>1, <4>2, <4>3 DEF TypeOK
    <3>3. ASSUME NEW r \in Requests,
                 Commit(r) \/ AdminSaveRole(r) \/ AdminDeleteRole(r) \/ DeleteUser(r)
                   \/ DeleteAthlete(r)
          PROVE  pc[q] \in {"bind", "commit"} /\ job'[q] = job[q]
      BY <3>3 DEF Commit, AdminSaveRole, AdminDeleteRole, DeleteUser, DeleteAthlete, Goto, TypeOK
    <3>4. CASE UNCHANGED vars
      BY <3>4 DEF vars
    <3>5. ASSUME NEW r \in Requests, Commit(r)
          PROVE  raced[q] \subseteq raced'[q] /\ assigned \subseteq assigned'
      BY <3>5 DEF Commit, TypeOK
    <3>6. raced[q] \subseteq raced'[q] /\ assigned \subseteq assigned'
      BY <3>5, RolesStep
    <3>7. QED
      BY <3>1, <3>2, <3>3, <3>4, <3>6 DEF Next
  <2>2. CASE roles'[u] = roles[u]
    BY <2>1, <2>2 DEF RaceInv
  <2>3. ASSUME NEW r \in Requests, Commit(r), roles'[u] # roles[u] PROVE u \in raced'[q]
    <3>1. r = u /\ roles'[u] = RoleOf(u) /\ q # u
      BY <2>3, <2>1 DEF Commit, TypeOK, Goto
    <3>2. RoleOf(u) = AthleteRole(job[q].athlete)
      BY <3>1, <2>1
    <3>3. AthleteRole(job[q].athlete) # None
      BY <2>1, NamesAssumption DEF JobInv, AthleteRole, Role, Profiles
    <3>4. job[u].role # "none"
      BY <3>2, <3>3 DEF RoleOf
    <3>5. job[u].role = "athlete" /\ job[u].athlete = job[q].athlete
      BY <3>2, <3>4, RoleOfIsRole DEF AthleteRole
    <3>6. QED
      BY <2>1, <2>3, <3>1, <3>5 DEF Commit, TypeOK
  <2>4. roles'[u] # None
    <3>1. job[q].athlete \in Athletes
      BY <2>1 DEF JobInv
    <3>2. QED
      BY <2>1, <3>1, NamesAssumption DEF AthleteRole, Role, Profiles
  <2>5. QED
    BY <2>2, <2>3, <2>4, RolesStep DEF TypeOK
<1>3. QED
  BY <1>1, <1>2

\* Two users share a role only by a race or an administrator.
LEMMA BoundStep == IInv /\ [Next]_vars => BoundOnceUnlessRaced'
<1> SUFFICES ASSUME IInv, [Next]_vars PROVE BoundOnceUnlessRaced'
  OBVIOUS
<1> USE DEF IInv
<1>r. \A u \in Requests : roles[u] # None => u \in Accounts
  BY DEF TypeOK, Accounts
<1>1. CASE UNCHANGED <<roles, users, profiles, assigned, raced>>
  BY <1>1 DEF BoundOnceUnlessRaced, Accounts
<1>2. ASSUME NEW r \in Requests, Commit(r) PROVE BoundOnceUnlessRaced'
  <2>1. /\ roles' = [roles EXCEPT ![r] = RoleOf(r)] /\ UNCHANGED assigned
        /\ \A q \in Requests : raced[q] \subseteq raced'[q]
    BY <1>2 DEF Commit, TypeOK
  <2>2. ASSUME NEW v \in Requests, v # r, RoleOf(r) # None, roles[v] = RoleOf(r)
        PROVE  v \in raced[r] \/ v \in assigned
    <3>1. job[r].role # "none"
      BY <2>2 DEF RoleOf
    <3>2. CASE job[r].role = "athlete"
      <4>1. RoleOf(r) = AthleteRole(job[r].athlete)
        BY <3>2 DEF RoleOf, AthleteRole
      <4>2. pc[r] = "commit"
        BY <1>2 DEF Commit
      <4>3. QED
        BY <2>2, <3>2, <4>1, <4>2 DEF RaceInv
    <3>3. CASE job[r].role # "athlete" /\ v \notin assigned
      <4>1. job[v].role # "none" /\ RoleOf(v) = RoleOf(r)
        BY <2>2, <3>3 DEF GivenInv
      <4>2. RoleOf(r).profile = r
        BY <3>1, <3>3, RoleOfIsRole
      <4>3. RoleOf(v).profile = IF job[v].role = "athlete" THEN job[v].athlete ELSE v
        BY <4>1, RoleOfIsRole
      <4>4. job[v].role = "athlete" => job[v].athlete \in Athletes
        BY DEF JobInv
      <4>5. QED
        BY <2>2, <4>1, <4>2, <4>3, <4>4, NamesAssumption
    <3>4. QED
      BY <3>2, <3>3
  <2>3. ASSUME NEW u \in Requests, NEW v \in Requests, u # v,
               roles'[u] # None, roles'[u] = roles'[v]
        PROVE  {u, v} \cap assigned' # {} \/ u \in raced'[v] \/ v \in raced'[u]
    <3>1. CASE u = r
      BY <2>1, <2>2, <2>3, <3>1 DEF TypeOK
    <3>2. CASE v = r
      BY <2>1, <2>2, <2>3, <3>2 DEF TypeOK
    <3>3. CASE u # r /\ v # r
      BY <1>r, <2>1, <2>3, <3>3 DEF BoundOnceUnlessRaced, TypeOK
    <3>4. QED
      BY <3>1, <3>2, <3>3
  <2>4. QED
    BY <2>3 DEF BoundOnceUnlessRaced, Accounts
<1>3. CASE /\ UNCHANGED <<users, profiles, raced>>
           /\ \E u \in Requests : /\ roles' = [roles EXCEPT ![u] = roles'[u]]
                                  /\ assigned' = assigned \cup {u}
  <2>1. PICK w \in Requests : /\ roles' = [roles EXCEPT ![w] = roles'[w]]
                              /\ assigned' = assigned \cup {w}
    BY <1>3
  <2>2. \A v \in Requests \ {w} : roles'[v] = roles[v]
    BY <2>1 DEF TypeOK
  <2>3. Accounts' = Accounts
    BY <1>3 DEF Accounts
  <2>4. QED
    BY <1>3, <2>1, <2>2, <2>3 DEF BoundOnceUnlessRaced, Accounts
<1>4. CASE /\ UNCHANGED <<profiles, raced, assigned>>
           /\ \E u \in Requests : /\ roles' = [roles EXCEPT ![u] = None]
                                  /\ users' = [users EXCEPT ![u] = None]
  BY <1>r, <1>4 DEF BoundOnceUnlessRaced, Accounts, TypeOK
<1>5. QED
  BY <1>1, <1>2, <1>3, <1>4, RolesStep

LEMMA FoundStep == IInv /\ [Next]_vars => FoundInv'
<1> SUFFICES ASSUME IInv, [Next]_vars,
                    NEW q \in Requests,
                    pc'[q] \in {"check", "bind", "commit", "done"}, job'[q].role = "athlete"
             PROVE  job'[q].athlete \in athletes' \/ q \in gone'
  BY DEF FoundInv
<1> USE DEF IInv, TypeOK, tables, history
<1>1. ASSUME NEW r \in Requests, StartSignup(r)
      PROVE  job'[q].athlete \in athletes' \/ q \in gone'
  <2>1. pc' = [pc EXCEPT ![r] = "validate"] /\ UNCHANGED <<athletes, gone>>
    BY <1>1 DEF StartSignup, Goto
  <2>2. q # r /\ job'[q] = job[q]
    BY <1>1, <2>1 DEF StartSignup
  <2>3. QED
    BY <2>1, <2>2 DEF FoundInv
<1>2. ASSUME NEW r \in Requests,
             Validate(r) \/ InsertUser(r) \/ CheckBound(r) \/ CreateProfile(r)
               \/ BindRole(r) \/ Fail(r)
      PROVE  job'[q].athlete \in athletes' \/ q \in gone'
  <2>1. UNCHANGED <<athletes, job, gone>>
    BY <1>2 DEF Validate, InsertUser, CheckBound, CreateProfile, BindRole, Fail
  <2>2. pc[q] \in {"check", "bind", "commit", "done"}
    <3>1. CASE r # q
      BY <1>2, <3>1 DEF Validate, InsertUser, CheckBound, CreateProfile, BindRole, Fail, Goto
    <3>2. CASE r = q
      BY <1>2, <2>1, <3>2 DEF Validate, InsertUser, CheckBound, CreateProfile, BindRole, Fail,
                              Goto, RoleStep, JobInv
    <3>3. QED
      BY <3>1, <3>2
  <2>3. QED
    BY <2>1, <2>2 DEF FoundInv
<1>3. ASSUME NEW r \in Requests, FindAthlete(r)
      PROVE  job'[q].athlete \in athletes' \/ q \in gone'
  BY <1>3 DEF FindAthlete, Goto, FoundInv
<1>4. ASSUME NEW r \in Requests, AdminReadRole(r)
      PROVE  job'[q].athlete \in athletes' \/ q \in gone'
  <2>1. pc' \in {[pc EXCEPT ![r] = "failed"], [pc EXCEPT ![r] = "set"]}
    BY <1>4 DEF AdminReadRole, Goto
  <2>2. q # r
    BY <2>1
  <2>3. job'[q] = job[q]
    BY <1>4, <2>2 DEF AdminReadRole
  <2>4. QED
    BY <1>4, <2>1, <2>2, <2>3 DEF AdminReadRole, FoundInv
<1>5. ASSUME NEW r \in Requests,
             Commit(r) \/ AdminSaveRole(r) \/ AdminDeleteRole(r) \/ DeleteUser(r)
      PROVE  job'[q].athlete \in athletes' \/ q \in gone'
  <2>1. UNCHANGED <<athletes, job, gone>>
    BY <1>5 DEF Commit, AdminSaveRole, AdminDeleteRole, DeleteUser
  <2>2. pc[q] \in {"check", "bind", "commit", "done"}
    BY <1>5, <2>1 DEF Commit, AdminSaveRole, AdminDeleteRole, DeleteUser, Goto, JobInv
  <2>3. QED
    BY <2>1, <2>2 DEF FoundInv
<1>6. ASSUME NEW r \in Requests, DeleteAthlete(r)
      PROVE  job'[q].athlete \in athletes' \/ q \in gone'
  <2>1. PICK a \in athletes :
           /\ athletes' = athletes \ {a}
           /\ gone' = gone \cup {p \in Requests : job[p].athlete = a
                                     /\ pc[p] \in {"check", "bind", "commit", "done"}}
    BY <1>6 DEF DeleteAthlete
  <2>2. job' = job /\ q # r /\ pc'[q] = pc[q]
    BY <1>6 DEF DeleteAthlete, Goto, JobInv
  <2>3. QED
    BY <2>1, <2>2 DEF FoundInv
<1>7. CASE UNCHANGED vars
  BY <1>7 DEF FoundInv, vars
<1>8. QED
  BY <1>1, <1>2, <1>3, <1>4, <1>5, <1>6, <1>7 DEF Next

-----------------------------------------------------------------------------

\* The inductive invariant holds in every state (sign-ups, administration and
\* deletions, whatever their order).
THEOREM Invariance == Spec => []IInv
<1>1. IInv /\ [Next]_vars => IInv'
  BY TypeStep, JobStep, FreshStep, HeldStep, GivenStep, RaceStep, BoundStep, FoundStep DEF IInv
<1>2. QED
  BY InitIInv, <1>1, PTL DEF Spec

\* A role always has its user, and every row and request is of its type.
THEOREM TypeCorrectness == Spec => []TypeOK
<1>1. IInv => TypeOK
  BY DEF IInv
<1>2. QED
  BY Invariance, <1>1, PTL

\* No e-mail has two accounts, for any number of concurrent sign-ups.
THEOREM EmailTheorem == Spec => []OneAccountPerEmail
<1>1. IInv => OneAccountPerEmail
  BY DEF IInv
<1>2. QED
  BY Invariance, <1>1, PTL

\* An athlete has two users only if each checked before the other committed, or an
\* administrator wrote a role.
THEOREM BoundTheorem == Spec => []BoundOnceUnlessRaced
<1>1. IInv => BoundOnceUnlessRaced
  BY DEF IInv
<1>2. QED
  BY Invariance, <1>1, PTL

\* Both together: who has an account, and who is an athlete.
THEOREM AccountsTheorem == Spec => []AccountsUnique
<1>1. AccountsUnique <=> OneAccountPerEmail /\ BoundOnceUnlessRaced
  BY DEF AccountsUnique
<1>2. QED
  BY EmailTheorem, BoundTheorem, <1>1, PTL

\* The athlete of a user is there, or was deleted after the sign-up found it; a
\* sign-up that fails leaves no coach and no parent behind.
THEOREM ProfilesTheorem == Spec => []ProfilesExplained
<1>1. IInv => DanglingExplained
  <2> SUFFICES ASSUME IInv, NEW u \in Accounts \ assigned,
                      roles[u] # None, roles[u].type = "athlete"
               PROVE  roles[u].profile \in athletes \/ u \in gone
    BY DEF DanglingExplained
  <2> USE DEF IInv
  <2>1. u \in Requests /\ pc[u] = "done" /\ job[u].role # "none" /\ roles[u] = RoleOf(u)
    BY DEF GivenInv, Accounts
  <2>2. job[u].role = "athlete" /\ roles[u].profile = job[u].athlete
    BY <2>1, RoleOfIsRole
  <2>3. QED
    BY <2>1, <2>2 DEF FoundInv
<1>2. IInv => OrphansExplained
  BY DEF IInv
<1>3. QED
  BY Invariance, <1>1, <1>2, PTL DEF ProfilesExplained
=============================================================================

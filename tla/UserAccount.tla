----------------------------- MODULE UserAccount -----------------------------
(***************************************************************************)
(* One user's row and one-time codes: sending and entering a verification  *)
(* code, asking for and following a password-reset link, changing the      *)
(* password, granting and revoking '*', deletion by an administrator and   *)
(* by the job that removes unverified accounts after a day.                *)
(*                                                                         *)
(* Every handler reads rows, decides, and writes them back in later        *)
(* statements, with no lock and no transaction.  `save()` writes every     *)
(* column of the object that was read, so it also writes what has become   *)
(* stale; saving or deleting a row that is gone does nothing.              *)
(*                                                                         *)
(* A request is used once.  The code it mails and the password it sets are *)
(* named after it.                                                         *)
(***************************************************************************)
EXTENDS Integers, FiniteSets

CONSTANTS
    Requests,       \* handler executions, each used once
    Job,            \* the one that is the deletion job
    MaxAttempts,    \* wrong guesses that deactivate a code (3 in the code)
    None

ASSUME AttemptsAssumption == MaxAttempts \in Nat \ {0}
ASSUME RequestsAssumption == Job \in Requests /\ None \notin Requests

VARIABLES
    row,            \* the row of users, None once deleted
    codes,          \* rows of user_verifications
    active,         \* those with is_active
    attempts,       \* their attempt column
    expired,        \* codes at least an hour old
    day,            \* whether the account is a day old
    mailed,         \* codes in the user's mailbox
    pc, op,         \* where a request is and which handler it runs
    guess,          \* the code it was given, None for one never mailed
    copy,           \* the user row it read, while it is to use it again
    seen,           \* the code row it read
    seenAttempt,    \* and its attempt column
    superseded      \* history: codes a later send was to deactivate

table   == <<codes, active, attempts>>
clock   == <<expired, day>>
codeRow == <<seen, seenAttempt>>
vars == <<row, table, clock, mailed, pc, op, guess, copy, codeRow, superseded>>

Row == [password : Requests \cup {None}, verified : BOOLEAN, admin : BOOLEAN]

ASSUME NoneAssumption == None \notin Row

Handlers == {"none", "send", "request", "verify", "reset", "change", "set",
             "grant", "revoke", "delete", "job"}

Final == {"done", "refused", "rejected", "expired", "crashed"}

Labels == Final \cup {"idle", "limit", "retire", "create", "mail", "code",
                      "right", "wrong", "save", "delete"}

TypeOK ==
    /\ row \in Row \cup {None}
    /\ codes \subseteq Requests
    /\ active \subseteq codes
    /\ attempts \in [Requests -> 0 .. MaxAttempts]
    /\ expired \subseteq Requests
    /\ day \in BOOLEAN
    /\ mailed \subseteq Requests
    /\ pc \in [Requests -> Labels]
    /\ op \in [Requests -> Handlers]
    /\ guess \in [Requests -> Requests \cup {None}]
    /\ copy \in [Requests -> Row \cup {None}]
    /\ seen \in [Requests -> Requests \cup {None}]
    /\ seenAttempt \in [Requests -> 0 .. MaxAttempts - 1]
    /\ superseded \subseteq Requests

\* Signing up has created the row and scheduled its deletion.
Init ==
    /\ row = [password |-> None, verified |-> FALSE, admin |-> FALSE]
    /\ codes = {}
    /\ active = {}
    /\ attempts = [r \in Requests |-> 0]
    /\ expired = {}
    /\ day = FALSE
    /\ mailed = {}
    /\ pc = [r \in Requests |-> "idle"]
    /\ op = [r \in Requests |-> "none"]
    /\ guess = [r \in Requests |-> None]
    /\ copy = [r \in Requests |-> None]
    /\ seen = [r \in Requests |-> None]
    /\ seenAttempt = [r \in Requests |-> 0]
    /\ superseded = {}

-----------------------------------------------------------------------------

Goto(r, label) == pc' = [pc EXCEPT ![r] = label]

\* token_type of the codes a handler sends or takes.
Purpose(r) == IF op[r] \in {"send", "verify"} THEN "VERIFY_EMAIL" ELSE "RESET_PASSWORD"

\* A handler that has ended has no locals.
Finish(r, label) ==
    /\ Goto(r, label)
    /\ copy' = [copy EXCEPT ![r] = None]

\* Handlers that save the row they read, with all its columns.
WholeSaves == {"change", "reset", "verify", "grant", "revoke"}

\* A handler starts by reading the user row.
ReadUser(r, handler) ==
    /\ pc[r] = "idle"
    /\ row # None
    /\ op' = [op EXCEPT ![r] = handler]
    /\ copy' = [copy EXCEPT ![r] = IF handler \in WholeSaves \cup {"job"} THEN row ELSE None]
    /\ UNCHANGED <<row, table, clock, mailed, codeRow, superseded>>

-----------------------------------------------------------------------------
(* Sending a code or a link.                                               *)

\* POST /me/auth/email/send
SendVerifyCode(r) ==
    /\ ReadUser(r, "send")
    /\ ~row.verified
    /\ Goto(r, "limit")
    /\ UNCHANGED guess

\* POST /me/auth/password/confirm; its rate limit is commented out.
RequestReset(r) ==
    /\ ReadUser(r, "request")
    /\ Goto(r, "retire")
    /\ UNCHANGED guess

SendLimit(r) ==
    /\ pc[r] = "limit"
    /\ Goto(r, "retire") \/ Goto(r, "refused")
    /\ UNCHANGED <<row, table, clock, mailed, op, guess, copy, codeRow, superseded>>

\* Mutated: the other purpose's codes are deactivated.
RetireOtherPurpose(r) ==
    /\ pc[r] = "retire"
    /\ active' = {c \in active : Purpose(c) = Purpose(r)}
    /\ superseded' = superseded \cup {c \in codes : Purpose(c) = Purpose(r)}
    /\ Goto(r, "create")
    /\ UNCHANGED <<row, codes, attempts, clock, mailed, op, guess, copy, codeRow>>

\* The codes sent before for this purpose are deactivated ...
Retire(r) ==
    /\ pc[r] = "retire"
    /\ active' = {c \in active : Purpose(c) # Purpose(r)}
    /\ superseded' = superseded \cup {c \in codes : Purpose(c) = Purpose(r)}
    /\ Goto(r, "create")
    /\ UNCHANGED <<row, codes, attempts, clock, mailed, op, guess, copy, codeRow>>

\* ... a new one is inserted, unless the user it refers to is gone ...
CreateCode(r) ==
    /\ pc[r] = "create"
    /\ \/ row # None /\ codes' = codes \cup {r} /\ active' = active \cup {r} /\ Goto(r, "mail")
       \/ row = None /\ Goto(r, "refused") /\ UNCHANGED <<codes, active>>
    /\ UNCHANGED <<row, attempts, clock, mailed, op, guess, copy, codeRow, superseded>>

\* ... and mailed.
Mail(r) ==
    /\ pc[r] = "mail"
    /\ mailed' = mailed \cup {r}
    /\ Goto(r, "done")
    /\ UNCHANGED <<row, table, clock, op, guess, copy, codeRow, superseded>>

-----------------------------------------------------------------------------
(* Entering a code.  Verifying the e-mail and resetting the password       *)
(* repeat the same lines.                                                  *)

\* POST /me/auth/email/verify
VerifyEmail(r, g) ==
    /\ ReadUser(r, "verify")
    /\ ~row.verified
    /\ guess' = [guess EXCEPT ![r] = g]
    /\ Goto(r, "code")

\* POST /me/auth/password/reset
ResetPassword(r, g) ==
    /\ ReadUser(r, "reset")
    /\ guess' = [guess EXCEPT ![r] = g]
    /\ Goto(r, "code")

\* Mutated: token_type left out of the filter.
MatchingAnyPurpose(r) == active

\* filter(user_id, token_type, is_active).first(), in no particular order.
Matching(r) == {c \in active : Purpose(c) = Purpose(r)}

ReadCode(r) ==
    /\ pc[r] = "code"
    /\ \/ Matching(r) = {} /\ Finish(r, "refused") /\ UNCHANGED codeRow
       \/ \E c \in Matching(r) :
             /\ seen' = [seen EXCEPT ![r] = c]
             /\ seenAttempt' = [seenAttempt EXCEPT ![r] = attempts[c]]
             /\ \/ c \in expired /\ Finish(r, "expired")
                \/ c \notin expired /\ guess[r] = c /\ Goto(r, "right") /\ UNCHANGED copy
                \/ c \notin expired /\ guess[r] # c /\ Goto(r, "wrong") /\ UNCHANGED copy
    /\ UNCHANGED <<row, table, clock, mailed, op, guess, superseded>>

\* The whole code row is written back.
SaveCode(c, n, on) ==
    IF c \in codes
    THEN /\ attempts' = [attempts EXCEPT ![c] = n]
         /\ active' = IF on THEN active \cup {c} ELSE active \ {c}
    ELSE UNCHANGED <<attempts, active>>

WrongGuess(r) ==
    /\ pc[r] = "wrong"
    /\ LET n == seenAttempt[r] + 1 IN SaveCode(seen[r], n, n < MaxAttempts)
    /\ Finish(r, "rejected")
    /\ UNCHANGED <<row, codes, clock, mailed, op, guess, codeRow, superseded>>

\* Mutated: the handler returns with the code saved.
RightGuessReturns(r) ==
    /\ pc[r] = "right"
    /\ SaveCode(seen[r], seenAttempt[r], FALSE)
    /\ Finish(r, "done")
    /\ UNCHANGED <<row, codes, clock, mailed, op, guess, codeRow, superseded>>

RightGuess(r) ==
    /\ pc[r] = "right"
    /\ SaveCode(seen[r], seenAttempt[r], FALSE)
    /\ Goto(r, "save")
    /\ UNCHANGED <<row, codes, clock, mailed, op, guess, copy, codeRow, superseded>>

-----------------------------------------------------------------------------
(* Handlers that only write the user row.                                  *)

\* PUT /me/auth/password/change: the row is read, and the current password
\* compared, in the dependency; no await until the save.
ChangePassword(r) ==
    ReadUser(r, "change") /\ Goto(r, "save") /\ UNCHANGED guess

\* POST /admin/maintenance/change-password
AdminPassword(r) ==
    ReadUser(r, "set") /\ Goto(r, "save") /\ UNCHANGED guess

\* POST /admin/user/{id}/set-admin
SetAdmin(r, value) ==
    /\ ReadUser(r, IF value THEN "grant" ELSE "revoke")
    /\ Goto(r, "save")
    /\ UNCHANGED guess

\* DELETE /admin/user/{id}
AdminDelete(r) ==
    ReadUser(r, "delete") /\ Goto(r, "delete") /\ UNCHANGED guess

\* Mutated: the job keeps what it should delete.
DeletionJobNegated ==
    /\ day
    /\ \/ /\ ReadUser(Job, "job")
          /\ Goto(Job, IF row.verified THEN "delete" ELSE "done")
          /\ UNCHANGED guess
       \/ /\ pc[Job] = "idle" /\ row = None /\ Goto(Job, "done")
          /\ UNCHANGED <<row, table, clock, mailed, op, guess, copy, codeRow, superseded>>

\* The job runs once, a day after the account was created.
DeletionJob ==
    /\ day
    /\ \/ /\ ReadUser(Job, "job")
          /\ Goto(Job, IF row.verified THEN "done" ELSE "delete")
          /\ UNCHANGED guess
       \/ /\ pc[Job] = "idle" /\ row = None /\ Goto(Job, "done")
          /\ UNCHANGED <<row, table, clock, mailed, op, guess, copy, codeRow, superseded>>

\* Mutated: a reset writes the row back as it was read.
SavedForgotten(r) ==
    CASE op[r] = "set" -> [row EXCEPT !.password = r]
      [] op[r] = "change" -> [copy[r] EXCEPT !.password = r]
      [] op[r] = "reset" -> copy[r]
      [] op[r] = "verify" -> [copy[r] EXCEPT !.verified = TRUE]
      [] op[r] \in {"grant", "revoke"} -> [copy[r] EXCEPT !.admin = op[r] = "grant"]

\* What each handler saves: the row it read with its own column changed, but
\* for the administrator's change, which names the column.
Saved(r) ==
    CASE op[r] = "set" -> [row EXCEPT !.password = r]
      [] op[r] \in {"change", "reset"} -> [copy[r] EXCEPT !.password = r]
      [] op[r] = "verify" -> [copy[r] EXCEPT !.verified = TRUE]
      [] op[r] \in {"grant", "revoke"} -> [copy[r] EXCEPT !.admin = op[r] = "grant"]

SaveUser(r) ==
    /\ pc[r] = "save"
    /\ row' = IF row = None THEN None ELSE Saved(r)
    /\ Finish(r, "done")
    /\ UNCHANGED <<table, clock, mailed, op, guess, codeRow, superseded>>

\* The verifications go with their user (ON DELETE CASCADE).
Delete(r) ==
    /\ pc[r] = "delete"
    /\ row' = None
    /\ codes' = {}
    /\ active' = {}
    /\ Finish(r, "done")
    /\ UNCHANGED <<attempts, clock, mailed, op, guess, codeRow, superseded>>

-----------------------------------------------------------------------------
(* The environment.                                                        *)

InFlight(r) == pc[r] \notin Final \cup {"idle"}

\* VERIFICATION_DELTA passes while no request runs.
Hour ==
    /\ \A r \in Requests : ~InFlight(r)
    /\ codes \ expired # {}
    /\ expired' = expired \cup codes
    /\ UNCHANGED <<row, table, day, mailed, pc, op, guess, copy, codeRow, superseded>>

Day ==
    /\ \A r \in Requests : ~InFlight(r)
    /\ ~day
    /\ day' = TRUE
    /\ expired' = expired \cup codes
    /\ UNCHANGED <<row, table, mailed, pc, op, guess, copy, codeRow, superseded>>

\* A statement or the mail server fails, or the process dies.
Fail(r) ==
    /\ InFlight(r)
    /\ Finish(r, "crashed")
    /\ UNCHANGED <<row, table, clock, mailed, op, guess, codeRow, superseded>>

\* The scheduler drops a job whose time passed while the process was down.
Misfire ==
    /\ day
    /\ pc[Job] = "idle"
    /\ Goto(Job, "crashed")
    /\ UNCHANGED <<row, table, clock, mailed, op, guess, copy, codeRow, superseded>>

-----------------------------------------------------------------------------

Continue(r) ==
    \/ SendLimit(r) \/ Retire(r) \/ CreateCode(r) \/ Mail(r)
    \/ ReadCode(r) \/ WrongGuess(r) \/ RightGuess(r)
    \/ SaveUser(r) \/ Delete(r)

Start(r) ==
    \/ SendVerifyCode(r) \/ RequestReset(r)
    \/ \E g \in mailed \cup {None} : VerifyEmail(r, g) \/ ResetPassword(r, g)
    \/ ChangePassword(r) \/ AdminPassword(r)
    \/ \E value \in BOOLEAN : SetAdmin(r, value)
    \/ AdminDelete(r)

Next ==
    \/ \E r \in Requests \ {Job} : Start(r)
    \/ \E r \in Requests : Continue(r) \/ Fail(r)
    \/ DeletionJob \/ Misfire
    \/ Hour \/ Day

Spec == Init /\ [][Next]_vars

\* The event loop resumes every handler whose statement has been answered, the
\* scheduler starts (or drops) a job that is due.
FairSpec ==
    /\ Spec
    /\ \A r \in Requests : WF_vars(Continue(r))
    /\ WF_vars(DeletionJob)

-----------------------------------------------------------------------------
(* Properties.                                                             *)

PasswordOps == {"change", "reset", "set"}

\* Requests whose code was accepted.
Accepted(c) == {r \in Requests : op[r] \in {"verify", "reset"} /\ guess[r] = c
                                    /\ pc[r] \in {"save", "done"}}

\* Requests that counted a wrong guess against code c.
Misses(c) == {r \in Requests : pc[r] = "rejected" /\ seen[r] = c}

\* However saves overwrite each other, an account is verified only through a
\* verification code that was in the user's mailbox, and has a password that
\* its user or an administrator set, or that came with a mailed reset link.
\* Each link of the chain is in another handler: the code sent, read by its
\* purpose, accepted, and the row written back by whoever comes later.
EarnedByMail ==
    row # None =>
        /\ row.verified => \E r \in Requests :
              /\ op[r] = "verify" /\ pc[r] = "done"
              /\ guess[r] \in mailed /\ op[guess[r]] = "send"
        /\ row.password # None =>
              \/ op[row.password] \in {"change", "set"}
              \/ /\ op[row.password] = "reset"
                 /\ guess[row.password] \in mailed /\ op[guess[row.password]] = "request"

\* Lost updates make a code live longer than meant, never shorter: a code has
\* had at least as many wrong guesses as its row says, so VERIFICATION_ATTEMPTS
\* _EXPIRED is never answered to a user who still has attempts.
AttemptsNotOvercounted ==
    \A c \in codes : attempts[c] <= Cardinality(Misses(c))

\* A code that is still active has attempts left, although a save may bring
\* back an older attempt count together with is_active.
ActiveBelowLimit ==
    \A c \in active : attempts[c] < MaxAttempts

\* A code that was accepted, or that a later code replaced, is active again
\* only where a wrong guess that had read it before was written over it.
DeadCodesStayDead ==
    \A c \in active : Accepted(c) # {} \/ c \in superseded => Misses(c) # {}

\* The rows of codes are well-formed, their counts are neither too high nor at the
\* limit, and what is spent stays spent, whatever is written over it.
CodesCounted == TypeOK /\ AttemptsNotOvercounted /\ ActiveBelowLimit /\ DeadCodesStayDead

\* A verified account stays, verified, except at the hands of an administrator
\* who deletes it and of requests that read it before it was verified: a save
\* of the whole row, or the deletion job.
VerificationKept ==
    [][row # None /\ row.verified =>
          \/ row' # None /\ row'.verified
          \/ \E r \in Requests :
                /\ pc[r] \in {"save", "delete"} /\ pc'[r] = "done"
                /\ \/ op[r] = "delete"
                   \/ op[r] \in WholeSaves \cup {"job"} /\ ~copy[r].verified]_vars

\* A password is set by the request that chose it, once; an earlier one comes
\* back only with the whole-row save of a request that is not about passwords
\* and read the row before the change.
PasswordKept ==
    [][row # None /\ row' # None /\ row'.password # row.password =>
          \E r \in Requests :
             /\ pc[r] = "save" /\ pc'[r] = "done"
             /\ \/ op[r] \in PasswordOps /\ row'.password = r
                \/ op[r] \in WholeSaves \ PasswordOps /\ row'.password = copy[r].password]_vars

\* What a save of a whole row may undo of another column.
ColumnsKept == VerificationKept /\ PasswordKept

\* An accepted code takes effect, unless the account is deleted or the request
\* dies between the two saves.
AcceptedTakesEffect ==
    \A r \in Requests \ {Job} :
        pc[r] = "right" ~>
            \/ row = None \/ pc[r] = "crashed"
            \/ op[r] = "verify" /\ row.verified
            \/ op[r] = "reset" /\ row.password = r

\* An account that the job finds unverified goes away, unless the job was
\* dropped or died.
UnverifiedGoes ==
    day /\ pc[Job] = "idle" ~> row = None \/ row.verified \/ pc[Job] = "crashed"
=============================================================================

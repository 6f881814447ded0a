------------------------- MODULE SessionTokensProofs -------------------------
(***************************************************************************)
(* Proofs about SessionTokens.  The inductive invariant comes in layers,   *)
(* each proved with the help of the ones before it:                        *)
(*   TypeOK, RowInv  types, and which rows are there for each request;     *)
(*   OwnerInv        whose the sessions, rows and JWTs are;                *)
(*   SpentInv,       why a row is spent and                                *)
(*   VerdictInv      why a session is being ended;                         *)
(*   LateInv         what sweeps miss and what the rows they miss are      *)
(*                   worth;                                                *)
(*   ForkInv         a session without a double rotation is one chain.     *)
(***************************************************************************)
EXTENDS SessionTokens, TLAPS

HasRow(t) == t \in Tokens /\ family[t] # None

RowInv ==
    /\ \A r \in Requests : pc[r] \notin {"reply", "done"} =>
          family[r] = None /\ parent[r] = None /\ jwt[r] = None
    /\ \A r \in Requests : pc[r] = "reply" => family[r] # None
    /\ \A r \in Requests :
          pc[r] \in {"session", "replay", "user", "rotate", "others", "end"} =>
              HasRow(tok[r])
    /\ \A r \in Requests : pc[r] \in {"open", "adopt"} => tok[r] \in Legacy
    /\ HandedOutHaveRows

OwnerInv ==
    /\ \A t \in Tokens : family[t] # None => owner[family[t]] # None
    /\ \A r \in Requests :
          pc[r] \in {"idle", "login", "open", "session", "replay",
                     "others", "end", "sweep"} => owner[r] = None
    /\ \A r \in Requests : pc[r] \in {"login", "open", "adopt", "others"} => user[r] # None
    /\ \A r \in Requests : pc[r] \in {"open", "adopt"} => jwt[tok[r]] = user[r]
    /\ \A r \in Requests : pc[r] = "adopt" =>
          owner[r] = user[r] /\ \A t \in Tokens : family[t] # r
    /\ \A r \in Requests : pc[r] \in {"session", "replay", "user", "rotate"} =>
          owner[family[tok[r]]] = user[r]
    /\ \A r \in Requests : pc[r] = "reply" => owner[family[r]] = user[r]
    /\ \A r \in Requests : \A s \in targets[r] : owner[s] = user[r] /\ user[r] # None
    /\ \A r \in Requests : pc[r] = "idle" => targets[r] = {}
    /\ SubjectOwnsSession

SpentInv ==
    /\ \A c \in Tokens : parent[c] # None =>
          parent[c] \in spent /\ family[c] # None /\ family[parent[c]] = family[c]
    /\ \A t \in spent : family[t] # None /\ (family[t] \in ended \/ Children(t) # {})

VerdictInv ==
    /\ \A r \in Requests : pc[r] = "session" /\ sawSpent[r] => tok[r] \in spent
    /\ \A r \in Requests : pc[r] = "replay" => targets[r] = {family[tok[r]]}
    /\ \A r \in Requests : pc[r] = "end" => family[tok[r]] \notin targets[r]
    /\ \A r \in Requests : pc[r] = "sweep" => targets[r] \subseteq ended
    /\ ReplayVerdictJust

LateInv ==
    /\ \A t \in late : family[t] \in ended
    /\ \A r \in Requests : pc[r] \in {"user", "rotate"} /\ tok[r] \in late =>
          tok[r] \in Legacy
    /\ LateTokenIsBarren
    /\ UnsweptOnlyLate

\* At most one token of an unforked session has no successor.
ForkInv ==
    \A t1, t2 \in Tokens :
        /\ t1 # t2 /\ family[t1] # None /\ family[t1] = family[t2]
        /\ Children(t1) = {} /\ Children(t2) = {}
        => Forked(family[t1])

-----------------------------------------------------------------------------
(* Types and rows.                                                         *)

\* Types are kept: the rows a request refers to are there.
LEMMA TypeStep == TypeOK /\ RowInv /\ [Next]_vars => TypeOK'
  <1> SUFFICES ASSUME TypeOK, RowInv, [Next]_vars PROVE TypeOK'
    OBVIOUS
  <1> USE DomainAssumption DEF TypeOK, Sessions, Tokens, Labels, At, Goto,
      InsertRow, sessionTable, tokenTable, wire, history, locals, RowInv,
      HasRow, RowsOf, OtherSessions
  <1>1. ASSUME NEW r \in Requests, NEW u \in Users, LoginUser(r, u) PROVE TypeOK'
    BY <1>1 DEF LoginUser
  <1>2. ASSUME NEW r \in Requests, LoginCommit(r) PROVE TypeOK'
    BY <1>2 DEF LoginCommit
  <1>3. ASSUME NEW r \in Requests, NEW t \in Tokens, RefreshRow(r, t) PROVE TypeOK'
    BY <1>3 DEF RefreshRow
  <1>4. ASSUME NEW r \in Requests, RefreshSession(r) PROVE TypeOK'
    BY <1>4 DEF RefreshSession
  <1>5. ASSUME NEW r \in Requests, Replay(r) PROVE TypeOK'
    BY <1>5 DEF Replay
  <1>6. ASSUME NEW r \in Requests, Sweep(r) PROVE TypeOK'
    BY <1>6 DEF Sweep
  <1>7. ASSUME NEW r \in Requests, AdoptSession(r) PROVE TypeOK'
    BY <1>7 DEF AdoptSession
  <1>8. ASSUME NEW r \in Requests, AdoptRow(r) PROVE TypeOK'
    BY <1>8 DEF AdoptRow
  <1>9. ASSUME NEW r \in Requests, RefreshUser(r) PROVE TypeOK'
    BY <1>9 DEF RefreshUser
  <1>10. ASSUME NEW r \in Requests, Rotate(r) PROVE TypeOK'
    BY <1>10 DEF Rotate
  <1>11. ASSUME NEW r \in Requests, Reply(r) PROVE TypeOK'
    BY <1>11 DEF Reply
  <1>12. ASSUME NEW r \in Requests, NEW t \in Tokens, RevokeAllAuth(r, t) PROVE TypeOK'
    BY <1>12 DEF RevokeAllAuth
  <1>13. ASSUME NEW r \in Requests, RevokeAllRead(r) PROVE TypeOK'
    BY <1>13 DEF RevokeAllRead
  <1>14. ASSUME NEW r \in Requests, RevokeAllEnd(r) PROVE TypeOK'
    BY <1>14 DEF RevokeAllEnd
  <1>15. ASSUME NEW r \in Requests, NEW t \in Tokens, RevokeOne(r, t) PROVE TypeOK'
    BY <1>15 DEF RevokeOne
  <1>16. ASSUME Day PROVE TypeOK'
    BY <1>16 DEF Day
  <1>17. ASSUME NEW u \in Users, DeleteUser(u) PROVE TypeOK'
    BY <1>17 DEF DeleteUser
  <1>18. ASSUME NEW r \in Requests, Fail(r) PROVE TypeOK'
    BY <1>18 DEF Fail
  <1>19. CASE UNCHANGED vars
    BY <1>19 DEF vars
  <1>20. QED
    BY <1>1, <1>2, <1>3, <1>4, <1>5, <1>6, <1>7, <1>8, <1>9, <1>10, <1>11,
       <1>12, <1>13, <1>14, <1>15, <1>16, <1>17, <1>18, <1>19 DEF Next, Start,
       Continue

\* What each request has inserted, and the rows it refers to.
LEMMA RowStep == TypeOK /\ RowInv /\ [Next]_vars => RowInv'
  <1> SUFFICES ASSUME TypeOK, RowInv, [Next]_vars PROVE RowInv'
    OBVIOUS
  <1> USE DomainAssumption DEF TypeOK, Sessions, Tokens, Labels, At, Goto,
      InsertRow, sessionTable, tokenTable, wire, history, locals, RowInv,
      HasRow, HandedOutHaveRows
  <1>1. ASSUME NEW r \in Requests, NEW u \in Users, LoginUser(r, u) PROVE RowInv'
    BY <1>1 DEF LoginUser
  <1>2. ASSUME NEW r \in Requests, LoginCommit(r) PROVE RowInv'
    BY <1>2 DEF LoginCommit
  <1>3. ASSUME NEW r \in Requests, NEW t \in Tokens, RefreshRow(r, t) PROVE RowInv'
    BY <1>3 DEF RefreshRow
  <1>4. ASSUME NEW r \in Requests, RefreshSession(r) PROVE RowInv'
    BY <1>4 DEF RefreshSession
  <1>5. ASSUME NEW r \in Requests, Replay(r) PROVE RowInv'
    BY <1>5 DEF Replay
  <1>6. ASSUME NEW r \in Requests, Sweep(r) PROVE RowInv'
    BY <1>6 DEF Sweep
  <1>7. ASSUME NEW r \in Requests, AdoptSession(r) PROVE RowInv'
    BY <1>7 DEF AdoptSession
  <1>8. ASSUME NEW r \in Requests, AdoptRow(r) PROVE RowInv'
    BY <1>8 DEF AdoptRow
  <1>9. ASSUME NEW r \in Requests, RefreshUser(r) PROVE RowInv'
    BY <1>9 DEF RefreshUser
  <1>10. ASSUME NEW r \in Requests, Rotate(r) PROVE RowInv'
    BY <1>10 DEF Rotate
  <1>11. ASSUME NEW r \in Requests, Reply(r) PROVE RowInv'
    BY <1>11 DEF Reply
  <1>12. ASSUME NEW r \in Requests, NEW t \in Tokens, RevokeAllAuth(r, t) PROVE RowInv'
    BY <1>12 DEF RevokeAllAuth
  <1>13. ASSUME NEW r \in Requests, RevokeAllRead(r) PROVE RowInv'
    BY <1>13 DEF RevokeAllRead
  <1>14. ASSUME NEW r \in Requests, RevokeAllEnd(r) PROVE RowInv'
    BY <1>14 DEF RevokeAllEnd
  <1>15. ASSUME NEW r \in Requests, NEW t \in Tokens, RevokeOne(r, t) PROVE RowInv'
    BY <1>15 DEF RevokeOne
  <1>16. ASSUME Day PROVE RowInv'
    BY <1>16 DEF Day
  <1>17. ASSUME NEW u \in Users, DeleteUser(u) PROVE RowInv'
    BY <1>17 DEF DeleteUser
  <1>18. ASSUME NEW r \in Requests, Fail(r) PROVE RowInv'
    BY <1>18 DEF Fail
  <1>19. CASE UNCHANGED vars
    BY <1>19 DEF vars
  <1>20. QED
    BY <1>1, <1>2, <1>3, <1>4, <1>5, <1>6, <1>7, <1>8, <1>9, <1>10, <1>11,
       <1>12, <1>13, <1>14, <1>15, <1>16, <1>17, <1>18, <1>19 DEF Next, Start,
       Continue

\* Sessions, rows, JWTs and requests agree on the user.
LEMMA OwnerStep == TypeOK /\ RowInv /\ OwnerInv /\ [Next]_vars => OwnerInv'
  <1> SUFFICES ASSUME TypeOK, RowInv, OwnerInv, [Next]_vars PROVE OwnerInv'
    OBVIOUS
  <1> USE DomainAssumption DEF TypeOK, Sessions, Tokens, Labels, At, Goto,
      InsertRow, sessionTable, tokenTable, wire, history, locals, RowInv,
      HasRow, OwnerInv, SubjectOwnsSession, OtherSessions, HandedOutHaveRows
  <1>1. ASSUME NEW r \in Requests, NEW u \in Users, LoginUser(r, u) PROVE OwnerInv'
    BY <1>1 DEF LoginUser
  <1>2. ASSUME NEW r \in Requests, LoginCommit(r) PROVE OwnerInv'
    BY <1>2 DEF LoginCommit
  <1>3. ASSUME NEW r \in Requests, NEW t \in Tokens, RefreshRow(r, t) PROVE OwnerInv'
    <2>1. /\ pc[r] = "idle" /\ jwt[t] # None
          /\ pc' = [pc EXCEPT ![r] = IF family[t] = None THEN "open" ELSE "session"]
          /\ tok' = [tok EXCEPT ![r] = t] /\ user' = [user EXCEPT ![r] = jwt[t]]
          /\ UNCHANGED <<owner, family, jwt, targets>>
      BY <1>3 DEF RefreshRow
    <2>2. QED
      BY <2>1
  <1>4. ASSUME NEW r \in Requests, RefreshSession(r) PROVE OwnerInv'
    BY <1>4 DEF RefreshSession
  <1>5. ASSUME NEW r \in Requests, Replay(r) PROVE OwnerInv'
    BY <1>5 DEF Replay
  <1>6. ASSUME NEW r \in Requests, Sweep(r) PROVE OwnerInv'
    BY <1>6 DEF Sweep
  <1>7. ASSUME NEW r \in Requests, AdoptSession(r) PROVE OwnerInv'
    BY <1>7 DEF AdoptSession
  <1>8. ASSUME NEW r \in Requests, AdoptRow(r) PROVE OwnerInv'
    <2>1. CASE family[tok[r]] = None
      <3> DEFINE x == tok[r]
      <3>1. /\ x \in Legacy /\ family[x] = None /\ family' = [family EXCEPT ![x] = r]
            /\ pc[r] = "adopt" /\ pc' = [pc EXCEPT ![r] = "user"]
            /\ UNCHANGED <<owner, jwt, access, tok, user, targets>>
        BY <1>8, <2>1 DEF AdoptRow
      <3>2. owner[r] = user[r] /\ jwt[x] = user[r] /\ user[r] # None /\ family'[x] = r
        BY <3>1
      <3> HIDE DEF x
      <3>3. SubjectOwnsSession' /\ \A t \in Tokens : family'[t] # None => owner'[family'[t]] # None
        BY <3>1, <3>2
      <3>4. \A q \in Requests : pc'[q] \in {"session", "replay", "user", "rotate"} =>
                owner'[family'[tok'[q]]] = user'[q]
        BY <3>1, <3>2 DEF x
      <3>5. \A q \in Requests : pc'[q] = "adopt" =>
                owner'[q] = user'[q] /\ \A t \in Tokens : family'[t] # q
        BY <3>1, <3>2
      <3>6. \A q \in Requests : pc'[q] = "reply" => owner'[family'[q]] = user'[q]
        BY <3>1, <3>2
      <3>7. QED
        BY <3>1, <3>3, <3>4, <3>5, <3>6
    <2>2. CASE family[tok[r]] # None
      BY <1>8, <2>2 DEF AdoptRow
    <2>3. QED
      BY <2>1, <2>2
  <1>9. ASSUME NEW r \in Requests, RefreshUser(r) PROVE OwnerInv'
    BY <1>9 DEF RefreshUser
  <1>10. ASSUME NEW r \in Requests, Rotate(r) PROVE OwnerInv'
    BY <1>10 DEF Rotate
  <1>11. ASSUME NEW r \in Requests, Reply(r) PROVE OwnerInv'
    BY <1>11 DEF Reply
  <1>12. ASSUME NEW r \in Requests, NEW t \in Tokens, RevokeAllAuth(r, t) PROVE OwnerInv'
    BY <1>12 DEF RevokeAllAuth
  <1>13. ASSUME NEW r \in Requests, RevokeAllRead(r) PROVE OwnerInv'
    BY <1>13 DEF RevokeAllRead
  <1>14. ASSUME NEW r \in Requests, RevokeAllEnd(r) PROVE OwnerInv'
    BY <1>14 DEF RevokeAllEnd
  <1>15. ASSUME NEW r \in Requests, NEW t \in Tokens, RevokeOne(r, t) PROVE OwnerInv'
    BY <1>15 DEF RevokeOne
  <1>16. ASSUME Day PROVE OwnerInv'
    BY <1>16 DEF Day
  <1>17. ASSUME NEW u \in Users, DeleteUser(u) PROVE OwnerInv'
    BY <1>17 DEF DeleteUser
  <1>18. ASSUME NEW r \in Requests, Fail(r) PROVE OwnerInv'
    BY <1>18 DEF Fail
  <1>19. CASE UNCHANGED vars
    BY <1>19 DEF vars
  <1>20. QED
    BY <1>1, <1>2, <1>3, <1>4, <1>5, <1>6, <1>7, <1>8, <1>9, <1>10, <1>11,
       <1>12, <1>13, <1>14, <1>15, <1>16, <1>17, <1>18, <1>19 DEF Next, Start,
       Continue

-----------------------------------------------------------------------------
(* Revocation.                                                             *)

\* A Boolean function at the point where it was updated.
LEMMA BooleanUpdate ==
    ASSUME NEW R, NEW f \in [R -> BOOLEAN], NEW r \in R, NEW x, NEW S
    PROVE  [f EXCEPT ![r] = x \in S][r] => x \in S
  <1>1. [f EXCEPT ![r] = x \in S][r] = (x \in S)
    BY Zenon
  <1>2. QED
    BY <1>1, Zenon

\* A spent row was rotated, or its session has ended.
LEMMA SpentStep == TypeOK /\ RowInv /\ SpentInv /\ VerdictInv /\ [Next]_vars => SpentInv'
  <1> SUFFICES ASSUME TypeOK, RowInv, SpentInv, VerdictInv, [Next]_vars PROVE SpentInv'
    OBVIOUS
  <1> USE DomainAssumption DEF TypeOK, Sessions, Tokens, At, Goto, InsertRow,
      sessionTable, tokenTable, wire, history, locals, SpentInv, Children
  <1>1. ASSUME NEW r \in Requests, NEW u \in Users, LoginUser(r, u) PROVE SpentInv'
    BY <1>1 DEF LoginUser
  <1>2. ASSUME NEW r \in Requests, LoginCommit(r) PROVE SpentInv'
    BY <1>2 DEF LoginCommit, RowInv
  <1>3. ASSUME NEW r \in Requests, NEW t \in Tokens, RefreshRow(r, t) PROVE SpentInv'
    BY <1>3 DEF RefreshRow
  <1>4. ASSUME NEW r \in Requests, RefreshSession(r) PROVE SpentInv'
    BY <1>4 DEF RefreshSession
  <1>5. ASSUME NEW r \in Requests, Replay(r) PROVE SpentInv'
    BY <1>5 DEF Replay
  <1>6. ASSUME NEW r \in Requests, Sweep(r) PROVE SpentInv'
    BY <1>6 DEF Sweep, VerdictInv, RowsOf
  <1>7. ASSUME NEW r \in Requests, AdoptSession(r) PROVE SpentInv'
    BY <1>7 DEF AdoptSession
  <1>8. ASSUME NEW r \in Requests, AdoptRow(r) PROVE SpentInv'
    BY <1>8 DEF AdoptRow, RowInv
  <1>9. ASSUME NEW r \in Requests, RefreshUser(r) PROVE SpentInv'
    BY <1>9 DEF RefreshUser
  <1>10. ASSUME NEW r \in Requests, Rotate(r) PROVE SpentInv'
    BY <1>10 DEF Rotate, RowInv, HasRow
  <1>11. ASSUME NEW r \in Requests, Reply(r) PROVE SpentInv'
    BY <1>11 DEF Reply
  <1>12. ASSUME NEW r \in Requests, NEW t \in Tokens, RevokeAllAuth(r, t) PROVE SpentInv'
    BY <1>12 DEF RevokeAllAuth
  <1>13. ASSUME NEW r \in Requests, RevokeAllRead(r) PROVE SpentInv'
    BY <1>13 DEF RevokeAllRead
  <1>14. ASSUME NEW r \in Requests, RevokeAllEnd(r) PROVE SpentInv'
    BY <1>14 DEF RevokeAllEnd
  <1>15. ASSUME NEW r \in Requests, NEW t \in Tokens, RevokeOne(r, t) PROVE SpentInv'
    BY <1>15 DEF RevokeOne
  <1>16. ASSUME Day PROVE SpentInv'
    BY <1>16 DEF Day
  <1>17. ASSUME NEW u \in Users, DeleteUser(u) PROVE SpentInv'
    BY <1>17 DEF DeleteUser
  <1>18. ASSUME NEW r \in Requests, Fail(r) PROVE SpentInv'
    BY <1>18 DEF Fail
  <1>19. CASE UNCHANGED vars
    BY <1>19 DEF vars
  <1>20. QED
    BY <1>1, <1>2, <1>3, <1>4, <1>5, <1>6, <1>7, <1>8, <1>9, <1>10, <1>11,
       <1>12, <1>13, <1>14, <1>15, <1>16, <1>17, <1>18, <1>19 DEF Next, Start,
       Continue

\* A request ends the session of a token that was rotated, or sessions other
\* than its own.
LEMMA VerdictStep == TypeOK /\ RowInv /\ OwnerInv /\ SpentInv /\ VerdictInv /\ [Next]_vars => VerdictInv'
  <1> SUFFICES ASSUME TypeOK, RowInv, OwnerInv, SpentInv, VerdictInv, [Next]_vars PROVE VerdictInv'
    OBVIOUS
  <1> USE DomainAssumption DEF TypeOK, Sessions, Tokens, Labels, At, Goto,
      InsertRow, sessionTable, tokenTable, wire, history, locals, RowInv,
      HasRow, VerdictInv, Children, ReplayVerdictJust
  <1>1. ASSUME NEW r \in Requests, NEW u \in Users, LoginUser(r, u) PROVE VerdictInv'
    BY <1>1 DEF LoginUser
  <1>2. ASSUME NEW r \in Requests, LoginCommit(r) PROVE VerdictInv'
    BY <1>2 DEF LoginCommit
  <1>3. ASSUME NEW r \in Requests, NEW t \in Tokens, RefreshRow(r, t) PROVE VerdictInv'
    <2>1. /\ pc[r] = "idle"
          /\ pc' = [pc EXCEPT ![r] = IF family[t] = None THEN "open" ELSE "session"]
          /\ tok' = [tok EXCEPT ![r] = t]
          /\ sawSpent' = [sawSpent EXCEPT ![r] = t \in spent]
          /\ UNCHANGED <<family, spent, parent, targets, ended>>
      BY <1>3 DEF RefreshRow
    <2>2. sawSpent'[r] => t \in spent
      BY <2>1, BooleanUpdate
    <2>3. \A q \in Requests \ {r} : pc'[q] = pc[q] /\ tok'[q] = tok[q] /\ sawSpent'[q] = sawSpent[q]
      BY <2>1
    <2>4. pc'[r] \in {"open", "session"} /\ tok'[r] = t
      BY <2>1
    <2>5. \A q \in Requests : pc'[q] = "session" /\ sawSpent'[q] => tok'[q] \in spent'
      BY <2>1, <2>2, <2>3, <2>4
    <2>6. /\ \A q \in Requests : pc'[q] = "replay" => targets'[q] = {family'[tok'[q]]}
          /\ \A q \in Requests : pc'[q] = "end" => family'[tok'[q]] \notin targets'[q]
          /\ \A q \in Requests : pc'[q] = "sweep" => targets'[q] \subseteq ended'
          /\ ReplayVerdictJust'
      BY <2>1, <2>3, <2>4
    <2>7. QED
      BY <2>5, <2>6
  <1>4. ASSUME NEW r \in Requests, RefreshSession(r) PROVE VerdictInv'
    BY <1>4 DEF RefreshSession, SpentInv
  <1>5. ASSUME NEW r \in Requests, Replay(r) PROVE VerdictInv'
    BY <1>5 DEF Replay
  <1>6. ASSUME NEW r \in Requests, Sweep(r) PROVE VerdictInv'
    BY <1>6 DEF Sweep
  <1>7. ASSUME NEW r \in Requests, AdoptSession(r) PROVE VerdictInv'
    BY <1>7 DEF AdoptSession
  <1>8. ASSUME NEW r \in Requests, AdoptRow(r) PROVE VerdictInv'
    <2>1. CASE family[tok[r]] = None
      BY <1>8, <2>1 DEF AdoptRow
    <2>2. CASE family[tok[r]] # None
      BY <1>8, <2>2 DEF AdoptRow
    <2>3. QED
      BY <2>1, <2>2
  <1>9. ASSUME NEW r \in Requests, RefreshUser(r) PROVE VerdictInv'
    BY <1>9 DEF RefreshUser
  <1>10. ASSUME NEW r \in Requests, Rotate(r) PROVE VerdictInv'
    BY <1>10 DEF Rotate
  <1>11. ASSUME NEW r \in Requests, Reply(r) PROVE VerdictInv'
    BY <1>11 DEF Reply
  <1>12. ASSUME NEW r \in Requests, NEW t \in Tokens, RevokeAllAuth(r, t) PROVE VerdictInv'
    BY <1>12 DEF RevokeAllAuth
  <1>13. ASSUME NEW r \in Requests, RevokeAllRead(r) PROVE VerdictInv'
    BY <1>13 DEF RevokeAllRead, OtherSessions
  <1>14. ASSUME NEW r \in Requests, RevokeAllEnd(r) PROVE VerdictInv'
    BY <1>14 DEF RevokeAllEnd
  <1>15. ASSUME NEW r \in Requests, NEW t \in Tokens, RevokeOne(r, t) PROVE VerdictInv'
    BY <1>15 DEF RevokeOne
  <1>16. ASSUME Day PROVE VerdictInv'
    BY <1>16 DEF Day
  <1>17. ASSUME NEW u \in Users, DeleteUser(u) PROVE VerdictInv'
    BY <1>17 DEF DeleteUser
  <1>18. ASSUME NEW r \in Requests, Fail(r) PROVE VerdictInv'
    BY <1>18 DEF Fail
  <1>19. CASE UNCHANGED vars
    BY <1>19 DEF vars
  <1>20. QED
    BY <1>1, <1>2, <1>3, <1>4, <1>5, <1>6, <1>7, <1>8, <1>9, <1>10, <1>11,
       <1>12, <1>13, <1>14, <1>15, <1>16, <1>17, <1>18, <1>19 DEF Next, Start,
       Continue

\* A row inserted now is late if its session has ended.
LEMMA InsertLate ==
    ASSUME TypeOK, SpentInv, LateInv,
           NEW t \in Tokens, NEW s \in Sessions, family[t] = None, InsertRow(t, s),
           UNCHANGED <<spent, ended, parent, targets>>,
           \A r \in Requests : pc[r] = "sweep" => pc'[r] = "sweep"
    PROVE  (\A x \in late' : family'[x] \in ended') /\ LateTokenIsBarren' /\ UnsweptOnlyLate'
  <1> USE DomainAssumption DEF TypeOK, Tokens, Sessions, InsertRow, LateInv
  <1>1. family' = [family EXCEPT ![t] = s] /\ t \notin late /\ None \notin Sessions
    OBVIOUS
  <1>2. \A x \in late' : family'[x] \in ended'
    BY <1>1
  <1>3. \A c \in Tokens : parent[c] # t
    BY DEF SpentInv
  <1>4. LateTokenIsBarren'
    BY <1>3 DEF LateTokenIsBarren
  <1>5. UnsweptOnlyLate'
    <2> SUFFICES ASSUME NEW x \in Tokens, Live(x)', family'[x] \in ended, x \notin late'
                 PROVE  \E r \in Requests : pc'[r] = "sweep" /\ family'[x] \in targets[r]
      BY DEF UnsweptOnlyLate
    <2>1. x # t /\ x \notin late /\ family'[x] = family[x]
      BY <1>1
    <2>2. QED
      BY <2>1 DEF UnsweptOnlyLate, Live
  <1>6. QED
    BY <1>2, <1>4, <1>5

\* What is inserted into an ended session.
LEMMA LateStep == TypeOK /\ RowInv /\ OwnerInv /\ SpentInv /\ VerdictInv /\ LateInv /\ [Next]_vars => LateInv'
  <1> SUFFICES ASSUME TypeOK, RowInv, OwnerInv, SpentInv, VerdictInv, LateInv, [Next]_vars PROVE LateInv'
    OBVIOUS
  <1> USE DomainAssumption DEF TypeOK, Sessions, Tokens, Labels, At, Goto,
      sessionTable, tokenTable, wire, history, locals, LateInv,
      LateTokenIsBarren, UnsweptOnlyLate, Live
  <1>1. ASSUME NEW r \in Requests, NEW u \in Users, LoginUser(r, u) PROVE LateInv'
    BY <1>1 DEF LoginUser
  <1>2. ASSUME NEW r \in Requests, LoginCommit(r) PROVE LateInv'
    <2>1. /\ family[r] = None /\ InsertRow(r, r) /\ UNCHANGED <<spent, ended, parent, targets, tok>>
          /\ pc[r] = "login" /\ pc' = [pc EXCEPT ![r] = "reply"]
      BY <1>2 DEF LoginCommit, RowInv
    <2>2. (\A x \in late' : family'[x] \in ended') /\ LateTokenIsBarren' /\ UnsweptOnlyLate'
      BY <2>1, InsertLate
    <2>3. \A q \in Requests : pc'[q] \in {"user", "rotate"} /\ tok[q] \in late' => tok[q] \in Legacy
      BY <2>1 DEF InsertRow, RowInv, HasRow
    <2>4. QED
      BY <2>1, <2>2, <2>3
  <1>3. ASSUME NEW r \in Requests, NEW t \in Tokens, RefreshRow(r, t) PROVE LateInv'
    <2>1. /\ pc[r] = "idle" /\ jwt[t] # None
          /\ pc' = [pc EXCEPT ![r] = IF family[t] = None THEN "open" ELSE "session"]
          /\ tok' = [tok EXCEPT ![r] = t] /\ user' = [user EXCEPT ![r] = jwt[t]]
          /\ UNCHANGED <<family, spent, ended, parent, late, targets>>
      BY <1>3 DEF RefreshRow
    <2>2. QED
      BY <2>1
  <1>4. ASSUME NEW r \in Requests, RefreshSession(r) PROVE LateInv'
    BY <1>4 DEF RefreshSession
  <1>5. ASSUME NEW r \in Requests, Replay(r) PROVE LateInv'
    BY <1>5 DEF Replay
  <1>6. ASSUME NEW r \in Requests, Sweep(r) PROVE LateInv'
    BY <1>6 DEF Sweep, RowsOf
  <1>7. ASSUME NEW r \in Requests, AdoptSession(r) PROVE LateInv'
    BY <1>7 DEF AdoptSession
  <1>8. ASSUME NEW r \in Requests, AdoptRow(r) PROVE LateInv'
    <2>1. CASE family[tok[r]] = None
      <3>1. /\ InsertRow(tok[r], r) /\ UNCHANGED <<spent, ended, parent, targets, tok>>
            /\ tok[r] \in Legacy
            /\ pc[r] = "adopt" /\ pc' = [pc EXCEPT ![r] = "user"]
        BY <1>8, <2>1 DEF AdoptRow, RowInv
      <3>2. tok[r] \in Tokens /\ r \in Sessions /\ \A q \in Requests : pc[q] = "sweep" => pc'[q] = "sweep"
        BY <3>1
      <3>3. (\A x \in late' : family'[x] \in ended') /\ LateTokenIsBarren' /\ UnsweptOnlyLate'
        BY <2>1, <3>1, <3>2, InsertLate
      <3>4. \A q \in Requests : pc'[q] \in {"user", "rotate"} /\ tok[q] \in late' => tok[q] \in Legacy
        BY <3>1 DEF InsertRow
      <3>5. QED
        BY <3>1, <3>3, <3>4
    <2>2. CASE family[tok[r]] # None
      BY <1>8, <2>2 DEF AdoptRow
    <2>3. QED
      BY <2>1, <2>2
  <1>9. ASSUME NEW r \in Requests, RefreshUser(r) PROVE LateInv'
    BY <1>9 DEF RefreshUser
  <1>10. ASSUME NEW r \in Requests, Rotate(r) PROVE LateInv'
    BY <1>10 DEF Rotate, InsertRow, RowInv, HasRow, SpentInv
  <1>11. ASSUME NEW r \in Requests, Reply(r) PROVE LateInv'
    BY <1>11 DEF Reply
  <1>12. ASSUME NEW r \in Requests, NEW t \in Tokens, RevokeAllAuth(r, t) PROVE LateInv'
    BY <1>12 DEF RevokeAllAuth
  <1>13. ASSUME NEW r \in Requests, RevokeAllRead(r) PROVE LateInv'
    BY <1>13 DEF RevokeAllRead
  <1>14. ASSUME NEW r \in Requests, RevokeAllEnd(r) PROVE LateInv'
    BY <1>14 DEF RevokeAllEnd
  <1>15. ASSUME NEW r \in Requests, NEW t \in Tokens, RevokeOne(r, t) PROVE LateInv'
    BY <1>15 DEF RevokeOne
  <1>16. ASSUME Day PROVE LateInv'
    BY <1>16 DEF Day
  <1>17. ASSUME NEW u \in Users, DeleteUser(u) PROVE LateInv'
    BY <1>17 DEF DeleteUser
  <1>18. ASSUME NEW r \in Requests, Fail(r) PROVE LateInv'
    BY <1>18 DEF Fail
  <1>19. CASE UNCHANGED vars
    BY <1>19 DEF vars
  <1>20. QED
    BY <1>1, <1>2, <1>3, <1>4, <1>5, <1>6, <1>7, <1>8, <1>9, <1>10, <1>11,
       <1>12, <1>13, <1>14, <1>15, <1>16, <1>17, <1>18, <1>19 DEF Next, Start,
       Continue

\* A first token makes a chain of one; a rotation extends the chain at its end
\* unless its token has a successor already, which forks the session.
LEMMA ForkStep == TypeOK /\ RowInv /\ OwnerInv /\ SpentInv /\ ForkInv /\ [Next]_vars => ForkInv'
  <1> SUFFICES ASSUME TypeOK, RowInv, OwnerInv, SpentInv, ForkInv, [Next]_vars PROVE ForkInv'
    OBVIOUS
  <1> USE DomainAssumption DEF TypeOK, Sessions, Tokens, At, Goto, InsertRow
  <1>1. ASSUME UNCHANGED <<family, parent>> PROVE ForkInv'
    <2>1. \A t \in Tokens : family'[t] = family[t] /\ Children(t)' = Children(t)
      BY <1>1 DEF Children
    <2>2. \A t \in Tokens : Forked(family[t]) => (Forked(family[t]))'
      BY <1>1 DEF Forked
    <2>3. QED
      BY <2>1, <2>2 DEF ForkInv
  \* A first token t of session r.
  <1>2. ASSUME NEW r \in Requests, NEW t \in Tokens,
               \A x \in Tokens : family[x] # r,
               family' = [family EXCEPT ![t] = r], family[t] = None, UNCHANGED parent
        PROVE  ForkInv'
    <2> SUFFICES ASSUME NEW t1 \in Tokens, NEW t2 \in Tokens, t1 # t2,
                        family'[t1] # None, family'[t1] = family'[t2],
                        Children(t1)' = {}, Children(t2)' = {}
                 PROVE  (Forked(family[t1]))'
      BY DEF ForkInv
    <2>1. family'[t1] = family[t1] /\ family'[t2] = family[t2]
      BY <1>2
    <2>2. Children(t1) = {} /\ Children(t2) = {}
      BY <1>2 DEF Children
    <2>3. Forked(family[t1])
      BY <2>1, <2>2 DEF ForkInv
    <2>4. QED
      BY <1>2, <2>1, <2>3 DEF Forked
  <1>3. ASSUME NEW r \in Requests, LoginCommit(r) PROVE ForkInv'
    <2>1. \A x \in Tokens : family[x] # r
      BY <1>3 DEF LoginCommit, OwnerInv
    <2>2. family[r] = None /\ family' = [family EXCEPT ![r] = r] /\ UNCHANGED parent
      BY <1>3 DEF LoginCommit, RowInv
    <2>3. QED
      BY <1>2, <2>1, <2>2
  <1>4. ASSUME NEW r \in Requests, AdoptRow(r) PROVE ForkInv'
    <2>1. CASE family[tok[r]] # None
      BY <1>1, <1>4, <2>1 DEF AdoptRow
    <2>2. CASE family[tok[r]] = None
      <3>1. tok[r] \in Tokens /\ \A x \in Tokens : family[x] # r
        BY <1>4 DEF AdoptRow, RowInv, OwnerInv
      <3>2. family' = [family EXCEPT ![tok[r]] = r] /\ UNCHANGED parent
        BY <1>4, <2>2 DEF AdoptRow
      <3>3. QED
        BY <1>2, <2>2, <3>1, <3>2
    <2>3. QED
      BY <2>1, <2>2
  <1>5. ASSUME NEW r \in Requests, Rotate(r) PROVE ForkInv'
    <2>1. PICK p \in Tokens, s \in Sessions :
             /\ s = family[p] /\ family[r] = None /\ parent[r] = None
             /\ family' = [family EXCEPT ![r] = s] /\ parent' = [parent EXCEPT ![r] = p]
      BY <1>5 DEF Rotate, RowInv, HasRow
    <2> SUFFICES ASSUME NEW t1 \in Tokens, NEW t2 \in Tokens, t1 # t2,
                        family'[t1] # None, family'[t1] = family'[t2],
                        Children(t1)' = {}, Children(t2)' = {}
                 PROVE  (Forked(family[t1]))'
      BY DEF ForkInv
    <2>2. ASSUME NEW x \in Sessions PROVE Forked(x) => Forked(x)'
      BY <2>1 DEF Forked
    <2>3. t1 # p /\ t2 # p
      BY <2>1 DEF Children
    <2>4. ASSUME NEW x \in Tokens, x # p, x # r, Children(x)' = {}
          PROVE  Children(x) = {} /\ family'[x] = family[x]
      BY <2>1, <2>4 DEF Children
    <2>5. CASE t1 # r /\ t2 # r
      BY <2>1, <2>2, <2>3, <2>4, <2>5 DEF ForkInv
    <2>6. ASSUME NEW x \in Tokens, x # r, x # p, family'[x] = s, Children(x)' = {}
          PROVE  Forked(s)'
      <3>1. Children(x) = {} /\ family[x] = s
        BY <2>4, <2>6
      <3>2. CASE Children(p) = {}
        BY <2>1, <2>2, <2>6, <3>1, <3>2 DEF ForkInv
      <3>3. CASE Children(p) # {}
        <4>1. PICK c \in Tokens : parent[c] = p
          BY <3>3 DEF Children
        <4>2. c # r /\ family[c] = s
          BY <2>1, <4>1 DEF SpentInv
        <4>3. QED
          BY <2>1, <4>1, <4>2 DEF Forked
      <3>4. QED
        BY <3>2, <3>3
    <2>7. QED
      BY <2>1, <2>3, <2>5, <2>6
  <1>6. ASSUME Next PROVE
          \/ UNCHANGED <<family, parent>>
          \/ \E r \in Requests : LoginCommit(r) \/ AdoptRow(r) \/ Rotate(r)
    BY <1>6 DEF Next, Start, Continue, LoginUser, RefreshRow, RefreshSession, Replay,
       Sweep, AdoptSession, RefreshUser, Reply, RevokeAllAuth, RevokeAllRead,
       RevokeAllEnd, RevokeOne, Day, DeleteUser, Fail, tokenTable, history
  <1>7. QED
    BY <1>1, <1>3, <1>4, <1>5, <1>6 DEF vars, tokenTable, history

\* A session without rows is a pending or a lost adoption.
LEMMA RowlessStep == TypeOK /\ RowInv /\ OwnerInv /\ RowlessSessionsExplained /\ [Next]_vars => RowlessSessionsExplained'
  <1> SUFFICES ASSUME TypeOK, RowInv, OwnerInv, RowlessSessionsExplained, [Next]_vars PROVE RowlessSessionsExplained'
    OBVIOUS
  <1> USE DomainAssumption DEF TypeOK, Sessions, Tokens, Labels, At, Goto,
      InsertRow, sessionTable, tokenTable, wire, history, locals, RowInv,
      HasRow, OwnerInv, RowlessSessionsExplained, RowsOf, OtherSessions
  <1>1. ASSUME NEW r \in Requests, NEW u \in Users, LoginUser(r, u) PROVE RowlessSessionsExplained'
    BY <1>1 DEF LoginUser
  <1>2. ASSUME NEW r \in Requests, LoginCommit(r) PROVE RowlessSessionsExplained'
    BY <1>2 DEF LoginCommit
  <1>3. ASSUME NEW r \in Requests, NEW t \in Tokens, RefreshRow(r, t) PROVE RowlessSessionsExplained'
    BY <1>3 DEF RefreshRow
  <1>4. ASSUME NEW r \in Requests, RefreshSession(r) PROVE RowlessSessionsExplained'
    BY <1>4 DEF RefreshSession
  <1>5. ASSUME NEW r \in Requests, Replay(r) PROVE RowlessSessionsExplained'
    BY <1>5 DEF Replay
  <1>6. ASSUME NEW r \in Requests, Sweep(r) PROVE RowlessSessionsExplained'
    BY <1>6 DEF Sweep
  <1>7. ASSUME NEW r \in Requests, AdoptSession(r) PROVE RowlessSessionsExplained'
    BY <1>7 DEF AdoptSession
  <1>8. ASSUME NEW r \in Requests, AdoptRow(r) PROVE RowlessSessionsExplained'
    <2>1. CASE family[tok[r]] # None
      BY <1>8, <2>1 DEF AdoptRow
    <2>2. CASE family[tok[r]] = None
      <3>1. tok[r] \in Tokens /\ tok[r] \in RowsOf({r})'
        BY <1>8, <2>2 DEF AdoptRow
      <3>2. \A s \in Sessions \ {r} : RowsOf({s})' = RowsOf({s})
        BY <1>8, <2>2 DEF AdoptRow
      <3>3. \A s \in Sessions \ {r} : pc'[s] = pc[s] /\ owner'[s] = owner[s] /\ tok'[s] = tok[s]
        BY <1>8 DEF AdoptRow
      <3>4. \A t \in Tokens : family[t] # None => family'[t] = family[t]
        BY <1>8, <2>2 DEF AdoptRow
      <3>5. ASSUME NEW s \in Sessions \ {r}, owner'[s] # None, RowsOf({s})' = {}
            PROVE  \/ pc'[s] = "adopt"
                   \/ pc'[s] = "done" /\ tok'[s] # None /\ family'[tok'[s]] \notin {None, s}
        <4>1. \/ pc[s] = "adopt"
              \/ pc[s] = "done" /\ tok[s] # None /\ family[tok[s]] \notin {None, s}
          BY <3>2, <3>3, <3>5
        <4>2. QED
          BY <3>3, <3>4, <4>1
      <3>6. QED
        BY <3>1, <3>5
    <2>3. QED
      BY <2>1, <2>2
  <1>9. ASSUME NEW r \in Requests, RefreshUser(r) PROVE RowlessSessionsExplained'
    BY <1>9 DEF RefreshUser
  <1>10. ASSUME NEW r \in Requests, Rotate(r) PROVE RowlessSessionsExplained'
    BY <1>10 DEF Rotate
  <1>11. ASSUME NEW r \in Requests, Reply(r) PROVE RowlessSessionsExplained'
    BY <1>11 DEF Reply
  <1>12. ASSUME NEW r \in Requests, NEW t \in Tokens, RevokeAllAuth(r, t) PROVE RowlessSessionsExplained'
    BY <1>12 DEF RevokeAllAuth
  <1>13. ASSUME NEW r \in Requests, RevokeAllRead(r) PROVE RowlessSessionsExplained'
    BY <1>13 DEF RevokeAllRead
  <1>14. ASSUME NEW r \in Requests, RevokeAllEnd(r) PROVE RowlessSessionsExplained'
    BY <1>14 DEF RevokeAllEnd
  <1>15. ASSUME NEW r \in Requests, NEW t \in Tokens, RevokeOne(r, t) PROVE RowlessSessionsExplained'
    BY <1>15 DEF RevokeOne
  <1>16. ASSUME Day PROVE RowlessSessionsExplained'
    BY <1>16 DEF Day
  <1>17. ASSUME NEW u \in Users, DeleteUser(u) PROVE RowlessSessionsExplained'
    BY <1>17 DEF DeleteUser
  <1>18. ASSUME NEW r \in Requests, Fail(r) PROVE RowlessSessionsExplained'
    BY <1>18 DEF Fail
  <1>19. CASE UNCHANGED vars
    BY <1>19 DEF vars
  <1>20. QED
    BY <1>1, <1>2, <1>3, <1>4, <1>5, <1>6, <1>7, <1>8, <1>9, <1>10, <1>11,
       <1>12, <1>13, <1>14, <1>15, <1>16, <1>17, <1>18, <1>19 DEF Next, Start,
       Continue

-----------------------------------------------------------------------------
(* Theorems.                                                               *)

\* The inductive invariant.
IInv ==
    /\ TypeOK
    /\ RowInv
    /\ OwnerInv
    /\ SpentInv
    /\ VerdictInv
    /\ LateInv
    /\ ForkInv
    /\ RowlessSessionsExplained

LEMMA InitIInv == Init => IInv
  <1> SUFFICES ASSUME Init PROVE IInv
    OBVIOUS
  <1> USE DomainAssumption DEF Init, Sessions, Tokens
  <1>1. TypeOK
    BY DEF TypeOK, Labels
  <1>2. RowInv /\ OwnerInv
    BY DEF RowInv, HasRow, HandedOutHaveRows, OwnerInv, SubjectOwnsSession
  <1>3. SpentInv /\ VerdictInv /\ LateInv
    BY DEF SpentInv, VerdictInv, ReplayVerdictJust, LateInv, LateTokenIsBarren, UnsweptOnlyLate, Live
  <1>4. ForkInv /\ RowlessSessionsExplained
    BY DEF ForkInv, RowlessSessionsExplained
  <1>5. QED
    BY <1>1, <1>2, <1>3, <1>4 DEF IInv

\* The invariant holds throughout.
THEOREM Invariance == Spec => []IInv
  <1>1. IInv /\ [Next]_vars => IInv'
    BY TypeStep, RowStep, OwnerStep, SpentStep, VerdictStep, LateStep, ForkStep, RowlessStep DEF IInv
  <1>2. QED
    BY InitIInv, <1>1, PTL DEF Spec

\* Every variable keeps its type, whatever requests interleave and crash.
THEOREM TypeCorrectness == Spec => []TypeOK
  BY Invariance, PTL DEF IInv

\* Reuse detection accuses only tokens that were rotated before.
THEOREM ReplayVerdictTheorem == Spec => []ReplayVerdictJust
  <1>1. IInv => ReplayVerdictJust
    BY DEF IInv, VerdictInv
  <1>2. QED
    BY Invariance, <1>1, PTL

\* Two live tokens in one session mean that one token was rotated twice.
THEOREM ForkTheorem == Spec => []ForkOnlyByDoubleRotation
  <1>1. ASSUME IInv PROVE ForkOnlyByDoubleRotation
    <2> SUFFICES ASSUME NEW t1 \in Tokens, NEW t2 \in Tokens, Live(t1), Live(t2),
                        t1 # t2, family[t1] = family[t2]
                 PROVE  Forked(family[t1])
      BY DEF ForkOnlyByDoubleRotation
    <2>1. Children(t1) = {} /\ Children(t2) = {}
      BY <1>1, DomainAssumption DEF IInv, SpentInv, Children, Live, Tokens
    <2>2. QED
      BY <1>1, <2>1 DEF IInv, ForkInv, Live
  <1>2. QED
    BY Invariance, <1>1, PTL

\* Only rows inserted into an ended session escape its sweeps, and they are
\* never rotated in their turn.
THEOREM LateTheorem == Spec => []LateRows
  <1>1. IInv => LateRows
    BY DEF IInv, LateInv, LateRows
  <1>2. QED
    BY Invariance, <1>1, PTL

\* JWTs, rows, sessions and requests never disagree on the user, JWTs are handed
\* out after their rows, and sessions without rows are what lost adoptions leave.
THEOREM OwnershipTheorem == Spec => []Ownership
  <1>1. IInv => Ownership
    BY DEF IInv, OwnerInv, RowInv, OwnSessionsOnly, Ownership
  <1>2. QED
    BY Invariance, <1>1, PTL

\* A session ends only by a replay of one of its tokens or from another session
\* of its user.
THEOREM EndedForCauseTheorem == Spec => EndedForCause
  <1> DEFINE Cause == \A s \in ended' \ ended : \E r \in Requests :
                        /\ owner[s] = user[r]
                        /\ \/ pc[r] = "replay" /\ family[tok[r]] = s
                           \/ pc[r] = "end" /\ family[tok[r]] # s
  <1>1. ASSUME IInv, [Next]_vars PROVE [Cause]_vars
    <2>1. ASSUME NEW r \in Requests, Replay(r) PROVE Cause
      BY <1>1, <2>1 DEF Replay, At, IInv, OwnerInv, VerdictInv
    <2>2. ASSUME NEW r \in Requests, RevokeAllEnd(r) PROVE Cause
      BY <1>1, <2>2 DEF RevokeAllEnd, At, IInv, OwnerInv, VerdictInv
    <2>3. CASE UNCHANGED ended
      BY <2>3
    <2>4. \/ UNCHANGED ended
          \/ \E r \in Requests : Replay(r) \/ RevokeAllEnd(r)
          \/ UNCHANGED vars
      BY <1>1 DEF Next, Start, Continue, LoginUser, LoginCommit, RefreshRow, RefreshSession,
         Sweep, AdoptSession, AdoptRow, RefreshUser, Rotate, Reply, RevokeAllAuth,
         RevokeAllRead, RevokeOne, Day, DeleteUser, Fail, sessionTable, vars
    <2>5. QED
      BY <2>1, <2>2, <2>3, <2>4
  <1>2. QED
    BY Invariance, <1>1, PTL DEF Spec, EndedForCause

\* The tables implement SessionLedger: every step of every handler is one of the
\* ledger's steps or leaves its variables alone.
THEOREM LedgerTheorem == Spec => KeepsLedger
  <1>1. Init => Ledger!Init
    BY DEF Init, Ledger!Init
  <1>2. ASSUME IInv, [Next]_vars PROVE [Ledger!Next]_(Ledger!ledger)
    <2> USE DomainAssumption DEF Sessions, Tokens
    <2>1. ASSUME NEW r \in Requests, LoginCommit(r) PROVE Ledger!Open(r, r)
      BY <1>2, <2>1 DEF LoginCommit, At, InsertRow, IInv, RowInv, OwnerInv, Ledger!Open, sessionTable
    <2>2. ASSUME NEW r \in Requests, AdoptRow(r), family[tok[r]] = None
          PROVE  Ledger!Open(r, tok[r]) /\ tok[r] \in Tokens
      BY <1>2, <2>2 DEF AdoptRow, At, InsertRow, IInv, RowInv, OwnerInv, Ledger!Open, sessionTable
    <2>3. ASSUME NEW r \in Requests, Rotate(r)
          PROVE  Ledger!Rotate(tok[r], r) /\ tok[r] \in Tokens
      BY <1>2, <2>3 DEF Rotate, At, InsertRow, IInv, RowInv, HasRow, Ledger!Rotate, sessionTable
    <2>4. ASSUME NEW r \in Requests, Replay(r) \/ RevokeAllEnd(r)
          PROVE  Ledger!End(targets[r]) /\ targets[r] \in SUBSET Sessions
      BY <1>2, <2>4 DEF Replay, RevokeAllEnd, IInv, TypeOK, Ledger!End, tokenTable
    <2>5. ASSUME NEW r \in Requests, Sweep(r)
          PROVE  Ledger!Sweep(RowsOf(targets[r])) /\ RowsOf(targets[r]) \in SUBSET Tokens
      BY <1>2, <2>5 DEF Sweep, At, RowsOf, IInv, VerdictInv, Ledger!Sweep, sessionTable
    <2>6. \/ UNCHANGED Ledger!ledger
          \/ \E r \in Requests :
                LoginCommit(r) \/ (AdoptRow(r) /\ family[tok[r]] = None) \/ Rotate(r)
                \/ Replay(r) \/ RevokeAllEnd(r) \/ Sweep(r)
      BY <1>2 DEF Next, Start, Continue, LoginUser, RefreshRow, RefreshSession, AdoptSession,
         AdoptRow, RefreshUser, Reply, RevokeAllAuth, RevokeAllRead, RevokeOne, Day,
         DeleteUser, Fail, sessionTable, tokenTable, vars, Ledger!ledger
    <2>7. QED
      BY <2>1, <2>2, <2>3, <2>4, <2>5, <2>6 DEF Ledger!Next
  <1>3. QED
    BY <1>1, <1>2, Invariance, PTL DEF Spec, KeepsLedger, Ledger!Spec

=============================================================================

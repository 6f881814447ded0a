--------------------------- MODULE UserAccountProofs ---------------------------
(***************************************************************************)
(* What the saves of whole rows cannot break in an account, for any number *)
(* of handlers and any limit of attempts: verification and passwords are   *)
(* earned, counts are not too high, dead codes stay dead but for one race, *)
(* and a column changes for a cause.                                       *)
(*                                                                         *)
(* The invariant says what a handler holds at each place (LocalInv), that  *)
(* codes are of requests that made them (MadeInv), that counts have their  *)
(* wrong guesses (CountInv), and that whatever row somebody holds a copy   *)
(* of was earned (EarnedInv).                                              *)
(*                                                                         *)
(* The second part is about the counters in Redis that bound how often     *)
(* codes are sent, avatars uploaded, challenges and tokens asked for.      *)
(***************************************************************************)
EXTENDS UserAccount, RequestLimits, FiniteSetTheorems, TLAPS

\* The locals of a handler at label l that runs h, with a copy x of the user's row, the
\* code g it was given and the row s it read.
LocalOK(l, h, x, g, s) ==
    /\ l = "idle" => h = "none" /\ x = None /\ g = None /\ s = None
    /\ l = "limit" => h = "send"
    /\ l \in {"retire", "create", "mail"} => h \in {"send", "request"}
    /\ l \in {"code", "right", "wrong"} => h \in {"verify", "reset"} /\ x \in Row
    /\ l \in {"right", "wrong", "rejected"} => s # None
    /\ l = "save" => h \in WholeSaves \cup {"set"} /\ (h # "set" => x \in Row)
    /\ l \in {"right", "save"} /\ h \in {"verify", "reset"} => g = s /\ s # None
    /\ l = "delete" => h \in {"delete", "job"} /\ (h = "job" => x \in Row /\ ~x.verified)

LocalInv == \A r \in Requests : LocalOK(pc[r], op[r], copy[r], guess[r], seen[r])

\* A code that is, or was, in the table.
Made(c) == op[c] \in {"send", "request"} /\ pc[c] \in {"mail", "done", "crashed"}

MadeInv ==
    /\ \A c \in codes \cup superseded \cup mailed : Made(c)
    /\ \A c \in Requests : attempts[c] # 0 => Made(c)
    /\ \A r \in Requests : seen[r] # None => Made(seen[r]) /\ Purpose(seen[r]) = Purpose(r)
    /\ \A r \in Requests : guess[r] \in mailed \cup {None}

CountInv ==
    /\ \A c \in Requests : IsFiniteSet(Misses(c)) /\ attempts[c] <= Cardinality(Misses(c))
    /\ \A r \in Requests : seen[r] # None => seenAttempt[r] <= Cardinality(Misses(seen[r]))

\* What EarnedByMail says, of any row.
Earned(x) ==
    /\ x.verified => \E r \in Requests :
          op[r] = "verify" /\ pc[r] = "done" /\ guess[r] \in mailed /\ op[guess[r]] = "send"
    /\ x.password # None =>
          \/ op[x.password] \in {"change", "set"}
          \/ /\ op[x.password] = "reset"
             /\ guess[x.password] \in mailed /\ op[guess[x.password]] = "request"

EarnedInv ==
    /\ row # None => Earned(row)
    /\ \A r \in Requests : copy[r] # None => Earned(copy[r])

IInv == /\ TypeOK /\ LocalInv /\ MadeInv /\ CountInv /\ EarnedInv
        /\ ActiveBelowLimit /\ DeadCodesStayDead

-----------------------------------------------------------------------------
(* What a step of one request leaves as it is.                             *)

\* The step of request r to label l, with the locals it then has.
Steps(r, l, h, x, g, s) ==
    /\ pc' = [pc EXCEPT ![r] = l]
    /\ op' = [op EXCEPT ![r] = h]
    /\ copy' = [copy EXCEPT ![r] = x]
    /\ guess' = [guess EXCEPT ![r] = g]
    /\ seen' = [seen EXCEPT ![r] = s]

\* A request is not done yet, keeps its handler and its code, and goes on in order.
Goes(r, l, h, g) ==
    /\ pc[r] \notin Final /\ l \in Labels \ {"idle"}
    /\ h \in Handlers
    /\ pc[r] # "idle" => h = op[r] /\ g = guess[r]
    /\ pc[r] = "mail" => l \in {"done", "crashed"}
    /\ l \in {"save", "done"} /\ h \in {"verify", "reset"} => pc[r] \in {"right", "save"}

LEMMA LocalStep ==
    ASSUME TypeOK, LocalInv, NEW r \in Requests, NEW l, NEW h, NEW x, NEW g, NEW s,
           Steps(r, l, h, x, g, s), LocalOK(l, h, x, g, s)
    PROVE  LocalInv'
<1>1. ASSUME NEW q \in Requests
      PROVE  LocalOK(pc[q], op[q], copy[q], guess[q], seen[q])'
  <2>1. CASE q = r
    BY <2>1 DEF Steps, TypeOK, LocalOK, Row, WholeSaves
  <2>2. CASE q # r
    <3>1. /\ pc'[q] = pc[q] /\ op'[q] = op[q] /\ copy'[q] = copy[q]
          /\ guess'[q] = guess[q] /\ seen'[q] = seen[q]
      BY <2>2 DEF Steps, TypeOK
    <3>2. LocalOK(pc[q], op[q], copy[q], guess[q], seen[q])
      BY DEF LocalInv
    <3>3. QED
      BY <3>1, <3>2 DEF LocalOK, Row, WholeSaves
  <2>3. QED
    BY <2>1, <2>2
<1>2. QED
  BY <1>1 DEF LocalInv

\* A code once made is made, for the purpose it was made for.
LEMMA MadeStays ==
    ASSUME TypeOK, LocalInv, NEW r \in Requests, NEW l, NEW h, NEW x, NEW g, NEW s,
           Steps(r, l, h, x, g, s), Goes(r, l, h, g)
    PROVE  /\ \A q \in Requests : op[q] # "none" => op'[q] = op[q] /\ guess'[q] = guess[q]
           /\ \A c \in Requests : Made(c) => Made(c)' /\ Purpose(c)' = Purpose(c)
           /\ \A q \in Requests \ {r} : op'[q] = op[q] /\ pc'[q] = pc[q] /\ Purpose(q)' = Purpose(q)
<1>1. ASSUME NEW q \in Requests, op[q] # "none"
      PROVE  op'[q] = op[q] /\ guess'[q] = guess[q]
  <2>1. pc[q] # "idle"
    BY <1>1 DEF LocalInv, LocalOK
  <2>2. QED
    BY <2>1 DEF Steps, Goes, TypeOK
<1>2. ASSUME NEW c \in Requests, Made(c)
      PROVE  Made(c)' /\ Purpose(c)' = Purpose(c)
  <2>1. op'[c] = op[c]
    BY <1>1, <1>2 DEF Made
  <2>2. pc'[c] \in {"mail", "done", "crashed"}
    BY <1>2 DEF Made, Steps, Goes, Final, TypeOK
  <2>3. QED
    BY <1>2, <2>1, <2>2 DEF Made, Purpose
<1>3. ASSUME NEW q \in Requests \ {r}
      PROVE  op'[q] = op[q] /\ pc'[q] = pc[q] /\ Purpose(q)' = Purpose(q)
  BY DEF Steps, TypeOK, Purpose
<1>4. QED
  BY <1>1, <1>2, <1>3

LEMMA MadeStep ==
    ASSUME TypeOK, LocalInv, MadeInv, NEW r \in Requests, NEW l, NEW h, NEW x, NEW g, NEW s,
           Steps(r, l, h, x, g, s), Goes(r, l, h, g), TypeOK',
           mailed \subseteq mailed', g \in mailed \cup {None},
           \/ s = seen[r]
           \/ s \in Requests /\ Made(s) /\ pc[r] # "idle" /\ Purpose(s) = Purpose(r),
           \A c \in codes' \cup superseded' \cup mailed' :
               c \in codes \cup superseded \cup mailed \/ Made(c)',
           \A c \in Requests : attempts'[c] # 0 => attempts[c] # 0 \/ Made(c)
    PROVE  MadeInv'
<1>1. /\ \A c \in Requests : Made(c) => Made(c)' /\ Purpose(c)' = Purpose(c)
      /\ \A q \in Requests \ {r} : op'[q] = op[q] /\ pc'[q] = pc[q] /\ Purpose(q)' = Purpose(q)
  BY MadeStays
<1>2. codes \cup superseded \cup mailed \subseteq Requests
  BY DEF TypeOK
<1>3. \A c \in codes' \cup superseded' \cup mailed' : Made(c)'
  BY <1>1, <1>2 DEF MadeInv
<1>4. \A c \in Requests : attempts'[c] # 0 => Made(c)'
  BY <1>1 DEF MadeInv
<1>5. ASSUME NEW q \in Requests, seen'[q] # None
      PROVE  Made(seen[q])' /\ Purpose(seen[q])' = Purpose(q)'
  <2>1. CASE q # r
    <3>1. seen'[q] = seen[q] /\ seen[q] \in Requests
      BY <1>5, <2>1 DEF Steps, TypeOK
    <3>2. Made(seen[q]) /\ Purpose(seen[q]) = Purpose(q)
      BY <1>5, <3>1 DEF MadeInv
    <3>3. Purpose(seen[q])' = Purpose(seen[q]) /\ Made(seen[q])'
      <4>1. \A c \in Requests : c = seen[q] => (Made(c)' /\ Purpose(c)' = Purpose(c))
        BY <1>1, <3>2
      <4>2. QED
        BY <3>1, <4>1 DEF Made, Purpose
    <3>4. QED
      BY <1>1, <2>1, <3>2, <3>3
  <2>2. CASE q = r
    <3>1. seen'[r] = s /\ s \in Requests
      BY <1>5, <2>2 DEF Steps, TypeOK
    <3>2. pc[r] # "idle"
      BY <1>5, <2>2, <3>1 DEF LocalInv, LocalOK
    <3>3. Made(s) /\ Purpose(s) = Purpose(r)
      BY <1>5, <2>2, <3>1 DEF MadeInv
    <3>4. Purpose(r)' = Purpose(r)
      BY <3>2 DEF Steps, Goes, TypeOK, Purpose
    <3>5. Made(s)' /\ Purpose(s)' = Purpose(s)
      BY <1>1, <3>1, <3>3
    <3>6. QED
      BY <2>2, <3>1, <3>3, <3>4, <3>5 DEF Made, Purpose
  <2>3. QED
    BY <2>1, <2>2
<1>6. \A q \in Requests : guess'[q] \in mailed' \cup {None}
  BY DEF Steps, TypeOK, MadeInv
<1>7. QED
  BY <1>3, <1>4, <1>5, <1>6 DEF MadeInv

\* What a row was earned by is never taken back.
LEMMA EarnedStays ==
    ASSUME TypeOK, LocalInv, MadeInv, NEW r \in Requests, NEW l, NEW h, NEW x, NEW g, NEW s,
           Steps(r, l, h, x, g, s), Goes(r, l, h, g), mailed \subseteq mailed'
    PROVE  \A y \in Row : Earned(y) => Earned(y)'
<1>1. SUFFICES ASSUME NEW y \in Row, Earned(y) PROVE Earned(y)'
  OBVIOUS
<1>2. \A q \in Requests : op[q] # "none" => op'[q] = op[q] /\ guess'[q] = guess[q]
  BY MadeStays
<1>3. \A c \in mailed : c \in Requests /\ c \in mailed' /\ op[c] # "none" /\ op'[c] = op[c]
  BY <1>2 DEF MadeInv, Made, TypeOK
<1>4. \A q \in Requests : pc[q] = "done" => pc'[q] = "done"
  BY DEF Steps, Goes, Final, TypeOK
<1>5. y.password # None => y.password \in Requests
  BY DEF Row
<1>6. y.verified => \E q \in Requests :
         op'[q] = "verify" /\ pc'[q] = "done" /\ guess'[q] \in mailed' /\ op'[guess'[q]] = "send"
  <2>1. SUFFICES ASSUME y.verified
                 PROVE  \E q \in Requests : op'[q] = "verify" /\ pc'[q] = "done"
                                            /\ guess'[q] \in mailed' /\ op'[guess'[q]] = "send"
    OBVIOUS
  <2>2. PICK q \in Requests :
            op[q] = "verify" /\ pc[q] = "done" /\ guess[q] \in mailed /\ op[guess[q]] = "send"
    BY <1>1, <2>1 DEF Earned
  <2>3. QED
    BY <1>2, <1>3, <1>4, <2>2
<1>7. y.password # None =>
          \/ op'[y.password] \in {"change", "set"}
          \/ /\ op'[y.password] = "reset"
             /\ guess'[y.password] \in mailed' /\ op'[guess'[y.password]] = "request"
  BY <1>1, <1>2, <1>3, <1>5 DEF Earned
<1>8. QED
  BY <1>6, <1>7 DEF Earned

LEMMA EarnedStep ==
    ASSUME TypeOK, LocalInv, MadeInv, EarnedInv,
           NEW r \in Requests, NEW l, NEW h, NEW x, NEW g, NEW s,
           Steps(r, l, h, x, g, s), Goes(r, l, h, g), mailed \subseteq mailed',
           x \in {None, copy[r], row}, row' \in {None, row}
    PROVE  EarnedInv'
<1>1. \A y \in Row : Earned(y) => Earned(y)'
  BY EarnedStays
<1>2. row' # None => Earned(row)'
  <2>1. CASE row' = None
    BY <2>1
  <2>2. CASE row' = row /\ row # None
    <3>1. row \in Row /\ Earned(row)
      BY <2>2 DEF TypeOK, EarnedInv
    <3>2. QED
      BY <1>1, <2>2, <3>1 DEF Earned
  <2>3. QED
    BY <2>1, <2>2
<1>3. ASSUME NEW q \in Requests, copy'[q] # None
      PROVE  Earned(copy[q])'
  <2>1. copy'[q] \in {copy[q], row}
    BY <1>3 DEF Steps, TypeOK
  <2>2. PICK y \in {copy[q], row} : copy'[q] = y
    BY <2>1
  <2>3. y \in Row /\ Earned(y)
    BY <1>3, <2>2 DEF TypeOK, EarnedInv
  <2>4. Earned(y)'
    BY <1>1, <2>3
  <2>5. QED
    BY <2>2, <2>4 DEF Earned
<1>4. QED
  BY <1>2, <1>3 DEF EarnedInv

-----------------------------------------------------------------------------
(* Counts of wrong guesses and accepted codes.                             *)

LEMMA MissesStep ==
    ASSUME TypeOK, CountInv, NEW r \in Requests, NEW l, NEW h, NEW x, NEW g, NEW s,
           Steps(r, l, h, x, g, s), Goes(r, l, h, g), NEW c \in Requests
    PROVE  /\ Misses(c) \subseteq Misses(c)'
           /\ IsFiniteSet(Misses(c)')
           /\ Cardinality(Misses(c)) <= Cardinality(Misses(c)')
           /\ l = "rejected" /\ s = c =>
                  Misses(c)' # {} /\ Cardinality(Misses(c)') = Cardinality(Misses(c)) + 1
<1>1. IsFiniteSet(Misses(c)) /\ Cardinality(Misses(c)) \in Nat
  BY FS_CardinalityType DEF CountInv
<1>2. r \notin Misses(c)
  BY DEF Goes, Final, Misses
<1>3. CASE l = "rejected" /\ s = c
  <2>1. Misses(c)' = Misses(c) \cup {r}
    BY <1>3 DEF Misses, Steps, TypeOK
  <2>2. /\ IsFiniteSet(Misses(c) \cup {r})
        /\ Cardinality(Misses(c) \cup {r}) = Cardinality(Misses(c)) + 1
    BY <1>1, <1>2, FS_AddElement
  <2>3. QED
    BY <1>1, <2>1, <2>2
<1>4. CASE ~(l = "rejected" /\ s = c)
  <2>1. Misses(c)' = Misses(c)
    BY <1>2, <1>4 DEF Misses, Steps, TypeOK
  <2>2. QED
    BY <1>1, <1>4, <2>1
<1>5. QED
  BY <1>3, <1>4

LEMMA CountStep ==
    ASSUME TypeOK, CountInv, NEW r \in Requests, NEW l, NEW h, NEW x, NEW g, NEW s,
           Steps(r, l, h, x, g, s), Goes(r, l, h, g), TypeOK',
           \A c \in Requests : \/ attempts'[c] = attempts[c]
                               \/ attempts'[c] <= Cardinality(Misses(c)'),
           \A q \in Requests : \/ seenAttempt'[q] = seenAttempt[q] /\ seen'[q] = seen[q]
                               \/ seen'[q] # None /\ seenAttempt'[q] <= Cardinality(Misses(seen'[q]))
    PROVE  CountInv'
<1>1. \A c \in Requests : /\ IsFiniteSet(Misses(c)) /\ Cardinality(Misses(c)) \in Nat
                          /\ IsFiniteSet(Misses(c)') /\ Cardinality(Misses(c)') \in Nat
                          /\ Cardinality(Misses(c)) <= Cardinality(Misses(c)')
  BY MissesStep, FS_CardinalityType DEF CountInv
<1>2. \A c \in Requests : attempts[c] \in Nat /\ attempts'[c] \in Nat
                          /\ seenAttempt[c] \in Nat /\ seenAttempt'[c] \in Nat
  BY AttemptsAssumption DEF TypeOK
<1>3. ASSUME NEW c \in Requests
      PROVE  IsFiniteSet(Misses(c)') /\ attempts'[c] <= Cardinality(Misses(c)')
  BY <1>1, <1>2 DEF CountInv
<1>4. ASSUME NEW q \in Requests, seen'[q] # None
      PROVE  seenAttempt'[q] <= Cardinality(Misses(seen[q])')
  <2>1. PICK c \in Requests : c = seen'[q]
    BY <1>4 DEF TypeOK
  <2>2. seenAttempt'[q] <= Cardinality(Misses(c)')
    BY <1>1, <1>2, <1>4, <2>1 DEF CountInv
  <2>3. QED
    BY <2>1, <2>2 DEF Misses
<1>5. QED
  BY <1>3, <1>4 DEF CountInv

\* A code is accepted in one place.
LEMMA AcceptedStep ==
    ASSUME TypeOK, LocalInv, NEW r \in Requests, NEW l, NEW h, NEW x, NEW g, NEW s,
           Steps(r, l, h, x, g, s), Goes(r, l, h, g), NEW c \in Requests,
           pc[r] # "right" \/ l \notin {"save", "done"} \/ guess[r] # c
    PROVE  Accepted(c)' \subseteq Accepted(c)
<1>1. ASSUME NEW q \in Accepted(c)'
      PROVE  q \in Accepted(c)
  <2>1. q \in Requests /\ op'[q] \in {"verify", "reset"} /\ guess'[q] = c
        /\ pc'[q] \in {"save", "done"}
    BY DEF Accepted
  <2>2. CASE q # r
    BY <2>1, <2>2 DEF Steps, TypeOK, Accepted
  <2>3. CASE q = r
    <3>1. l \in {"save", "done"} /\ h \in {"verify", "reset"} /\ g = c
      BY <2>1, <2>3 DEF Steps, TypeOK
    <3>2. pc[r] \in {"right", "save"} /\ op[r] = h /\ guess[r] = c
      BY <3>1 DEF Goes
    <3>3. QED
      BY <2>3, <3>1, <3>2 DEF Accepted
  <2>4. QED
    BY <2>2, <2>3
<1>2. QED
  BY <1>1

LEMMA DeadStep ==
    ASSUME IInv, NEW r \in Requests, NEW l, NEW h, NEW x, NEW g, NEW s,
           Steps(r, l, h, x, g, s), Goes(r, l, h, g), TypeOK',
           \A c \in active' :
              \/ /\ c \in active /\ (c \in superseded' => c \in superseded)
                 /\ pc[r] # "right" \/ l \notin {"save", "done"} \/ guess[r] # c
              \/ Misses(c)' # {}
              \/ Accepted(c)' = {} /\ c \notin superseded'
    PROVE  DeadCodesStayDead'
<1>1. ASSUME NEW c \in active', Accepted(c)' # {} \/ c \in superseded'
      PROVE  Misses(c)' # {}
  <2>1. c \in Requests
    BY DEF TypeOK
  <2>2. CASE /\ c \in active /\ (c \in superseded' => c \in superseded)
             /\ pc[r] # "right" \/ l \notin {"save", "done"} \/ guess[r] # c
    <3>1. Accepted(c)' \subseteq Accepted(c)
      BY <2>1, <2>2, AcceptedStep DEF IInv
    <3>2. Misses(c) # {}
      BY <1>1, <2>2, <3>1 DEF IInv, DeadCodesStayDead
    <3>3. QED
      BY <2>1, <3>2, MissesStep DEF IInv
  <2>3. QED
    BY <1>1, <2>2
<1>2. QED
  BY <1>1 DEF DeadCodesStayDead

\* A step of one request that leaves the rows of users and codes alone.
LEMMA QuietStep ==
    ASSUME IInv, TypeOK', NEW r \in Requests, NEW l, NEW h, NEW x, NEW g,
           Steps(r, l, h, x, g, seen[r]), Goes(r, l, h, g), LocalOK(l, h, x, g, seen[r]),
           l \notin {"rejected", "create"}, pc[r] # "right" \/ l \notin {"save", "done"},
           x \in {None, copy[r], row}, g \in mailed \cup {None},
           UNCHANGED <<row, table, seenAttempt, superseded>>,
           mailed' = mailed \/ (mailed' = mailed \cup {r} /\ Made(r) /\ Made(r)')
    PROVE  IInv'
<1>1. LocalInv'
  BY LocalStep DEF IInv
<1>2. MadeInv'
  BY MadeStep DEF IInv, table
<1>3. CountInv'
  BY CountStep DEF IInv, table, Steps, TypeOK
<1>4. EarnedInv'
  BY EarnedStep DEF IInv
<1>5. ActiveBelowLimit'
  BY DEF IInv, ActiveBelowLimit, table
<1>6. DeadCodesStayDead'
  BY DeadStep DEF table
<1>7. QED
  BY <1>1, <1>2, <1>3, <1>4, <1>5, <1>6 DEF IInv

-----------------------------------------------------------------------------
(* The steps.                                                              *)

LEMMA StartStep ==
    ASSUME IInv, TypeOK', NEW r \in Requests, NEW h \in Handlers \ {"none"}, NEW l, NEW g \in mailed \cup {None},
           ReadUser(r, h), Goto(r, l), guess' = guess \/ guess' = [guess EXCEPT ![r] = g],
           l = CASE h = "send" -> "limit"
                 [] h = "request" -> "retire"
                 [] h \in {"verify", "reset"} -> "code"
                 [] h \in {"change", "set", "grant", "revoke"} -> "save"
                 [] h = "delete" -> "delete"
                 [] h = "job" -> IF row.verified THEN "done" ELSE "delete"
    PROVE  IInv'
<1> DEFINE x == IF h \in WholeSaves \cup {"job"} THEN row ELSE None
           k == guess'[r]
<1>1. pc[r] = "idle" /\ op[r] = "none" /\ seen[r] = None /\ guess[r] = None /\ copy[r] = None
      /\ row \in Row
  BY DEF ReadUser, IInv, LocalInv, LocalOK, TypeOK
<1>2. k \in mailed \cup {None}
  BY <1>1 DEF IInv, TypeOK
<1>3. Steps(r, l, h, x, k, seen[r])
  BY <1>1 DEF Steps, ReadUser, Goto, codeRow, IInv, TypeOK
<1>4. Goes(r, l, h, k) /\ l \notin {"rejected", "create"}
  BY <1>1 DEF Goes, Handlers, Final, Labels
<1>5. LocalOK(l, h, x, k, seen[r])
  BY <1>1 DEF LocalOK, Handlers, WholeSaves
<1>6. QED
  BY <1>1, <1>2, <1>3, <1>4, <1>5, QuietStep DEF ReadUser, codeRow

LEMMA StartsStep ==
    ASSUME IInv, TypeOK', NEW r \in Requests, Start(r)
    PROVE  IInv'
<1> USE DEF Handlers
<1>1. CASE SendVerifyCode(r)
  BY <1>1, StartStep DEF SendVerifyCode
<1>2. CASE RequestReset(r)
  BY <1>2, StartStep DEF RequestReset
<1>3. ASSUME NEW g \in mailed \cup {None}, VerifyEmail(r, g) PROVE IInv'
  BY <1>3, StartStep DEF VerifyEmail
<1>4. ASSUME NEW g \in mailed \cup {None}, ResetPassword(r, g) PROVE IInv'
  BY <1>4, StartStep DEF ResetPassword
<1>5. CASE ChangePassword(r)
  BY <1>5, StartStep DEF ChangePassword
<1>6. CASE AdminPassword(r)
  BY <1>6, StartStep DEF AdminPassword
<1>7. ASSUME NEW value \in BOOLEAN, SetAdmin(r, value) PROVE IInv'
  BY <1>7, StartStep DEF SetAdmin
<1>8. CASE AdminDelete(r)
  BY <1>8, StartStep DEF AdminDelete
<1>9. QED
  BY <1>1, <1>2, <1>3, <1>4, <1>5, <1>6, <1>7, <1>8 DEF Start

LEMMA JobStep ==
    ASSUME IInv, TypeOK', DeletionJob \/ Misfire
    PROVE  IInv'
<1>1. Job \in Requests
  BY RequestsAssumption
<1>2. CASE ReadUser(Job, "job") /\ Goto(Job, IF row.verified THEN "done" ELSE "delete")
           /\ UNCHANGED guess
  BY <1>1, <1>2, StartStep DEF Handlers
<1>3. ASSUME NEW l \in {"done", "crashed"}, pc[Job] = "idle", Goto(Job, l),
             UNCHANGED <<row, table, mailed, op, guess, copy, codeRow, superseded>>
      PROVE  IInv'
  <2>1. op[Job] = "none" /\ seen[Job] = None /\ guess[Job] = None /\ copy[Job] = None
    BY <1>1, <1>3 DEF IInv, LocalInv, LocalOK
  <2>2. Steps(Job, l, op[Job], copy[Job], guess[Job], seen[Job])
    BY <1>1, <1>3 DEF Steps, Goto, codeRow, IInv, TypeOK
  <2>3. Goes(Job, l, op[Job], guess[Job]) /\ LocalOK(l, op[Job], copy[Job], guess[Job], seen[Job])
    BY <1>3, <2>1 DEF Goes, LocalOK, Handlers, Final, Labels
  <2>4. QED
    BY <1>1, <1>3, <2>1, <2>2, <2>3, QuietStep DEF codeRow
<1>4. QED
  BY <1>2, <1>3 DEF DeletionJob, Misfire

LEMMA PlainStep ==
    ASSUME IInv, TypeOK', NEW r \in Requests, SendLimit(r) \/ Mail(r) \/ Fail(r)
    PROVE  IInv'
<1> DEFINE x == copy'[r]
           l == pc'[r]
<1>1. Steps(r, l, op[r], x, guess[r], seen[r]) /\ x \in {None, copy[r]}
  BY DEF Steps, SendLimit, Mail, Fail, Finish, Goto, codeRow, IInv, TypeOK
<1>2. /\ pc[r] = "limit" => l \in {"retire", "refused", "crashed"}
      /\ pc[r] = "mail" => l \in {"done", "crashed"}
      /\ pc[r] \notin {"limit", "mail"} => l = "crashed"
      /\ pc[r] \notin Final \cup {"idle"}
  BY DEF SendLimit, Mail, Fail, Finish, Goto, IInv, TypeOK, InFlight, Final
<1>3. LocalOK(pc[r], op[r], copy[r], guess[r], seen[r]) /\ op[r] \in Handlers
  BY DEF IInv, LocalInv, TypeOK
<1>4. Goes(r, l, op[r], guess[r]) /\ l \notin {"rejected", "create"}
      /\ (pc[r] # "right" \/ l \notin {"save", "done"})
  BY <1>2, <1>3 DEF Goes, Final, Labels, LocalOK
<1>5. LocalOK(l, op[r], x, guess[r], seen[r])
  BY <1>2, <1>3 DEF LocalOK
<1>6. mailed' = mailed \/ (mailed' = mailed \cup {r} /\ Made(r) /\ Made(r)')
  <2>1. CASE Mail(r)
    BY <1>3, <2>1 DEF Mail, Made, LocalOK, Goto, IInv, TypeOK
  <2>2. CASE SendLimit(r) \/ Fail(r)
    BY <2>2 DEF SendLimit, Fail
  <2>3. QED
    BY <2>1, <2>2
<1>7. UNCHANGED <<row, table, seenAttempt, superseded>>
  BY DEF SendLimit, Mail, Fail, codeRow
<1>8. guess[r] \in mailed \cup {None}
  BY DEF IInv, MadeInv
<1>9. QED
  BY <1>1, <1>4, <1>5, <1>6, <1>7, <1>8, QuietStep

LEMMA ClockStep ==
    ASSUME IInv, Hour \/ Day
    PROVE  /\ LocalInv' /\ MadeInv' /\ CountInv' /\ EarnedInv'
           /\ ActiveBelowLimit' /\ DeadCodesStayDead'
<1>1. UNCHANGED <<row, codes, active, attempts, mailed, pc, op, guess, copy, seen, seenAttempt, superseded>>
  BY DEF Hour, Day, table, codeRow
<1>2. LocalInv' /\ MadeInv' /\ EarnedInv'
  BY <1>1 DEF IInv, LocalInv, LocalOK, MadeInv, Made, Purpose, EarnedInv, Earned
<1>3. CountInv' /\ ActiveBelowLimit' /\ DeadCodesStayDead'
  BY <1>1 DEF IInv, CountInv, Misses, ActiveBelowLimit, DeadCodesStayDead, Accepted
<1>4. QED
  BY <1>2, <1>3

LEMMA RetireStep ==
    ASSUME IInv, TypeOK', NEW r \in Requests, Retire(r)
    PROVE  IInv'
<1>1. pc[r] = "retire" /\ op[r] \in {"send", "request"} /\ op[r] \in Handlers
  BY DEF Retire, IInv, LocalInv, LocalOK, Handlers
<1>2. Steps(r, "create", op[r], copy[r], guess[r], seen[r])
  BY DEF Steps, Retire, Goto, codeRow, IInv, TypeOK
<1>3. Goes(r, "create", op[r], guess[r]) /\ LocalOK("create", op[r], copy[r], guess[r], seen[r])
  BY <1>1 DEF Goes, Final, Labels, LocalOK
<1>4. LocalInv'
  BY <1>2, <1>3, LocalStep DEF IInv
<1>5. guess[r] \in mailed \cup {None}
  BY DEF IInv, MadeInv
<1>6. MadeInv'
  BY <1>2, <1>3, <1>5, MadeStep DEF IInv, Retire
<1>7. CountInv'
  BY <1>2, <1>3, CountStep DEF IInv, Retire, codeRow
<1>8. EarnedInv'
  BY <1>2, <1>3, EarnedStep DEF IInv, Retire
<1>9. ActiveBelowLimit'
  BY DEF IInv, ActiveBelowLimit, Retire
<1>10. \A c \in active' : c \in active /\ (c \in superseded' => c \in superseded)
  BY DEF Retire
<1>11. DeadCodesStayDead'
  BY <1>1, <1>2, <1>3, <1>10, DeadStep
<1>12. QED
  BY <1>4, <1>6, <1>7, <1>8, <1>9, <1>11 DEF IInv

LEMMA CreateStep ==
    ASSUME IInv, TypeOK', NEW r \in Requests, CreateCode(r)
    PROVE  IInv'
<1> DEFINE l == pc'[r]
<1>1. pc[r] = "create" /\ op[r] \in {"send", "request"} /\ op[r] \in Handlers
  BY DEF CreateCode, IInv, LocalInv, LocalOK, Handlers
<1>2. l \in {"mail", "refused"} /\ Steps(r, l, op[r], copy[r], guess[r], seen[r])
  BY DEF Steps, CreateCode, Goto, codeRow, IInv, TypeOK
<1>3. Goes(r, l, op[r], guess[r]) /\ LocalOK(l, op[r], copy[r], guess[r], seen[r])
  BY <1>1, <1>2 DEF Goes, Final, Labels, LocalOK
<1>4. guess[r] \in mailed \cup {None}
  BY DEF IInv, MadeInv
<1>5. CASE row = None
  <2>1. l = "refused" /\ UNCHANGED <<row, table, mailed, seenAttempt, superseded>>
    BY <1>5 DEF CreateCode, Goto, IInv, TypeOK, table, codeRow
  <2>2. QED
    BY <1>1, <1>2, <1>3, <1>4, <2>1, QuietStep
<1>6. CASE row # None
  <2>1. /\ l = "mail" /\ codes' = codes \cup {r} /\ active' = active \cup {r}
        /\ UNCHANGED <<row, attempts, mailed, seenAttempt, superseded>>
    BY <1>6 DEF CreateCode, Goto, IInv, TypeOK, codeRow
  <2>2. LocalInv'
    BY <1>2, <1>3, LocalStep DEF IInv
  <2>3. Made(r)'
    BY <1>1, <1>2, <2>1 DEF Made, Steps, IInv, TypeOK
  <2>4. MadeInv'
    BY <1>2, <1>3, <1>4, <2>1, <2>3, MadeStep DEF IInv
  <2>5. CountInv'
    BY <1>2, <1>3, <2>1, CountStep DEF IInv, CreateCode, codeRow
  <2>6. EarnedInv'
    BY <1>2, <1>3, <2>1, EarnedStep DEF IInv
  <2>7. ~Made(r)
    BY <1>1 DEF Made
  <2>8. attempts[r] = 0 /\ r \notin superseded /\ r \notin mailed
    BY <2>7 DEF IInv, MadeInv
  <2>9. ActiveBelowLimit'
    BY <2>1, <2>8, AttemptsAssumption DEF IInv, ActiveBelowLimit
  <2>10. ASSUME NEW c, c = r PROVE Accepted(c)' = {}
    <3>1. \A q \in Requests : guess'[q] # r
      BY <2>8, RequestsAssumption DEF IInv, MadeInv, CreateCode
    <3>2. QED
      BY <2>10, <3>1 DEF Accepted
  <2>11. DeadCodesStayDead'
    <3>1. ASSUME NEW c \in active'
          PROVE  \/ c \in active /\ (c \in superseded' => c \in superseded)
                 \/ Accepted(c)' = {} /\ c \notin superseded'
      <4>1. CASE c = r
        BY <2>1, <2>8, <2>10, <4>1
      <4>2. CASE c # r
        BY <2>1, <4>2
      <4>3. QED
        BY <4>1, <4>2
    <3>2. QED
      BY <1>1, <1>2, <1>3, <3>1, DeadStep
  <2>12. QED
    BY <2>2, <2>4, <2>5, <2>6, <2>9, <2>11 DEF IInv
<1>7. QED
  BY <1>5, <1>6

LEMMA ReadStep ==
    ASSUME IInv, TypeOK', NEW r \in Requests, ReadCode(r)
    PROVE  IInv'
<1> DEFINE x == copy'[r]
           l == pc'[r]
           s == seen'[r]
<1>1. pc[r] = "code" /\ op[r] \in {"verify", "reset"} /\ op[r] \in Handlers /\ copy[r] \in Row
  BY DEF ReadCode, IInv, LocalInv, LocalOK, Handlers
<1>2. guess[r] \in mailed \cup {None}
  BY DEF IInv, MadeInv
<1>3. CASE Matching(r) = {} /\ Finish(r, "refused") /\ UNCHANGED codeRow
  <2>1. Steps(r, "refused", op[r], None, guess[r], seen[r])
    BY <1>3 DEF Steps, Finish, Goto, ReadCode, codeRow, IInv, TypeOK
  <2>2. Goes(r, "refused", op[r], guess[r]) /\ LocalOK("refused", op[r], None, guess[r], seen[r])
    BY <1>1 DEF Goes, Final, Labels, LocalOK
  <2>3. QED
    BY <1>2, <1>3, <2>1, <2>2, QuietStep DEF ReadCode, codeRow
<1>4. ASSUME NEW c \in Matching(r),
             seen' = [seen EXCEPT ![r] = c],
             seenAttempt' = [seenAttempt EXCEPT ![r] = attempts[c]],
             \/ Finish(r, "expired")
             \/ guess[r] = c /\ Goto(r, "right") /\ UNCHANGED copy
             \/ guess[r] # c /\ Goto(r, "wrong") /\ UNCHANGED copy
      PROVE  IInv'
  <2>1. c \in active /\ c \in codes /\ c \in Requests /\ Purpose(c) = Purpose(r) /\ Made(c)
    BY <1>4 DEF Matching, IInv, TypeOK, MadeInv
  <2>2. /\ l \in {"expired", "right", "wrong"} /\ x \in {None, copy[r]} /\ s = c
        /\ l # "expired" => x = copy[r]
        /\ l = "right" => guess[r] = c
        /\ Steps(r, l, op[r], x, guess[r], c)
    BY <1>4, <2>1 DEF Steps, Finish, Goto, ReadCode, IInv, TypeOK
  <2>3. Goes(r, l, op[r], guess[r]) /\ LocalOK(l, op[r], x, guess[r], c)
    BY <1>1, <2>1, <2>2, RequestsAssumption DEF Goes, Final, Labels, LocalOK
  <2>4. LocalInv'
    BY <2>2, <2>3, LocalStep DEF IInv
  <2>5. MadeInv'
    BY <1>1, <1>2, <2>1, <2>2, <2>3, MadeStep DEF IInv, ReadCode, table
  <2>6. CountInv'
    <3>1. seen'[r] # None /\ seenAttempt'[r] = attempts[c]
      BY <1>4, <2>1, <2>2, RequestsAssumption DEF IInv, TypeOK
    <3>2. attempts[c] <= Cardinality(Misses(c))
      BY <2>1 DEF IInv, CountInv
    <3>3. ASSUME NEW q \in Requests
          PROVE  \/ seenAttempt'[q] = seenAttempt[q] /\ seen'[q] = seen[q]
                 \/ seen'[q] # None /\ seenAttempt'[q] <= Cardinality(Misses(seen'[q]))
      <4>1. CASE q # r
        BY <1>4, <4>1 DEF IInv, TypeOK
      <4>2. CASE q = r
        BY <2>2, <3>1, <3>2, <4>2
      <4>3. QED
        BY <4>1, <4>2
    <3>4. QED
      BY <2>2, <2>3, <3>3, CountStep DEF IInv, ReadCode, table
  <2>7. EarnedInv'
    BY <2>2, <2>3, EarnedStep DEF IInv, ReadCode
  <2>8. ActiveBelowLimit'
    BY DEF IInv, ActiveBelowLimit, ReadCode, table
  <2>9. DeadCodesStayDead'
    BY <1>1, <2>2, <2>3, DeadStep DEF ReadCode, table
  <2>10. QED
    BY <2>4, <2>5, <2>6, <2>7, <2>8, <2>9 DEF IInv
<1>5. QED
  BY <1>3, <1>4 DEF ReadCode

\* A guess is counted in the table after it is counted by Misses: the row gets one
\* more than the request had read, and Misses one more than it had then, or later.
LEMMA WrongStep ==
    ASSUME IInv, TypeOK', NEW r \in Requests, WrongGuess(r)
    PROVE  IInv'
<1> DEFINE n == seenAttempt[r] + 1
<1>1. PICK c \in Requests :
         c = seen[r] /\ pc[r] = "wrong" /\ op[r] \in {"verify", "reset"} /\ c # None
  BY DEF WrongGuess, IInv, LocalInv, LocalOK, TypeOK
<1>2. Made(c) /\ guess[r] \in mailed \cup {None}
  BY <1>1 DEF IInv, MadeInv
<1>3. Steps(r, "rejected", op[r], None, guess[r], c)
  BY <1>1 DEF Steps, WrongGuess, Finish, Goto, codeRow, IInv, TypeOK
<1>4. Goes(r, "rejected", op[r], guess[r]) /\ LocalOK("rejected", op[r], None, guess[r], c)
  BY <1>1 DEF Goes, Final, Labels, LocalOK, Handlers
<1>5. /\ IsFiniteSet(Misses(c)) /\ seenAttempt[r] <= Cardinality(Misses(c))
      /\ Misses(c)' # {} /\ Cardinality(Misses(c)') = Cardinality(Misses(c)) + 1
  BY <1>1, <1>3, <1>4, MissesStep DEF IInv, CountInv
<1>6. Cardinality(Misses(c)) \in Nat /\ seenAttempt[r] \in Nat
  BY <1>5, FS_CardinalityType, AttemptsAssumption DEF IInv, TypeOK
<1>7. n <= Cardinality(Misses(c)')
  BY <1>5, <1>6
<1>8. LocalInv'
  BY <1>3, <1>4, LocalStep DEF IInv
<1>9. /\ \A d \in Requests : attempts'[d] = attempts[d] \/ (d = c /\ attempts'[d] = n)
      /\ \A d \in active' : \/ d = c /\ attempts'[d] < MaxAttempts
                            \/ d \in active /\ d # c /\ attempts'[d] = attempts[d]
  <2>1. attempts[c] \in Int /\ active \subseteq codes /\ codes \subseteq Requests /\ attempts \in [Requests -> 0 .. MaxAttempts]
    BY <1>1 DEF IInv, TypeOK
  <2>2. CASE c \notin codes
    BY <1>1, <2>1, <2>2 DEF WrongGuess, SaveCode
  <2>3. CASE c \in codes
    <3>1. attempts' = [attempts EXCEPT ![c] = n]
          /\ active' = IF n < MaxAttempts THEN active \cup {c} ELSE active \ {c}
      BY <1>1, <2>3 DEF WrongGuess, SaveCode
    <3>2. QED
      BY <1>1, <2>1, <3>1
  <2>4. QED
    BY <2>2, <2>3
<1>10. MadeInv'
  BY <1>1, <1>2, <1>3, <1>4, <1>9, MadeStep DEF IInv, WrongGuess
<1>11. CountInv'
  <2>1. ASSUME NEW d \in Requests
        PROVE  attempts'[d] = attempts[d] \/ attempts'[d] <= Cardinality(Misses(d)')
    <3>1. CASE d = c /\ attempts'[d] = n
      <4>1. Cardinality(Misses(d)') = Cardinality(Misses(d)) + 1
        BY <1>1, <1>3, <1>4, <3>1, MissesStep DEF IInv
      <4>2. seenAttempt[r] <= Cardinality(Misses(d))
        BY <1>5, <3>1
      <4>3. Cardinality(Misses(d)) \in Nat
        BY <1>6, <3>1
      <4>4. QED
        BY <1>6, <3>1, <4>1, <4>2, <4>3
    <3>2. QED
      BY <1>9, <3>1
  <2>2. QED
    BY <1>3, <1>4, <2>1, CountStep DEF IInv, WrongGuess, codeRow
<1>12. EarnedInv'
  BY <1>3, <1>4, EarnedStep DEF IInv, WrongGuess
<1>13. ActiveBelowLimit'
  BY <1>9 DEF IInv, ActiveBelowLimit
<1>14. ASSUME NEW d \in active'
       PROVE  \/ d \in active /\ (d \in superseded' => d \in superseded)
              \/ Misses(d)' # {}
  <2>1. CASE d = c
    BY <1>1, <1>3, <1>4, <2>1, MissesStep DEF IInv
  <2>2. CASE d # c
    BY <1>9, <2>2 DEF WrongGuess
  <2>3. QED
    BY <2>1, <2>2
<1>15. DeadCodesStayDead'
  BY <1>1, <1>3, <1>4, <1>14, DeadStep
<1>16. QED
  BY <1>8, <1>10, <1>11, <1>12, <1>13, <1>15 DEF IInv

\* The count written is one that was read; the code given is no longer active.
LEMMA RightStep ==
    ASSUME IInv, TypeOK', NEW r \in Requests, RightGuess(r)
    PROVE  IInv'
<1> DEFINE c == seen[r]
<1>1. /\ pc[r] = "right" /\ op[r] \in {"verify", "reset"} /\ copy[r] \in Row
      /\ guess[r] = c /\ c # None /\ c \in Requests
  BY DEF RightGuess, IInv, LocalInv, LocalOK, TypeOK
<1>2. Made(c) /\ guess[r] \in mailed \cup {None}
  BY <1>1 DEF IInv, MadeInv
<1>3. Steps(r, "save", op[r], copy[r], guess[r], c)
  BY DEF Steps, RightGuess, Goto, codeRow, IInv, TypeOK
<1>4. Goes(r, "save", op[r], guess[r]) /\ LocalOK("save", op[r], copy[r], guess[r], c)
  BY <1>1 DEF Goes, Final, Labels, LocalOK, Handlers, WholeSaves
<1>5. LocalInv'
  BY <1>3, <1>4, LocalStep DEF IInv
<1>6. /\ \A d \in Requests : attempts'[d] = attempts[d] \/ (d = c /\ attempts'[d] = seenAttempt[r])
      /\ \A d \in active' : d \in active /\ d # c /\ attempts'[d] = attempts[d]
  BY <1>1 DEF RightGuess, SaveCode, IInv, TypeOK
<1>7. MadeInv'
  BY <1>1, <1>2, <1>3, <1>4, <1>6, MadeStep DEF IInv, RightGuess
<1>8. CountInv'
  <2>1. ASSUME NEW d \in Requests
        PROVE  attempts'[d] = attempts[d] \/ attempts'[d] <= Cardinality(Misses(d)')
    <3>1. CASE d = c /\ attempts'[d] = seenAttempt[r]
      <4>1. seenAttempt[r] <= Cardinality(Misses(d)) /\ seenAttempt[r] \in Nat
        BY <1>1, <3>1, AttemptsAssumption DEF IInv, CountInv, TypeOK
      <4>2. /\ IsFiniteSet(Misses(d)) /\ IsFiniteSet(Misses(d)')
            /\ Cardinality(Misses(d)) <= Cardinality(Misses(d)')
        BY <1>3, <1>4, MissesStep DEF IInv, CountInv
      <4>3. Cardinality(Misses(d)) \in Nat /\ Cardinality(Misses(d)') \in Nat
        BY <4>2, FS_CardinalityType
      <4>4. QED
        BY <3>1, <4>1, <4>2, <4>3
    <3>2. QED
      BY <1>6, <3>1
  <2>2. QED
    BY <1>3, <1>4, <2>1, CountStep DEF IInv, RightGuess, codeRow
<1>9. EarnedInv'
  BY <1>3, <1>4, EarnedStep DEF IInv, RightGuess
<1>10. ActiveBelowLimit'
  BY <1>6 DEF IInv, ActiveBelowLimit
<1>11. DeadCodesStayDead'
  BY <1>1, <1>3, <1>4, <1>6, DeadStep DEF RightGuess
<1>12. QED
  BY <1>5, <1>7, <1>8, <1>9, <1>10, <1>11 DEF IInv

\* The row saved was earned: by this request, or with the copy it had.
LEMMA SaveStep ==
    ASSUME IInv, TypeOK', NEW r \in Requests, SaveUser(r)
    PROVE  IInv'
<1>1. /\ pc[r] = "save" /\ op[r] \in WholeSaves \cup {"set"}
      /\ (op[r] # "set" => copy[r] \in Row)
      /\ (op[r] \in {"verify", "reset"} => guess[r] = seen[r] /\ seen[r] # None)
  BY DEF SaveUser, IInv, LocalInv, LocalOK
<1>2. guess[r] \in mailed \cup {None}
  BY DEF IInv, MadeInv
<1>3. Steps(r, "done", op[r], None, guess[r], seen[r])
  BY DEF Steps, SaveUser, Finish, Goto, codeRow, IInv, TypeOK
<1>4. Goes(r, "done", op[r], guess[r]) /\ LocalOK("done", op[r], None, guess[r], seen[r])
  BY <1>1 DEF Goes, Final, Labels, LocalOK, Handlers, WholeSaves
<1>5. LocalInv'
  BY <1>3, <1>4, LocalStep DEF IInv
<1>6. MadeInv'
  BY <1>2, <1>3, <1>4, MadeStep DEF IInv, SaveUser, table
<1>7. CountInv'
  BY <1>3, <1>4, CountStep DEF IInv, SaveUser, table, codeRow
<1>8. ActiveBelowLimit'
  BY DEF IInv, ActiveBelowLimit, SaveUser, table
<1>9. DeadCodesStayDead'
  BY <1>1, <1>3, <1>4, DeadStep DEF SaveUser, table
<1>10. EarnedInv'
  <2>1. \A y \in Row : Earned(y) => Earned(y)'
    BY <1>3, <1>4, EarnedStays DEF IInv, SaveUser
  <2>2. ASSUME NEW q \in Requests, copy'[q] # None
        PROVE  Earned(copy[q])'
    <3>1. copy'[q] = copy[q]
      BY <2>2 DEF SaveUser, Finish, IInv, TypeOK
    <3>2. PICK y \in Row : y = copy[q] /\ Earned(y)
      BY <2>2, <3>1 DEF IInv, EarnedInv, TypeOK
    <3>3. QED
      BY <2>1, <3>1, <3>2 DEF Earned
  <2>3. ASSUME row' # None
        PROVE  Earned(row)'
    <3>1. row # None /\ row \in Row /\ row' = Saved(r) /\ row' \in Row
      BY <2>3 DEF SaveUser, IInv, TypeOK
    <3>2. PICK y \in Row : /\ Earned(y)
                           /\ \/ op[r] \in PasswordOps /\ row' = [y EXCEPT !.password = r]
                              \/ op[r] = "verify" /\ row' = [y EXCEPT !.verified = TRUE]
                              \/ op[r] \in {"grant", "revoke"}
                                    /\ row' = [y EXCEPT !.admin = op[r] = "grant"]
      <4>1. CASE op[r] = "set"
        BY <3>1, <4>1 DEF Saved, PasswordOps, IInv, EarnedInv
      <4>2. CASE op[r] # "set"
        <5>1. copy[r] \in Row /\ Earned(copy[r])
          BY <1>1, <4>2, NoneAssumption DEF IInv, EarnedInv
        <5>2. QED
          BY <1>1, <3>1, <4>2, <5>1 DEF Saved, PasswordOps, WholeSaves
      <4>3. QED
        BY <4>1, <4>2
    <3>3. Earned(y)'
      BY <2>1, <3>2
    <3>4. op'[r] = op[r] /\ guess'[r] = guess[r] /\ pc'[r] = "done" /\ mailed' = mailed
      BY <1>3 DEF SaveUser, Steps, IInv, TypeOK
    <3>5. op[r] \in {"verify", "reset"} =>
             /\ guess[r] \in mailed
             /\ op'[guess[r]] = IF op[r] = "verify" THEN "send" ELSE "request"
      <4>1. SUFFICES ASSUME op[r] \in {"verify", "reset"}
                     PROVE  /\ guess[r] \in mailed
                            /\ op'[guess[r]] = IF op[r] = "verify" THEN "send" ELSE "request"
        OBVIOUS
      <4>2. guess[r] \in mailed /\ Made(guess[r]) /\ Purpose(guess[r]) = Purpose(r)
        BY <1>1, <1>2, <4>1 DEF IInv, MadeInv
      <4>3. op'[guess[r]] = op[guess[r]]
        BY DEF SaveUser
      <4>4. QED
        BY <4>1, <4>2, <4>3 DEF Made, Purpose
    <3>6. CASE op[r] \in PasswordOps /\ row' = [y EXCEPT !.password = r]
      <4>1. row'.verified = y.verified /\ row'.password = r
        BY <3>6 DEF Row
      <4>2. \/ op'[r] \in {"change", "set"}
            \/ op'[r] = "reset" /\ guess'[r] \in mailed' /\ op'[guess'[r]] = "request"
        BY <3>4, <3>5, <3>6 DEF PasswordOps
      <4>3. QED
        BY <3>3, <4>1, <4>2 DEF Earned
    <3>7. CASE op[r] = "verify" /\ row' = [y EXCEPT !.verified = TRUE]
      <4>1. row'.verified /\ row'.password = y.password
        BY <3>7 DEF Row
      <4>2. op'[r] = "verify" /\ pc'[r] = "done" /\ guess'[r] \in mailed' /\ op'[guess'[r]] = "send"
        BY <3>4, <3>5, <3>7
      <4>3. QED
        BY <3>3, <4>1, <4>2 DEF Earned
    <3>8. CASE op[r] \in {"grant", "revoke"} /\ row' = [y EXCEPT !.admin = op[r] = "grant"]
      <4>1. row'.verified = y.verified /\ row'.password = y.password
        BY <3>8 DEF Row
      <4>2. QED
        BY <3>3, <4>1 DEF Earned
    <3>9. QED
      BY <3>2, <3>6, <3>7, <3>8
  <2>4. QED
    BY <2>2, <2>3 DEF EarnedInv
<1>11. QED
  BY <1>5, <1>6, <1>7, <1>8, <1>9, <1>10 DEF IInv

LEMMA DeleteStep ==
    ASSUME IInv, TypeOK', NEW r \in Requests, Delete(r)
    PROVE  IInv'
<1>1. pc[r] = "delete" /\ op[r] \in {"delete", "job"}
  BY DEF Delete, IInv, LocalInv, LocalOK
<1>2. guess[r] \in mailed \cup {None}
  BY DEF IInv, MadeInv
<1>3. Steps(r, "done", op[r], None, guess[r], seen[r])
  BY DEF Steps, Delete, Finish, Goto, codeRow, IInv, TypeOK
<1>4. Goes(r, "done", op[r], guess[r]) /\ LocalOK("done", op[r], None, guess[r], seen[r])
  BY <1>1 DEF Goes, Final, Labels, LocalOK, Handlers
<1>5. LocalInv'
  BY <1>3, <1>4, LocalStep DEF IInv
<1>6. MadeInv'
  BY <1>2, <1>3, <1>4, MadeStep DEF IInv, Delete
<1>7. CountInv'
  BY <1>3, <1>4, CountStep DEF IInv, Delete, codeRow
<1>8. EarnedInv'
  BY <1>3, <1>4, EarnedStep DEF IInv, Delete
<1>9. ActiveBelowLimit' /\ DeadCodesStayDead'
  BY DEF ActiveBelowLimit, DeadCodesStayDead, Delete
<1>10. QED
  BY <1>5, <1>6, <1>7, <1>8, <1>9 DEF IInv

-----------------------------------------------------------------------------
(* The types, and the invariant.                                           *)

LEMMA TypeInit == Init => TypeOK
<1>1. SUFFICES ASSUME Init PROVE TypeOK
  OBVIOUS
<1>2. row \in Row
  BY <1>1 DEF Init, Row
<1>3. 0 \in 0 .. MaxAttempts /\ 0 \in 0 .. MaxAttempts - 1
  BY AttemptsAssumption
<1>4. QED
  BY <1>1, <1>2, <1>3 DEF Init, TypeOK, Labels, Handlers

LEMMA RowStep ==
    ASSUME TypeOK, LocalInv, NEW r \in Requests, SaveUser(r) \/ Delete(r)
    PROVE  TypeOK'
<1>1. CASE SaveUser(r)
  <2>1. /\ pc[r] = "save" /\ op[r] \in WholeSaves \cup {"set"}
        /\ (op[r] # "set" => copy[r] \in Row)
    BY <1>1 DEF SaveUser, LocalInv, LocalOK
  <2>2. row # None => Saved(r) \in Row
    BY <2>1 DEF TypeOK, Saved, Row, WholeSaves
  <2>3. row' \in Row \cup {None}
    BY <1>1, <2>2 DEF SaveUser
  <2>4. QED
    BY <1>1, <2>3 DEF TypeOK, SaveUser, Finish, Goto, table, clock, codeRow, Final, Labels
<1>2. CASE Delete(r)
  BY <1>2 DEF TypeOK, Delete, Finish, Goto, clock, codeRow, Final, Labels
<1>3. QED
  BY <1>1, <1>2

LEMMA CodeTypes ==
    ASSUME TypeOK, MadeInv, LocalInv, ActiveBelowLimit, NEW r \in Requests,
           Retire(r) \/ CreateCode(r) \/ ReadCode(r) \/ WrongGuess(r) \/ RightGuess(r)
    PROVE  TypeOK'
<1> USE DEF Final, Labels
<1>1. CASE Retire(r)
  BY <1>1 DEF TypeOK, Retire, Goto, clock, codeRow
<1>2. CASE CreateCode(r)
  BY <1>2 DEF TypeOK, CreateCode, Goto, clock, codeRow
<1>3. CASE ReadCode(r)
  <2>1. \A c \in active : attempts[c] \in 0 .. MaxAttempts - 1
    BY AttemptsAssumption DEF TypeOK, ActiveBelowLimit
  <2>2. QED
    BY <1>3, <2>1 DEF TypeOK, ReadCode, Finish, Goto, table, clock, codeRow, Matching
<1>4. ASSUME NEW n \in 0 .. MaxAttempts, NEW on, SaveCode(seen[r], n, on)
      PROVE  /\ attempts' \in [Requests -> 0 .. MaxAttempts] /\ active' \subseteq codes
  BY <1>4 DEF TypeOK, SaveCode
<1>5. CASE WrongGuess(r)
  <2>1. seenAttempt[r] + 1 \in 0 .. MaxAttempts
    BY AttemptsAssumption DEF TypeOK
  <2>2. attempts' \in [Requests -> 0 .. MaxAttempts] /\ active' \subseteq codes
    BY <1>4, <1>5, <2>1 DEF WrongGuess
  <2>3. QED
    BY <1>5, <2>2 DEF TypeOK, WrongGuess, Finish, Goto, clock, codeRow
<1>6. CASE RightGuess(r)
  <2>1. seenAttempt[r] \in 0 .. MaxAttempts
    BY AttemptsAssumption DEF TypeOK
  <2>2. attempts' \in [Requests -> 0 .. MaxAttempts] /\ active' \subseteq codes
    BY <1>4, <1>6, <2>1 DEF RightGuess
  <2>3. QED
    BY <1>6, <2>2 DEF TypeOK, RightGuess, Goto, clock, codeRow
<1>7. QED
  BY <1>1, <1>2, <1>3, <1>5, <1>6

LEMMA StartTypes ==
    ASSUME TypeOK, NEW r \in Requests, Start(r)
    PROVE  TypeOK'
<1> USE DEF Final, Labels, Handlers
<1>1. ASSUME NEW h \in Handlers, NEW l \in Labels, NEW g \in Requests \cup {None},
             ReadUser(r, h), Goto(r, l), guess' = guess \/ guess' = [guess EXCEPT ![r] = g]
      PROVE  TypeOK'
  BY <1>1 DEF TypeOK, ReadUser, Goto, table, clock, codeRow
<1>2. mailed \subseteq Requests
  BY DEF TypeOK
<1>3. CASE SendVerifyCode(r) \/ RequestReset(r)
  BY <1>1, <1>3 DEF SendVerifyCode, RequestReset
<1>4. CASE \E g \in mailed \cup {None} : VerifyEmail(r, g) \/ ResetPassword(r, g)
  BY <1>1, <1>2, <1>4 DEF VerifyEmail, ResetPassword
<1>5. CASE ChangePassword(r) \/ AdminPassword(r) \/ AdminDelete(r)
  BY <1>1, <1>5 DEF ChangePassword, AdminPassword, AdminDelete
<1>6. CASE \E value \in BOOLEAN : SetAdmin(r, value)
  BY <1>1, <1>6 DEF SetAdmin
<1>7. QED
  BY <1>3, <1>4, <1>5, <1>6 DEF Start

LEMMA OtherTypes ==
    ASSUME TypeOK, \/ \E r \in Requests : SendLimit(r) \/ Mail(r) \/ Fail(r)
                   \/ DeletionJob \/ Misfire \/ Hour \/ Day
    PROVE  TypeOK'
<1> USE DEF Final, Labels, Handlers
<1>1. CASE \E r \in Requests : SendLimit(r) \/ Mail(r) \/ Fail(r)
  BY <1>1 DEF TypeOK, SendLimit, Mail, Fail, Finish, Goto, table, clock, codeRow
<1>2. CASE DeletionJob \/ Misfire
  BY <1>2, RequestsAssumption DEF TypeOK, DeletionJob, Misfire, ReadUser, Goto, table, clock, codeRow
<1>3. CASE Hour \/ Day
  BY <1>3 DEF TypeOK, Hour, Day, table, codeRow
<1>4. QED
  BY <1>1, <1>2, <1>3

LEMMA InitInv == Init => IInv
<1>1. SUFFICES ASSUME Init PROVE IInv
  OBVIOUS
<1>2. TypeOK
  BY <1>1, TypeInit
<1>3. LocalInv
  BY <1>1 DEF Init, LocalInv, LocalOK
<1>4. MadeInv
  BY <1>1 DEF Init, MadeInv
<1>5. CountInv
  <2>1. \A c : Misses(c) = {}
    BY <1>1 DEF Init, Misses
  <2>2. IsFiniteSet({}) /\ Cardinality({}) = 0
    BY FS_EmptySet
  <2>3. QED
    BY <1>1, <2>1, <2>2 DEF Init, CountInv
<1>6. EarnedInv
  BY <1>1 DEF Init, EarnedInv, Earned
<1>7. ActiveBelowLimit /\ DeadCodesStayDead
  BY <1>1 DEF Init, ActiveBelowLimit, DeadCodesStayDead
<1>8. QED
  BY <1>2, <1>3, <1>4, <1>5, <1>6, <1>7 DEF IInv

LEMMA InvStep == IInv /\ [Next]_vars => IInv'
<1>1. SUFFICES ASSUME IInv, [Next]_vars PROVE IInv'
  OBVIOUS
<1>2. ASSUME NEW r \in Requests, Start(r) PROVE IInv'
  BY <1>1, <1>2, StartTypes, StartsStep DEF IInv
<1>3. ASSUME NEW r \in Requests, Continue(r) \/ Fail(r) PROVE IInv'
  <2>1. CASE SendLimit(r) \/ Mail(r) \/ Fail(r)
    BY <1>1, <2>1, OtherTypes, PlainStep DEF IInv
  <2>2. CASE Retire(r) \/ CreateCode(r) \/ ReadCode(r) \/ WrongGuess(r) \/ RightGuess(r)
    <3>1. TypeOK'
      BY <1>1, <2>2, CodeTypes DEF IInv
    <3>2. QED
      BY <1>1, <2>2, <3>1, RetireStep, CreateStep, ReadStep, WrongStep, RightStep
  <2>3. CASE SaveUser(r) \/ Delete(r)
    BY <1>1, <2>3, RowStep, SaveStep, DeleteStep DEF IInv
  <2>4. QED
    BY <1>3, <2>1, <2>2, <2>3 DEF Continue
<1>4. CASE DeletionJob \/ Misfire
  BY <1>1, <1>4, OtherTypes, JobStep DEF IInv
<1>5. CASE Hour \/ Day
  BY <1>1, <1>5, OtherTypes, ClockStep DEF IInv
<1>6. CASE UNCHANGED vars
  <2>1. UNCHANGED <<row, codes, active, attempts, expired, day, mailed, pc, op, guess, copy, seen,
                    seenAttempt, superseded>>
    BY <1>6 DEF vars, table, clock, codeRow
  <2>2. TypeOK' /\ LocalInv' /\ MadeInv' /\ EarnedInv'
    BY <1>1, <2>1 DEF IInv, TypeOK, LocalInv, LocalOK, MadeInv, Made, Purpose, EarnedInv, Earned
  <2>3. CountInv' /\ ActiveBelowLimit' /\ DeadCodesStayDead'
    BY <1>1, <2>1 DEF IInv, CountInv, Misses, ActiveBelowLimit, DeadCodesStayDead, Accepted
  <2>4. QED
    BY <2>2, <2>3 DEF IInv
<1>7. QED
  BY <1>1, <1>2, <1>3, <1>4, <1>5, <1>6 DEF Next

\* The inductive invariant holds in every reachable state.
THEOREM Invariance == Spec => []IInv
BY InitInv, InvStep, PTL DEF Spec

-----------------------------------------------------------------------------
(* What follows.                                                           *)

\* The codes of an account are counted and spent as CodesCounted says, for any number of
\* overlapping guesses, sends and deletions: the second handler that writes a code's row
\* back does not charge a guess that was not made, and does not revive a code, but for a
\* wrong guess that had read it (verify_email, reset_password).
THEOREM CodesTheorem == Spec => []CodesCounted
<1>1. IInv => CodesCounted
  <2>1. SUFFICES ASSUME IInv PROVE AttemptsNotOvercounted
    BY DEF IInv, CodesCounted
  <2>2. codes \subseteq Requests
    BY <2>1 DEF IInv, TypeOK
  <2>3. QED
    BY <2>1, <2>2 DEF IInv, CountInv, AttemptsNotOvercounted
<1>2. QED
  BY <1>1, Invariance, PTL

\* An account is verified, and its password is a reset one, only by a code that was
\* mailed for that, whoever saves the row with what stale copy.
THEOREM EarnedTheorem == Spec => []EarnedByMail
<1>1. IInv => EarnedByMail
  BY DEF IInv, EarnedInv, Earned, EarnedByMail
<1>2. QED
  BY <1>1, Invariance, PTL

\* Verification and password change in the steps of the handlers that mean to, and of
\* whole-row saves that had read the row before, and in no other.
THEOREM ColumnsTheorem == Spec => ColumnsKept
<1> DEFINE Verified == row # None /\ row.verified =>
               \/ row' # None /\ row'.verified
               \/ \E r \in Requests :
                     /\ pc[r] \in {"save", "delete"} /\ pc'[r] = "done"
                     /\ \/ op[r] = "delete"
                        \/ op[r] \in WholeSaves \cup {"job"} /\ ~copy[r].verified
           Password == row # None /\ row' # None /\ row'.password # row.password =>
               \E r \in Requests :
                  /\ pc[r] = "save" /\ pc'[r] = "done"
                  /\ \/ op[r] \in PasswordOps /\ row'.password = r
                     \/ op[r] \in WholeSaves \ PasswordOps /\ row'.password = copy[r].password
<1>1. ASSUME IInv, [Next]_vars PROVE Verified /\ Password
  <2>1. CASE \E r \in Requests : SaveUser(r)
    <3>1. PICK r \in Requests : SaveUser(r)
      BY <2>1
    <3>2. /\ pc[r] = "save" /\ pc'[r] = "done" /\ op[r] \in WholeSaves \cup {"set"}
          /\ (op[r] # "set" => copy[r] \in Row)
      BY <1>1, <3>1 DEF SaveUser, Finish, Goto, IInv, LocalInv, LocalOK, TypeOK
    <3>3. \/ row = None /\ row' = None
          \/ row \in Row /\ row' = Saved(r) /\ Saved(r) # None
      <4>1. CASE row # None
        <5>1. row \in Row /\ row' = Saved(r) /\ Saved(r) \in Row
          BY <1>1, <3>1, <3>2, <4>1 DEF SaveUser, IInv, TypeOK, Saved, Row, WholeSaves
        <5>2. QED
          BY <5>1, NoneAssumption
      <4>2. QED
        BY <1>1, <3>1, <4>1 DEF SaveUser
    <3>4. CASE op[r] = "set"
      BY <3>2, <3>3, <3>4 DEF Saved, Row, PasswordOps
    <3>5. CASE op[r] \in {"change", "reset"}
      BY <3>2, <3>3, <3>5 DEF Saved, Row, PasswordOps, WholeSaves
    <3>6. CASE op[r] = "verify"
      BY <3>2, <3>3, <3>6 DEF Saved, Row, PasswordOps, WholeSaves
    <3>7. CASE op[r] \in {"grant", "revoke"}
      BY <3>2, <3>3, <3>7 DEF Saved, Row, PasswordOps, WholeSaves
    <3>8. QED
      BY <3>2, <3>4, <3>5, <3>6, <3>7 DEF WholeSaves
  <2>2. CASE \E r \in Requests : Delete(r)
    <3>1. PICK r \in Requests : Delete(r)
      BY <2>2
    <3>2. pc[r] = "delete" /\ pc'[r] = "done" /\ row' = None
          /\ \/ op[r] = "delete"
             \/ op[r] = "job" /\ ~copy[r].verified
      BY <1>1, <3>1 DEF Delete, Finish, Goto, IInv, LocalInv, LocalOK, TypeOK
    <3>3. QED
      BY <3>2
  <2>3. CASE row' = row
    BY <2>3
  <2>4. QED
    <3>1. [Next]_vars => row' = row \/ \E r \in Requests : SaveUser(r) \/ Delete(r)
      BY DEF Next, vars, Start, SendVerifyCode, RequestReset, VerifyEmail, ResetPassword,
             ChangePassword, AdminPassword, SetAdmin, AdminDelete, ReadUser, Continue, SendLimit,
             Retire, CreateCode, Mail, ReadCode, WrongGuess, RightGuess, Fail, DeletionJob,
             Misfire, Hour, Day
    <3>2. QED
      BY <1>1, <2>1, <2>2, <2>3, <3>1
<1>2. IInv /\ [Next]_vars => [Verified]_vars /\ [Password]_vars
  BY <1>1
<1>3. QED
  BY <1>2, Invariance, PTL DEF Spec, ColumnsKept, VerificationKept, PasswordKept

-----------------------------------------------------------------------------
(* The counters in front of sending codes, which other requests share: the *)
(* handlers of RequestLimits, with state of their own in Redis.            *)

\* What a request is there for, by place, and what it knows of its counter unless that
\* has changed since.
AskerOK(r) ==
    /\ place[r] \in {"begin", "add"} => kind[r] \in Limits \cap Reading
    /\ place[r] \in {"expire", "serve"} => kind[r] \in Limits \ Reading
    /\ place[r] = "begin" /\ r \notin stale => counter[kind[r]] = 0
    /\ place[r] = "add" /\ r \notin stale => counter[kind[r]] \in 1 .. Count - 1

\* Those let through by a counter asked for it, and have counted. As long as the counter
\* is there it has counted them all.
PassedOK(l) ==
    /\ IsFiniteSet(passed[l])
    /\ \A r \in passed[l] : kind[r] = l /\ place[r] \notin {"idle", "begin", "add"}
    /\ Cardinality(passed[l] \ stale) <= Count
    /\ counter[l] > 0 => Cardinality(passed[l] \ stale) <= counter[l]

\* A nonce is that of a challenge which was given.
NonceOK == \A n \in nonces : kind[n] = "challenge" /\ place[n] = "done"

LimitsInv ==
    /\ LimitsTypeOK /\ (\A r \in Askers : AskerOK(r)) /\ (\A l \in Limits : PassedOK(l))
    /\ EndlessExplained /\ NonceOK /\ TokensPaid

LEMMA LimitsStart ==
    ASSUME LimitsInit
    PROVE  LimitsInv
<1>1. LimitsTypeOK /\ (\A r \in Askers : AskerOK(r)) /\ EndlessExplained /\ NonceOK /\ TokensPaid
  BY LimitsAssumption DEF LimitsInit, LimitsTypeOK, AskerOK, EndlessExplained, NonceOK, TokensPaid
<1>2. ASSUME NEW l \in Limits
      PROVE  PassedOK(l)
  <2>1. passed[l] = {} /\ passed[l] \ stale = {} /\ counter[l] = 0
    BY DEF LimitsInit
  <2>2. IsFiniteSet({}) /\ Cardinality({}) = 0
    BY FS_EmptySet
  <2>3. QED
    BY <2>1, <2>2, LimitsAssumption DEF PassedOK
<1>3. QED
  BY <1>1, <1>2 DEF LimitsInv

\* What was counted stays counted, while the counter is as it was or gone.
LEMMA PassedKept ==
    ASSUME NEW m \in Limits, PassedOK(m), counter[m] \in Nat, Count \in Nat,
           passed'[m] = passed[m], stale \subseteq stale', counter'[m] \in {counter[m], 0},
           \A q \in passed[m] : kind'[q] = kind[q] /\ place'[q] \notin {"idle", "begin", "add"}
    PROVE  PassedOK(m)'
<1>1. /\ IsFiniteSet(passed[m]) /\ Cardinality(passed[m] \ stale) <= Count
      /\ counter[m] > 0 => Cardinality(passed[m] \ stale) <= counter[m]
  BY DEF PassedOK
<1>2. passed'[m] \ stale' \subseteq passed[m] \ stale /\ IsFiniteSet(passed[m] \ stale)
  BY <1>1, FS_Difference
<1>3. Cardinality(passed'[m] \ stale') <= Cardinality(passed[m] \ stale)
      /\ Cardinality(passed'[m] \ stale') \in Nat /\ Cardinality(passed[m] \ stale) \in Nat
  BY <1>2, FS_Subset, FS_CardinalityType
<1>4. /\ IsFiniteSet(passed'[m])
      /\ \A q \in passed'[m] : kind'[q] = m /\ place'[q] \notin {"idle", "begin", "add"}
  BY <1>1 DEF PassedOK
<1>5. Cardinality(passed'[m] \ stale') <= Count
      /\ (counter'[m] > 0 => Cardinality(passed'[m] \ stale') <= counter'[m])
  BY <1>1, <1>3
<1>6. QED
  BY <1>4, <1>5 DEF PassedOK

\* The counter l becomes n: those let through are one more at most, and r knew the
\* counter or is known not to have.
LEMMA CountsStep ==
    ASSUME LimitsInv, NEW r \in Askers, NEW l \in Limits, NEW n \in Nat \ {0},
           NEW through \in BOOLEAN, Counts(r, l, n, through),
           n = 1 \/ n = counter[l] + 1,
           through /\ r \notin stale => n <= Count,
           place[r] \in {"idle", "begin", "add"}, place' = [place EXCEPT ![r] = place'[r]],
           kind' = [kind EXCEPT ![r] = l], through => place'[r] \notin {"idle", "begin", "add"}
    PROVE  \A m \in Limits : PassedOK(m)'
<1>t. /\ counter \in [Limits -> Nat] /\ passed \in [Limits -> SUBSET Askers] /\ stale \subseteq Askers
      /\ place \in [Askers -> {"idle", "begin", "add", "expire", "serve", "done", "refused", "died"}]
      /\ kind \in [Askers -> Limits \cup {Nothing}]
      /\ Count \in Nat /\ Count > 0 /\ \A m \in Limits : PassedOK(m)
  BY LimitsAssumption DEF LimitsInv, LimitsTypeOK
<1>1. stale \subseteq stale' /\ r \notin stale' \ stale
  BY DEF Counts
<1>2. ASSUME NEW m \in Limits, NEW q \in passed[m]
      PROVE  q # r /\ q \in Askers /\ kind'[q] = kind[q] /\ place'[q] = place[q]
  <2>1. q # r /\ q \in Askers
    BY <1>t DEF PassedOK
  <2>2. QED
    BY <1>t, <2>1
<1>3. ASSUME NEW m \in Limits, m # l
      PROVE  PassedOK(m)'
  <2>1. passed'[m] = passed[m] /\ counter'[m] = counter[m]
    BY <1>t, <1>3 DEF Counts
  <2>2. \A q \in passed'[m] : kind'[q] = m /\ place'[q] \notin {"idle", "begin", "add"}
    BY <1>t, <1>2, <2>1 DEF PassedOK
  <2>3. QED
    BY <1>t, <1>1, <1>2, <2>1, <2>2, PassedKept
<1>4. PassedOK(l)'
  <2> DEFINE old == IF n = 1 THEN {} ELSE passed[l]
             new == IF through THEN {r} ELSE {}
  <2>1. passed'[l] = old \cup new /\ counter'[l] = n
    BY <1>t DEF Counts
  <2>a. /\ n = 1 => old = {}
        /\ n # 1 => old = passed[l]
        /\ through => new = {r}
        /\ ~through => new = {}
    OBVIOUS
  <2> HIDE DEF old, new
  <2>2. /\ IsFiniteSet(old) /\ IsFiniteSet(new) /\ IsFiniteSet(old \ stale)
        /\ Cardinality(old \ stale) \in Nat /\ Cardinality(old \ stale) <= n - 1
        /\ Cardinality(old \ stale) <= Count
    <3>1. IsFiniteSet(new)
      <4>1. IsFiniteSet({}) /\ IsFiniteSet({r})
        BY FS_EmptySet, FS_Singleton
      <4>2. new = {} \/ new = {r}
        BY <2>a
      <4>3. QED
        BY <4>1, <4>2
    <3>2. CASE n = 1
      <4>1. old = {} /\ old \ stale = {}
        BY <2>a, <3>2
      <4>2. QED
        BY <1>t, <3>1, <3>2, <4>1, FS_EmptySet
    <3>3. CASE n # 1
      <4>1. old = passed[l] /\ n = counter[l] + 1 /\ counter[l] > 0
        BY <1>t, <2>a, <3>3
      <4>2. IsFiniteSet(passed[l]) /\ Cardinality(passed[l] \ stale) <= Count
            /\ Cardinality(passed[l] \ stale) <= counter[l]
        BY <1>t, <4>1 DEF PassedOK
      <4>3. IsFiniteSet(passed[l] \ stale) /\ Cardinality(passed[l] \ stale) \in Nat
        BY <4>2, FS_Difference, FS_CardinalityType
      <4>4. counter[l] \in Nat /\ n - 1 = counter[l]
        BY <1>t, <4>1
      <4>5. IsFiniteSet(old) /\ IsFiniteSet(old \ stale)
        BY <4>1, <4>2, <4>3
      <4>6. Cardinality(old \ stale) = Cardinality(passed[l] \ stale)
        BY <4>1
      <4>7. QED
        BY <3>1, <4>2, <4>3, <4>4, <4>5, <4>6
    <3>4. QED
      BY <3>2, <3>3
  <2>3. IsFiniteSet(passed'[l])
    <3>1. IsFiniteSet(old \cup new)
      BY <2>2, FS_Union
    <3>2. QED
      BY <2>1, <3>1
  <2>4. \A q \in passed'[l] : kind'[q] = l /\ place'[q] \notin {"idle", "begin", "add"}
    <3>1. ASSUME NEW q \in old
          PROVE  kind'[q] = l /\ place'[q] \notin {"idle", "begin", "add"}
      <4>1. q \in passed[l]
        BY <2>a, <3>1
      <4>2. QED
        BY <1>t, <1>2, <4>1 DEF PassedOK
    <3>2. kind'[r] = l
      BY <1>t
    <3>3. QED
      BY <2>1, <2>a, <3>1, <3>2
  <2>5. Cardinality(passed'[l] \ stale') <= n /\ Cardinality(passed'[l] \ stale') <= Count
    <3>1. IsFiniteSet((old \ stale) \cup {r})
          /\ Cardinality((old \ stale) \cup {r}) \in Nat
          /\ Cardinality((old \ stale) \cup {r}) <= Cardinality(old \ stale) + 1
      <4>1. /\ IsFiniteSet((old \ stale) \cup {r})
            /\ Cardinality((old \ stale) \cup {r}) = Cardinality(old \ stale) \/ Cardinality((old \ stale) \cup {r}) = Cardinality(old \ stale) + 1
        BY <2>2, FS_AddElement
      <4>2. QED
        BY <2>2, <4>1
    <3>2. CASE through /\ r \notin stale
      <4>1. passed'[l] \ stale' \subseteq (old \ stale) \cup {r}
        BY <1>1, <2>1, <2>a
      <4>2. Cardinality(passed'[l] \ stale') <= Cardinality((old \ stale) \cup {r})
            /\ Cardinality(passed'[l] \ stale') \in Nat
        BY <3>1, <4>1, FS_Subset, FS_CardinalityType
      <4>3. n <= Count
        BY <3>2
      <4>4. QED
        BY <1>t, <2>2, <3>1, <4>2, <4>3
    <3>3. CASE ~ (through /\ r \notin stale)
      <4>1. passed'[l] \ stale' \subseteq old \ stale
        BY <1>1, <2>1, <2>a, <3>3
      <4>2. Cardinality(passed'[l] \ stale') <= Cardinality(old \ stale)
            /\ Cardinality(passed'[l] \ stale') \in Nat
        BY <2>2, <4>1, FS_Subset, FS_CardinalityType
      <4>3. QED
        BY <1>t, <2>2, <4>2
    <3>4. QED
      BY <3>2, <3>3
  <2>6. QED
    BY <2>1, <2>3, <2>4, <2>5 DEF PassedOK
<1>5. QED
  BY <1>3, <1>4

LEMMA LimitsTypes == LimitsInv =>
    /\ counter \in [Limits -> Nat] /\ passed \in [Limits -> SUBSET Askers] /\ stale \subseteq Askers
    /\ ends \subseteq {l \in Limits : counter[l] > 0} /\ nonces \subseteq Askers
    /\ place \in [Askers -> {"idle", "begin", "add", "expire", "serve", "done", "refused", "died"}]
    /\ kind \in [Askers -> Limits \cup {Nothing}]
    /\ paid \in [Askers -> Askers \cup {Nothing}]
BY DEF LimitsInv, LimitsTypeOK

LEMMA LimitsTypeStep ==
    ASSUME LimitsInv, LimitsNext
    PROVE  LimitsTypeOK'
<1> USE LimitsTypes
<1>1. ASSUME NEW r \in Askers, NEW l \in Limits, ReadAttempts(r, l)
      PROVE  LimitsTypeOK'
  <2>1. place' \in [Askers -> {"idle", "begin", "add", "expire", "serve", "done", "refused", "died"}]
        /\ kind' \in [Askers -> Limits \cup {Nothing}]
    BY <1>1 DEF ReadAttempts, Moves
  <2>2. UNCHANGED <<counter, ends, nonces, paid, passed, stale>>
    BY <1>1 DEF ReadAttempts, redis, history
  <2>3. QED
    BY <2>1, <2>2 DEF LimitsTypeOK
<1>2. ASSUME NEW r \in Askers, NEW l \in Limits, NEW n \in Nat \ {0}, NEW through, Counts(r, l, n, through)
      PROVE  /\ counter' \in [Limits -> Nat] /\ passed' \in [Limits -> SUBSET Askers] /\ stale' \subseteq Askers
             /\ ends \cup {l} \subseteq {m \in Limits : counter'[m] > 0}
  <2>1. counter' = [counter EXCEPT ![l] = n] /\ stale' = stale \cup (Readers(l) \ {r})
    BY <1>2 DEF Counts
  <2>2. passed' \in [Limits -> SUBSET Askers]
    BY <1>2 DEF Counts
  <2>3. Readers(l) \subseteq Askers
    BY DEF Readers
  <2>4. counter' \in [Limits -> Nat] /\ counter'[l] = n /\ \A m \in Limits \ {l} : counter'[m] = counter[m]
    BY <2>1
  <2>5. ends \cup {l} \subseteq {m \in Limits : counter'[m] > 0}
    BY <2>4
  <2>6. QED
    BY <2>1, <2>2, <2>3, <2>4, <2>5
<1>3. ASSUME NEW r \in Askers, BeginCounter(r) \/ AddAttempt(r)
      PROVE  LimitsTypeOK'
  <2>1. kind[r] \in Limits /\ counter[kind[r]] + 1 \in Nat \ {0}
    <3>1. place[r] \in {"begin", "add"} /\ AskerOK(r)
      BY <1>3 DEF BeginCounter, AddAttempt, LimitsInv
    <3>2. QED
      BY <3>1 DEF AskerOK
  <2>2. Counts(r, kind[r], 1, TRUE) \/ Counts(r, kind[r], counter[kind[r]] + 1, TRUE)
    BY <1>3 DEF BeginCounter, AddAttempt
  <2>3. /\ counter' \in [Limits -> Nat] /\ passed' \in [Limits -> SUBSET Askers] /\ stale' \subseteq Askers
        /\ ends \cup {kind[r]} \subseteq {m \in Limits : counter'[m] > 0}
    <3>1. CASE Counts(r, kind[r], 1, TRUE)
      <4>1. kind[r] \in Limits /\ 1 \in Nat \ {0}
        BY <2>1
      <4>2. QED
        BY <1>2, <3>1, <4>1, Zenon
    <3>2. CASE Counts(r, kind[r], counter[kind[r]] + 1, TRUE)
      BY <1>2, <2>1, <3>2
    <3>3. QED
      BY <2>2, <3>1, <3>2
  <2>4. /\ place' \in [Askers -> {"idle", "begin", "add", "expire", "serve", "done", "refused", "died"}]
        /\ ends' \subseteq ends \cup {kind[r]} /\ UNCHANGED <<nonces, kind, paid>>
    BY <1>3 DEF BeginCounter, AddAttempt, Moves
  <2>5. QED
    BY <2>3, <2>4 DEF LimitsTypeOK
<1>4. ASSUME NEW r \in Askers, NEW l \in Limits, Hit(r, l)
      PROVE  LimitsTypeOK'
  <2>1. Counts(r, l, counter[l] + 1, counter[l] + 1 <= Count) /\ counter[l] + 1 \in Nat \ {0}
    BY <1>4 DEF Hit
  <2>2. /\ counter' \in [Limits -> Nat] /\ passed' \in [Limits -> SUBSET Askers] /\ stale' \subseteq Askers
        /\ ends \cup {l} \subseteq {m \in Limits : counter'[m] > 0}
    BY <1>2, <2>1
  <2>3. /\ place' \in [Askers -> {"idle", "begin", "add", "expire", "serve", "done", "refused", "died"}]
        /\ kind' \in [Askers -> Limits \cup {Nothing}] /\ UNCHANGED <<ends, nonces, paid>>
    BY <1>4 DEF Hit, Moves
  <2>4. QED
    BY <2>2, <2>3 DEF LimitsTypeOK
<1>5. ASSUME NEW r \in Askers, SetEnd(r)
      PROVE  LimitsTypeOK'
  <2>1. kind[r] \in Limits
    <3>1. place[r] = "expire" /\ AskerOK(r)
      BY <1>5 DEF SetEnd, LimitsInv
    <3>2. QED
      BY <3>1 DEF AskerOK
  <2>2. QED
    BY <1>5, <2>1 DEF SetEnd, Moves, LimitsTypeOK, history
<1>6. ASSUME NEW r \in Askers, GiveNonce(r) \/ IssueToken(r) \/ BreakOff(r)
      PROVE  LimitsTypeOK'
  <2>1. UNCHANGED <<counter, ends, kind, passed, stale>>
    BY <1>6 DEF GiveNonce, IssueToken, BreakOff, redis, history
  <2>2. /\ place' \in [Askers -> {"idle", "begin", "add", "expire", "serve", "done", "refused", "died"}]
        /\ nonces' \subseteq Askers /\ paid' \in [Askers -> Askers \cup {Nothing}]
    BY <1>6 DEF GiveNonce, IssueToken, BreakOff, Moves, redis
  <2>3. QED
    BY <2>1, <2>2 DEF LimitsTypeOK
<1>7. ASSUME NEW l \in Limits, EndCounter(l)
      PROVE  LimitsTypeOK'
  <2>1. Readers(l) \subseteq Askers
    BY DEF Readers
  <2>2. QED
    BY <1>7, <2>1 DEF EndCounter, LimitsTypeOK
<1>8. ASSUME NEW n \in Askers, EndNonce(n)
      PROVE  LimitsTypeOK'
  BY <1>8 DEF EndNonce, LimitsTypeOK, history
<1>9. QED
  BY <1>1, <1>3, <1>4, <1>5, <1>6, <1>7, <1>8 DEF LimitsNext, Arrive, Proceed

\* Where requests go: one at a time moves, begins idle and ends for good.
LEMMA PlacesStep ==
    ASSUME LimitsInv, LimitsNext
    PROVE  /\ \A q \in Askers : place[q] # "idle" => kind'[q] = kind[q]
           /\ \A q \in Askers : place[q] \in {"done", "refused", "died"} => place'[q] = place[q]
           /\ \A q \in Askers : place[q] \notin {"idle", "begin", "add"} => place'[q] \notin {"idle", "begin", "add"}
<1> USE LimitsTypes
<1>1. ASSUME NEW r \in Askers, NEW x, NEW m, place' = [place EXCEPT ![r] = x], x # "idle",
             place[r] \notin {"done", "refused", "died"},
             place[r] \notin {"idle", "begin", "add"} => x \notin {"idle", "begin", "add"},
             kind' = kind \/ (place[r] = "idle" /\ kind' = [kind EXCEPT ![r] = m])
      PROVE  /\ \A q \in Askers : place[q] # "idle" => kind'[q] = kind[q]
             /\ \A q \in Askers : place[q] \in {"done", "refused", "died"} => place'[q] = place[q]
             /\ \A q \in Askers : place[q] \notin {"idle", "begin", "add"} => place'[q] \notin {"idle", "begin", "add"}
  BY <1>1
<1>2. ASSUME NEW r \in Askers, NEW l \in Limits, ReadAttempts(r, l) \/ Hit(r, l)
      PROVE  /\ place[r] = "idle" /\ kind' = [kind EXCEPT ![r] = l]
             /\ \E x \in {"begin", "add", "refused", "expire"} : place' = [place EXCEPT ![r] = x]
  BY <1>2 DEF ReadAttempts, Hit, Moves
<1>3. ASSUME NEW r \in Askers, Proceed(r) \/ BreakOff(r)
      PROVE  /\ place[r] \in {"begin", "add", "expire", "serve"} /\ kind' = kind
             /\ \E x \in {"done", "serve", "refused", "died"} : place' = [place EXCEPT ![r] = x]
  BY <1>3 DEF Proceed, BeginCounter, AddAttempt, SetEnd, GiveNonce, IssueToken, BreakOff, Moves
<1>4. ASSUME (\E l \in Limits : EndCounter(l)) \/ (\E n \in Askers : EndNonce(n))
      PROVE  place' = place /\ kind' = kind
  BY <1>4 DEF EndCounter, EndNonce
<1>5. CASE \E r \in Askers : Arrive(r)
  BY <1>1, <1>2, <1>5 DEF Arrive
<1>6. CASE \E r \in Askers : Proceed(r) \/ BreakOff(r)
  BY <1>1, <1>3, <1>6
<1>7. QED
  BY <1>4, <1>5, <1>6 DEF LimitsNext

\* A nonce is given once and pays once.
LEMMA NonceStep ==
    ASSUME LimitsInv, LimitsNext
    PROVE  NonceOK' /\ TokensPaid'
<1>t. /\ \A q \in Askers : place[q] = "done" => place'[q] = "done" /\ kind'[q] = kind[q]
      /\ NonceOK /\ TokensPaid
  BY PlacesStep DEF LimitsInv
<1> USE LimitsTypes
<1>1. CASE UNCHANGED paid /\ nonces' \subseteq nonces
  BY <1>t, <1>1 DEF NonceOK, TokensPaid
<1>2. ASSUME NEW r \in Askers, GiveNonce(r)
      PROVE  NonceOK' /\ TokensPaid'
  <2>1. nonces' = nonces \cup {r} /\ place[r] = "serve" /\ place'[r] = "done" /\ kind'[r] = "challenge" /\ paid' = paid
    BY <1>2 DEF GiveNonce, Moves
  <2>2. NonceOK'
    BY <1>t, <2>1 DEF NonceOK
  <2>3. \A q \in Askers : paid[q] # r
    BY <1>t, <2>1, LimitsAssumption DEF TokensPaid
  <2>4. TokensPaid'
    BY <1>t, <2>1, <2>3 DEF TokensPaid
  <2>5. QED
    BY <2>2, <2>4
<1>3. ASSUME NEW r \in Askers, NEW n \in nonces, IssueToken(r),
             nonces' = nonces \ {n}, paid' = [paid EXCEPT ![r] = n]
      PROVE  NonceOK' /\ TokensPaid'
  <2>1. NonceOK'
    BY <1>t, <1>3 DEF NonceOK
  <2>2. kind[n] = "challenge" /\ place[n] = "done" /\ \A q \in Askers : paid[q] # n
    <3>1. n \in Askers /\ n # Nothing
      BY LimitsAssumption
    <3>2. QED
      BY <1>t, <3>1 DEF NonceOK, TokensPaid
  <2>3. TokensPaid'
    <3>1. SUFFICES ASSUME NEW q \in Askers, paid'[q] # Nothing
                   PROVE  /\ kind'[paid'[q]] = "challenge" /\ place'[paid'[q]] = "done" /\ paid'[q] \notin nonces'
                          /\ \A p \in Askers : paid'[p] = paid'[q] => p = q
      BY DEF TokensPaid
    <3>2. CASE q = r
      BY <1>t, <1>3, <2>2, <3>2
    <3>3. CASE q # r
      <4>1. paid'[q] = paid[q] /\ paid[q] # n /\ paid[q] \in Askers
        BY <1>3, <2>2, <3>1, <3>3
      <4>2. QED
        BY <1>t, <1>3, <3>1, <4>1 DEF TokensPaid
    <3>4. QED
      BY <3>2, <3>3
  <2>4. QED
    BY <2>1, <2>3
<1>4. CASE \E r \in Askers : GiveNonce(r)
  BY <1>2, <1>4
<1>5. CASE \E r \in Askers : IssueToken(r)
  <2>1. PICK r \in Askers : IssueToken(r)
    BY <1>5
  <2>2. \/ \E n \in nonces : nonces' = nonces \ {n} /\ paid' = [paid EXCEPT ![r] = n]
        \/ nonces' \subseteq nonces /\ paid' = paid
    BY <2>1 DEF IssueToken
  <2>3. QED
    BY <1>1, <1>3, <2>1, <2>2
<1>6. CASE ~ (\E r \in Askers : GiveNonce(r) \/ IssueToken(r))
  <2>1. UNCHANGED paid /\ nonces' \subseteq nonces
    BY <1>6 DEF LimitsNext, Arrive, Proceed, ReadAttempts, Hit, BeginCounter, AddAttempt,
                SetEnd, BreakOff, EndCounter, EndNonce, redis, history
  <2>2. QED
    BY <1>1, <2>1
<1>7. QED
  BY <1>4, <1>5, <1>6

\* What a request knows of its counter.
LEMMA AskerStep ==
    ASSUME LimitsInv, LimitsNext
    PROVE  \A q \in Askers : AskerOK(q)'
<1> USE LimitsTypes
<1>t. Count \in Nat /\ \A q \in Askers : AskerOK(q)
  BY LimitsAssumption DEF LimitsInv
<1>1. ASSUME NEW q \in Askers, place'[q] = place[q], kind'[q] = kind[q], stale \subseteq stale',
             counter'[kind[q]] = counter[kind[q]] \/ place[q] \notin {"begin", "add"} \/ q \in stale'
      PROVE  AskerOK(q)'
  BY <1>t, <1>1 DEF AskerOK
<1>2. ASSUME NEW r \in Askers, NEW l \in Limits, ReadAttempts(r, l), NEW q \in Askers
      PROVE  AskerOK(q)'
  <2>1. /\ UNCHANGED <<counter, stale>> /\ l \in Reading /\ kind' = [kind EXCEPT ![r] = l]
        /\ place' = [place EXCEPT ![r] = IF counter[l] = 0 THEN "begin"
                                         ELSE IF counter[l] >= Count THEN "refused" ELSE "add"]
    BY <1>2 DEF ReadAttempts, redis, history, Moves, Refuses
  <2>2. CASE q = r
    <3>1. counter'[l] = counter[l] /\ counter[l] \in Nat /\ kind'[r] = l
          /\ place'[r] = (IF counter[l] = 0 THEN "begin" ELSE IF counter[l] >= Count THEN "refused" ELSE "add")
      BY <2>1
    <3>2. QED
      BY <1>t, <2>1, <2>2, <3>1 DEF AskerOK
  <2>3. CASE q # r
    BY <1>1, <2>1, <2>3
  <2>4. QED
    BY <2>2, <2>3
<1>3. ASSUME NEW r \in Askers, NEW l \in Limits, NEW n, NEW through, Counts(r, l, n, through),
             NEW q \in Askers \ {r}, place'[q] = place[q], kind'[q] = kind[q]
      PROVE  AskerOK(q)'
  <2>1. stale' = stale \cup (Readers(l) \ {r}) /\ counter' = [counter EXCEPT ![l] = n]
    BY <1>3 DEF Counts
  <2>2. place[q] \in {"begin", "add"} /\ kind[q] = l => q \in stale'
    BY <2>1 DEF Readers
  <2>3. kind[q] # l => counter'[kind[q]] = counter[kind[q]]
    BY <2>1
  <2>4. QED
    BY <1>1, <1>3, <2>1, <2>2, <2>3
<1>4. ASSUME NEW r \in Askers, BeginCounter(r) \/ AddAttempt(r), NEW q \in Askers
      PROVE  AskerOK(q)'
  <2>1. /\ Counts(r, kind[r], 1, TRUE) \/ Counts(r, kind[r], counter[kind[r]] + 1, TRUE)
        /\ kind' = kind /\ place' = [place EXCEPT ![r] = "done"] /\ place[r] \in {"begin", "add"}
    BY <1>4 DEF BeginCounter, AddAttempt, Moves
  <2>2. kind[r] \in Limits
    BY <1>t, <2>1 DEF AskerOK
  <2>3. CASE q = r
    BY <2>1, <2>3 DEF AskerOK
  <2>4. CASE q # r
    <3>1. q \in Askers \ {r} /\ place'[q] = place[q] /\ kind'[q] = kind[q]
      BY <2>1, <2>4
    <3>2. QED
      BY <1>3, <2>1, <2>2, <3>1
  <2>5. QED
    BY <2>3, <2>4
<1>5. ASSUME NEW r \in Askers, NEW l \in Limits, Hit(r, l), NEW q \in Askers
      PROVE  AskerOK(q)'
  <2>1. /\ Counts(r, l, counter[l] + 1, counter[l] + 1 <= Count) /\ l \notin Reading
        /\ kind' = [kind EXCEPT ![r] = l]
        /\ place' = [place EXCEPT ![r] = "expire"] \/ place' = [place EXCEPT ![r] = "refused"]
    BY <1>5 DEF Hit, Moves
  <2>2. CASE q = r
    <3>1. kind'[r] = l /\ place'[r] \in {"expire", "refused"}
      BY <2>1
    <3>2. QED
      BY <2>1, <2>2, <3>1 DEF AskerOK
  <2>3. CASE q # r
    <3>1. q \in Askers \ {r} /\ place'[q] = place[q] /\ kind'[q] = kind[q]
      BY <2>1, <2>3
    <3>2. QED
      BY <1>3, <2>1, <3>1
  <2>4. QED
    BY <2>2, <2>3
<1>6. ASSUME NEW r \in Askers, SetEnd(r) \/ GiveNonce(r) \/ IssueToken(r) \/ BreakOff(r), NEW q \in Askers
      PROVE  AskerOK(q)'
  <2>1. UNCHANGED <<counter, kind, stale>>
    BY <1>6 DEF SetEnd, GiveNonce, IssueToken, BreakOff, redis, history
  <2>2. \/ place[r] = "expire" /\ place' = [place EXCEPT ![r] = "serve"]
        \/ \E x \in {"done", "refused", "died"} : place' = [place EXCEPT ![r] = x]
    BY <1>6 DEF SetEnd, GiveNonce, IssueToken, BreakOff, Moves
  <2>3. CASE q = r
    BY <1>t, <2>1, <2>2, <2>3 DEF AskerOK
  <2>4. CASE q # r
    BY <1>1, <2>1, <2>2, <2>4
  <2>5. QED
    BY <2>3, <2>4
<1>7. ASSUME NEW l \in Limits, EndCounter(l), NEW q \in Askers
      PROVE  AskerOK(q)'
  <2>1. /\ UNCHANGED <<place, kind>> /\ stale' = stale \cup Readers(l) /\ counter' = [counter EXCEPT ![l] = 0]
    BY <1>7 DEF EndCounter
  <2>2. place[q] \in {"begin", "add"} /\ kind[q] = l => q \in stale'
    BY <2>1 DEF Readers
  <2>3. kind[q] # l => counter'[kind[q]] = counter[kind[q]]
    BY <2>1
  <2>4. QED
    BY <1>1, <2>1, <2>2, <2>3
<1>8. ASSUME NEW n \in Askers, EndNonce(n), NEW q \in Askers
      PROVE  AskerOK(q)'
  BY <1>1, <1>8 DEF EndNonce, history
<1>9. QED
  BY <1>2, <1>4, <1>5, <1>6, <1>7, <1>8 DEF LimitsNext, Arrive, Proceed

\* What the counters have let through.
LEMMA PassedStep ==
    ASSUME LimitsInv, LimitsNext
    PROVE  \A m \in Limits : PassedOK(m)'
<1> USE LimitsTypes
<1>t. /\ Count \in Nat /\ Count > 0 /\ \A m \in Limits : PassedOK(m)
      /\ \A q \in Askers : AskerOK(q)
      /\ \A q \in Askers : place[q] # "idle" => kind'[q] = kind[q]
      /\ \A q \in Askers : place[q] \notin {"idle", "begin", "add"} => place'[q] \notin {"idle", "begin", "add"}
  BY PlacesStep, LimitsAssumption DEF LimitsInv
<1>1. ASSUME passed' = passed, stale \subseteq stale',
             \A m \in Limits : counter'[m] \in {counter[m], 0}
      PROVE  \A m \in Limits : PassedOK(m)'
  <2>1. SUFFICES ASSUME NEW m \in Limits
                 PROVE  PassedOK(m)'
    OBVIOUS
  <2>2. \A q \in passed[m] : kind'[q] = kind[q] /\ place'[q] \notin {"idle", "begin", "add"}
    <3>1. \A q \in passed[m] : q \in Askers /\ place[q] \notin {"idle", "begin", "add"}
      BY <1>t DEF PassedOK
    <3>2. QED
      BY <1>t, <3>1
  <2>3. PassedOK(m) /\ counter[m] \in Nat
    BY <1>t
  <2>4. QED
    BY <1>t, <1>1, <2>2, <2>3, PassedKept
<1>2. ASSUME NEW r \in Askers, BeginCounter(r) \/ AddAttempt(r)
      PROVE  \A m \in Limits : PassedOK(m)'
  <2>1. /\ place[r] \in {"begin", "add"} /\ kind' = kind /\ place' = [place EXCEPT ![r] = "done"]
        /\ kind[r] \in Limits
    BY <1>t, <1>2 DEF BeginCounter, AddAttempt, Moves, AskerOK
  <2>2. kind' = [kind EXCEPT ![r] = kind[r]] /\ place'[r] = "done"
    BY <2>1
  <2>3. CASE BeginCounter(r)
    <3>1. Counts(r, kind[r], 1, TRUE)
      BY <2>3 DEF BeginCounter
    <3>2. 1 \in Nat \ {0} /\ TRUE \in BOOLEAN /\ 1 <= Count
      BY <1>t
    <3>3. QED
      BY <2>1, <2>2, <3>1, <3>2, CountsStep
  <2>4. CASE AddAttempt(r)
    <3>1. Counts(r, kind[r], counter[kind[r]] + 1, TRUE) /\ place[r] = "add"
      BY <2>4 DEF AddAttempt
    <3>2. counter[kind[r]] + 1 \in Nat \ {0} /\ TRUE \in BOOLEAN
          /\ (r \notin stale => counter[kind[r]] + 1 <= Count)
      BY <1>t, <2>1, <3>1 DEF AskerOK
    <3>3. QED
      BY <2>1, <2>2, <3>1, <3>2, CountsStep
  <2>5. QED
    BY <1>2, <2>3, <2>4
<1>3. ASSUME NEW r \in Askers, NEW l \in Limits, Hit(r, l)
      PROVE  \A m \in Limits : PassedOK(m)'
  <2> DEFINE n == counter[l] + 1
             through == n <= Count
  <2>1. /\ place[r] = "idle" /\ kind' = [kind EXCEPT ![r] = l]
        /\ Counts(r, l, n, through)
        /\ place' = [place EXCEPT ![r] = IF through THEN "expire" ELSE "refused"]
    BY <1>3 DEF Hit, Moves
  <2>2. n \in Nat \ {0} /\ n = counter[l] + 1 /\ (through <=> n <= Count) /\ through \in BOOLEAN
    OBVIOUS
  <2>3. place' = [place EXCEPT ![r] = place'[r]] /\ (through => place'[r] \notin {"idle", "begin", "add"})
    BY <2>1
  <2> HIDE DEF n, through
  <2>4. CASE n <= Count
    <3>1. Counts(r, l, n, TRUE) /\ TRUE \in BOOLEAN /\ place'[r] \notin {"idle", "begin", "add"}
      BY <2>1, <2>2, <2>3, <2>4 DEF Counts
    <3>2. QED
      BY <2>1, <2>2, <2>3, <2>4, <3>1, CountsStep
  <2>5. CASE ~ (n <= Count)
    <3>1. Counts(r, l, n, FALSE) /\ FALSE \in BOOLEAN
      BY <2>1, <2>2, <2>5 DEF Counts
    <3>2. QED
      BY <2>1, <2>2, <2>3, <3>1, CountsStep
  <2>6. QED
    BY <2>4, <2>5
<1>4. CASE \E r \in Askers, l \in Limits : ReadAttempts(r, l)
  BY <1>1, <1>4 DEF ReadAttempts, redis, history
<1>5. CASE \E r \in Askers : SetEnd(r) \/ GiveNonce(r) \/ IssueToken(r) \/ BreakOff(r) \/ EndNonce(r)
  BY <1>1, <1>5 DEF SetEnd, GiveNonce, IssueToken, BreakOff, EndNonce, redis, history
<1>6. CASE \E l \in Limits : EndCounter(l)
  BY <1>1, <1>6 DEF EndCounter
<1>7. QED
  BY <1>2, <1>3, <1>4, <1>5, <1>6 DEF LimitsNext, Arrive, Proceed

\* Why a counter has no end.
LEMMA EndlessStep ==
    ASSUME LimitsInv, LimitsNext
    PROVE  EndlessExplained'
<1> USE LimitsTypes
<1>t. /\ Count \in Nat /\ Count > 0 /\ EndlessExplained
      /\ \A q \in Askers : AskerOK(q)
      /\ \A m \in Limits : \A q \in passed[m] : q \in Askers /\ kind[q] = m /\ place[q] \notin {"idle", "begin", "add"}
  <2>1. \A m \in Limits : \A q \in passed[m] : kind[q] = m /\ place[q] \notin {"idle", "begin", "add"}
    BY DEF LimitsInv, PassedOK
  <2>2. QED
    BY <2>1, LimitsAssumption DEF LimitsInv
<1> DEFINE Explained(l) == IF l \in Reading THEN passed[l] \cap stale # {}
                           ELSE passed[l] # {} /\ \A r \in passed[l] : place[r] \in {"expire", "died"}
<1>1. ASSUME NEW m \in Limits, Explained(m), passed'[m] = passed[m], stale \subseteq stale',
             \A q \in passed[m] : place[q] \in {"expire", "died"} => place'[q] \in {"expire", "died"}
      PROVE  Explained(m)'
  BY <1>1
<1>2. ASSUME \A m \in Limits : counter'[m] > 0 /\ m \notin ends' =>
                 counter[m] > 0 /\ m \notin ends /\ passed'[m] = passed[m],
             stale \subseteq stale',
             \A m \in Limits : \A q \in passed[m] : counter'[m] > 0 /\ m \notin ends' =>
                 (place[q] \in {"expire", "died"} => place'[q] \in {"expire", "died"})
      PROVE  EndlessExplained'
  <2>1. SUFFICES ASSUME NEW m \in Limits, counter'[m] > 0 /\ m \notin ends'
                 PROVE  Explained(m)'
    BY DEF EndlessExplained
  <2>2. Explained(m) /\ passed'[m] = passed[m]
    BY <1>t, <1>2, <2>1 DEF EndlessExplained
  <2>3. QED
    BY <1>1, <1>2, <2>1, <2>2
<1>3. CASE \E r \in Askers, l \in Limits : ReadAttempts(r, l)
  <2>1. PICK r \in Askers, l \in Limits : ReadAttempts(r, l)
    BY <1>3
  <2>2. /\ UNCHANGED <<counter, ends, passed, stale>> /\ place[r] = "idle"
        /\ \A q \in Askers \ {r} : place'[q] = place[q]
    BY <2>1 DEF ReadAttempts, redis, history, Moves
  <2>3. QED
    BY <1>t, <1>2, <2>2
<1>4. CASE \E r \in Askers : GiveNonce(r) \/ IssueToken(r) \/ BreakOff(r) \/ SetEnd(r)
  <2>1. PICK r \in Askers : GiveNonce(r) \/ IssueToken(r) \/ BreakOff(r) \/ SetEnd(r)
    BY <1>4
  <2>2. /\ UNCHANGED <<counter, passed, stale>> /\ ends \subseteq ends'
        /\ \A q \in Askers \ {r} : place'[q] = place[q]
    BY <2>1 DEF GiveNonce, IssueToken, BreakOff, SetEnd, redis, history, Moves
  <2>3. \/ place[r] \notin {"expire", "died"}
        \/ place'[r] \in {"expire", "died"}
        \/ place[r] = "expire" /\ ends' = (IF counter[kind[r]] > 0 THEN ends \cup {kind[r]} ELSE ends)
    BY <2>1 DEF GiveNonce, IssueToken, BreakOff, SetEnd, Moves
  <2>4. QED
    BY <1>t, <1>2, <2>2, <2>3
<1>5. CASE (\E l \in Limits : EndCounter(l)) \/ (\E n \in Askers : EndNonce(n))
  <2>1. /\ UNCHANGED <<passed, place>> /\ stale \subseteq stale'
        /\ \A m \in Limits : counter'[m] > 0 /\ m \notin ends' => counter[m] > 0 /\ m \notin ends
    BY <1>5 DEF EndCounter, EndNonce, history
  <2>2. QED
    BY <1>2, <2>1
<1>6. ASSUME NEW r \in Askers, BeginCounter(r) \/ AddAttempt(r)
      PROVE  EndlessExplained'
  <2> DEFINE l == kind[r]
  <2>1. /\ place[r] \in {"begin", "add"} /\ l \in Limits /\ l \in Reading /\ place' = [place EXCEPT ![r] = "done"]
    BY <1>t, <1>6 DEF BeginCounter, AddAttempt, Moves, AskerOK
  <2>2. \E n \in Nat : Counts(r, l, n, TRUE) /\ 
            ((n = 1 /\ ends' = ends \cup {l}) \/ (place[r] = "add" /\ n = counter[l] + 1 /\ ends' = ends))
    <3>1. CASE BeginCounter(r)
      <4>1. Counts(r, l, 1, TRUE) /\ ends' = ends \cup {l}
        BY <3>1 DEF BeginCounter
      <4>2. QED
        BY <4>1
    <3>2. CASE AddAttempt(r)
      <4>1. Counts(r, l, counter[l] + 1, TRUE) /\ place[r] = "add" /\ ends' = ends
        BY <3>2 DEF AddAttempt
      <4>2. counter[l] + 1 \in Nat
        BY <2>1
      <4>3. QED
        BY <4>1, <4>2
    <3>3. QED
      BY <1>6, <3>1, <3>2
  <2> HIDE DEF l
  <2>3. PICK n \in Nat : Counts(r, l, n, TRUE) /\ 
            ((n = 1 /\ ends' = ends \cup {l}) \/ (place[r] = "add" /\ n = counter[l] + 1 /\ ends' = ends))
    BY <2>2
  <2>4. /\ counter' = [counter EXCEPT ![l] = n] /\ stale \subseteq stale'
        /\ passed'[l] = (IF n = 1 THEN {} ELSE passed[l]) \cup {r}
        /\ \A m \in Limits \ {l} : passed'[m] = passed[m]
    BY <2>1, <2>3 DEF Counts
  <2>5. SUFFICES ASSUME NEW m \in Limits, counter'[m] > 0 /\ m \notin ends'
                 PROVE  Explained(m)'
    BY DEF EndlessExplained
  <2>6. CASE m # l
    <3>1. counter'[m] = counter[m] /\ m \notin ends /\ passed'[m] = passed[m]
      BY <2>3, <2>4, <2>5, <2>6
    <3>2. Explained(m)
      BY <1>t, <2>5, <3>1 DEF EndlessExplained
    <3>3. \A q \in passed[m] : place'[q] = place[q]
      BY <1>t, <2>1
    <3>4. QED
      BY <1>1, <2>4, <3>1, <3>2, <3>3
  <2>7. CASE m = l
    <3>1. place[r] = "add" /\ n = counter[l] + 1 /\ ends' = ends
      BY <2>3, <2>5, <2>7
    <3>2. CASE counter[l] = 0
      <4>1. r \in stale
        BY <1>t, <3>1, <3>2 DEF AskerOK, l
      <4>2. QED
        BY <2>1, <2>4, <2>7, <4>1
    <3>3. CASE counter[l] # 0
      <4>1. counter[l] > 0 /\ n # 1
        BY <2>1, <3>1, <3>3
      <4>2. passed[l] \cap stale # {}
        BY <1>t, <2>1, <2>5, <2>7, <3>1, <4>1 DEF EndlessExplained
      <4>3. QED
        BY <2>1, <2>4, <2>7, <4>1, <4>2
    <3>4. QED
      BY <3>2, <3>3
  <2>8. QED
    BY <2>6, <2>7
<1>7. ASSUME NEW r \in Askers, NEW l \in Limits, Hit(r, l)
      PROVE  EndlessExplained'
  <2>1. /\ l \notin Reading /\ place[r] = "idle" /\ ends' = ends
        /\ Counts(r, l, counter[l] + 1, counter[l] + 1 <= Count)
        /\ place' = [place EXCEPT ![r] = IF counter[l] + 1 <= Count THEN "expire" ELSE "refused"]
    BY <1>7 DEF Hit, Moves
  <2>2. /\ counter' = [counter EXCEPT ![l] = counter[l] + 1] /\ stale \subseteq stale'
        /\ passed'[l] = (IF counter[l] + 1 = 1 THEN {} ELSE passed[l]) \cup (IF counter[l] + 1 <= Count THEN {r} ELSE {})
        /\ \A m \in Limits \ {l} : passed'[m] = passed[m]
    BY <2>1 DEF Counts
  <2>3. SUFFICES ASSUME NEW m \in Limits, counter'[m] > 0 /\ m \notin ends'
                 PROVE  Explained(m)'
    BY DEF EndlessExplained
  <2>4. \A q \in Askers \ {r} : place'[q] = place[q]
    BY <2>1
  <2>5. CASE m # l
    <3>1. counter'[m] = counter[m] /\ m \notin ends /\ passed'[m] = passed[m]
      BY <2>1, <2>2, <2>3, <2>5
    <3>2. Explained(m)
      BY <1>t, <2>3, <3>1 DEF EndlessExplained
    <3>3. \A q \in passed[m] : place'[q] = place[q]
      BY <1>t, <2>1, <2>4
    <3>4. QED
      BY <1>1, <2>2, <3>1, <3>2, <3>3
  <2>6. CASE m = l
    <3>1. counter[l] + 1 <= Count => place'[r] = "expire"
      BY <2>1
    <3>2. CASE counter[l] = 0
      <4>1. passed'[l] = {r} /\ place'[r] = "expire"
        BY <1>t, <2>2, <3>1, <3>2
      <4>2. QED
        BY <2>1, <2>6, <4>1
    <3>3. CASE counter[l] # 0
      <4>1. counter[l] > 0 /\ counter[l] + 1 # 1 /\ l \notin ends
        BY <2>1, <2>3, <2>6, <3>3
      <4>2. passed[l] # {} /\ \A q \in passed[l] : place[q] \in {"expire", "died"}
        BY <1>t, <2>1, <4>1 DEF EndlessExplained
      <4>3. \A q \in passed[l] : place'[q] \in {"expire", "died"}
        BY <1>t, <2>1, <2>4, <4>2
      <4>4. passed[l] \subseteq passed'[l] /\ \A q \in passed'[l] \ passed[l] : q = r /\ counter[l] + 1 <= Count
        BY <2>2, <4>1
      <4>5. QED
        BY <2>1, <2>6, <3>1, <4>2, <4>3, <4>4
    <3>4. QED
      BY <3>2, <3>3
  <2>7. QED
    BY <2>5, <2>6
<1>8. QED
  BY <1>3, <1>4, <1>5, <1>6, <1>7 DEF LimitsNext, Arrive, Proceed

\* A counter, once begun, lets through as many as it is to, those aside that raced it; it
\* lasts for ever only behind a process that died or a late addition; and a token is paid
\* for once, by a challenge that was given (create_ratelimit, the challenge and the token
\* of the protection). For any number of requests, whatever the limit.
THEOREM CountersTheorem == LimitsSpec => []CountersExplained
<1>1. LimitsInit => LimitsInv
  BY LimitsStart
<1>2. LimitsInv /\ [LimitsNext]_limitsVars => LimitsInv'
  <2>1. CASE LimitsNext
    BY <2>1, LimitsTypeStep, NonceStep, AskerStep, PassedStep, EndlessStep DEF LimitsInv
  <2>2. CASE UNCHANGED limitsVars
    <3>1. UNCHANGED <<counter, ends, nonces, place, kind, paid, passed, stale>>
      BY <2>2 DEF limitsVars, redis, history
    <3>2. QED
      BY <3>1 DEF LimitsInv, LimitsTypeOK, AskerOK, PassedOK, EndlessExplained, NonceOK, TokensPaid
  <2>3. QED
    BY <2>1, <2>2
<1>3. LimitsInv => CountersExplained
  <2>1. LimitsInv => WithinLimit
    BY DEF LimitsInv, PassedOK, WithinLimit
  <2>2. QED
    BY <2>1 DEF LimitsInv, CountersExplained
<1>4. QED
  BY <1>1, <1>2, <1>3, PTL DEF LimitsSpec
=============================================================================

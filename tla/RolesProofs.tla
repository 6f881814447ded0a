------------------------------ MODULE RolesProofs ------------------------------
(***************************************************************************)
(* Rejections stand, links of a pair are one, and nothing is accepted by   *)
(* an invitation alone; an avatar that a profile names is in the bucket,   *)
(* and a column of a profile changes for a cause.  For any number of       *)
(* handlers, up to the races that the properties name.                     *)
(***************************************************************************)
EXTENDS MCRoles, TLAPS

-----------------------------------------------------------------------------
(* The links.                                                              *)

\* What a handler has read, by place.
JobInv ==
    \A r \in Requests :
        /\ pc[r] \in {"read", "insert", "save"} => job[r] \in Jobs
        /\ pc[r] \in {"insert", "save"} => Written(r) \in Statuses
        /\ pc[r] = "insert" => seen[r].status = None
        /\ pc[r] = "save" => seen[r].link \in Requests /\ seen[r].status \in Statuses

\* A request has no link before it inserts one.
FreshInv == \A r \in Requests : pc[r] # "done" => links[r] = None

\* The links of a pair that have come since a handler found none.
RivalInv ==
    \A q \in Requests, x \in Present :
        pc[q] = "insert" /\ SamePair(links[x], job[q]) => x \in rivals[q]

\* A link that is to be saved is of the pair, and one that was read as rejected by its
\* coach has been.
SeenInv ==
    \A r \in Requests : pc[r] = "save" =>
        /\ pc[seen[r].link] = "done"
        /\ seen[r].link \in Present => SamePair(links[seen[r].link], job[r])
        /\ seen[r].status = "rejected_coach" => seen[r].link \in withdrawn

WithdrawnInv ==
    \A x \in Present : links[x].status = "rejected_coach" => x \in withdrawn

IInv == /\ TypeOK /\ JobInv /\ FreshInv /\ RivalInv /\ SeenInv /\ WithdrawnInv
        /\ OneLinkUnlessRaced /\ AcceptedExplained

-----------------------------------------------------------------------------

LEMMA InitIInv == Init => IInv
<1> SUFFICES ASSUME Init PROVE IInv
  OBVIOUS
<1> USE NamesAssumption DEF Init
<1>1. Present = {}
  BY DEF Present
<1>2. TypeOK
  BY <1>1 DEF TypeOK
<1>3. JobInv /\ FreshInv /\ SeenInv
  BY DEF JobInv, FreshInv, SeenInv
<1>4. RivalInv /\ WithdrawnInv /\ OneLinkUnlessRaced /\ AcceptedExplained
  BY <1>1 DEF RivalInv, WithdrawnInv, OneLinkUnlessRaced, AcceptedExplained
<1>5. QED
  BY <1>2, <1>3, <1>4 DEF IInv

\* An answer is a status or nothing.
LEMMA AnswerIsStatus ==
  ASSUME NEW j \in Jobs, NEW s PROVE Answer(j, s) \in Statuses \cup {None}
BY DEF Answer, Invitation, Agreement, Rejection, Rejected, Statuses

\* Where there is no link, what is written is no rejection, and by a coach no acceptance.
LEMMA FirstAnswer ==
  ASSUME NEW j \in Jobs, Answer(j, None) # None
  PROVE  /\ Answer(j, None) \in {"pending", "accepted"}
         /\ Answer(j, None) = "accepted" => j.side = "athlete"
BY NamesAssumption DEF Answer, Invitation, Agreement, Rejection, Jobs, Sides, Statuses

\* A coach accepts only what a coach has rejected.
LEMMA CoachAccepts ==
  ASSUME NEW j \in Jobs, NEW s \in Statuses, j.side = "coach", Answer(j, s) = "accepted"
  PROVE  s = "rejected_coach"
BY NamesAssumption DEF Answer, Invitation, Rejection, Rejected, Other, Statuses

\* Nothing is written over the other's rejection.
LEMMA NothingOverRejection ==
  ASSUME NEW j \in Jobs, NEW s \in Sides, j.side # s
  PROVE  Answer(j, Rejected(s)) = None
BY NamesAssumption DEF Answer, Invitation, Agreement, Rejection, Rejected, Other, Jobs, Sides, Statuses

\* Handlers that leave the links alone.
LEMMA StartStep ==
  ASSUME IInv, NEW r \in Requests, Start(r) \/ Fail(r) PROVE IInv'
<1> USE DEF IInv, TypeOK, local, history
<1>1. UNCHANGED <<athletes, links, seen, rivals, agreed, withdrawn>> /\ Present' = Present
  BY DEF Start, Fail, Present
<1>2. /\ pc' \in [Requests -> {"idle", "read", "insert", "save", "done", "refused", "failed"}]
      /\ job' \in [Requests -> Jobs \cup {None}]
      /\ \A q \in Requests : pc'[q] = "read" => job'[q] \in Jobs
      /\ \A q \in Requests : pc'[q] \in {"insert", "save"} =>
                                pc'[q] = pc[q] /\ job'[q] = job[q]
      /\ \A q \in Requests : pc[q] = "done" => pc'[q] = "done"
  BY DEF Start, Fail, Goto, JobInv
<1>3. TypeOK' /\ FreshInv'
  BY <1>1, <1>2 DEF FreshInv
<1>4. JobInv'
  BY <1>1, <1>2 DEF JobInv, Written
<1>5. RivalInv' /\ SeenInv'
  BY <1>1, <1>2 DEF RivalInv, SeenInv, JobInv
<1>6. WithdrawnInv' /\ OneLinkUnlessRaced' /\ AcceptedExplained'
  BY <1>1 DEF WithdrawnInv, OneLinkUnlessRaced, AcceptedExplained
<1>7. QED
  BY <1>3, <1>4, <1>5, <1>6

LEMMA ReadStep ==
  ASSUME IInv, NEW r \in Requests, ReadLink(r) PROVE IInv'
<1> USE DEF IInv, history
<1>1. PICK x \in (IF Found(job[r]) = {} THEN {None} ELSE Found(job[r])) :
         LET s == IF x = None THEN None ELSE links[x].status IN
         /\ seen' = [seen EXCEPT ![r] = [link |-> x, status |-> s]]
         /\ Goto(r, IF Answer(job[r], s) = None THEN "refused"
                    ELSE IF x = None THEN "insert" ELSE "save")
  BY DEF ReadLink
<1> DEFINE s == IF x = None THEN None ELSE links[x].status
<1>2. /\ UNCHANGED <<athletes, links, job, rivals, agreed, withdrawn>> /\ Present' = Present
      /\ pc[r] = "read" /\ job[r] \in Jobs
  BY DEF ReadLink, Present, JobInv
<1>3. CASE x = None
  <2>1. Found(job[r]) = {} /\ s = None
    BY <1>1, <1>3, NamesAssumption DEF Found, LinksOf, Present
  <2>2. /\ seen' = [seen EXCEPT ![r] = [link |-> None, status |-> None]]
        /\ pc' = [pc EXCEPT ![r] = IF Answer(job[r], None) = None THEN "refused" ELSE "insert"]
    BY <1>1, <1>3 DEF Goto
  <2>3. TypeOK'
    BY <1>2, <2>2 DEF TypeOK
  <2>4. JobInv'
    BY <1>2, <2>2, AnswerIsStatus DEF JobInv, Written, TypeOK
  <2>5. RivalInv'
    BY <1>2, <2>1, <2>2 DEF RivalInv, Found, LinksOf, SamePair, TypeOK
  <2>6. FreshInv' /\ SeenInv'
    BY <1>2, <2>2 DEF FreshInv, SeenInv, TypeOK
  <2>7. WithdrawnInv' /\ OneLinkUnlessRaced' /\ AcceptedExplained'
    BY <1>2 DEF WithdrawnInv, OneLinkUnlessRaced, AcceptedExplained
  <2>8. QED
    BY <2>3, <2>4, <2>5, <2>6, <2>7
<1>4. CASE x # None
  <2>1. /\ x \in Present /\ x \in Requests /\ SamePair(links[x], job[r])
        /\ s = links[x].status /\ links[x].status \in Statuses
    BY <1>1, <1>4, NamesAssumption DEF Found, LinksOf, SamePair, Present, TypeOK, Link
  <2>2. /\ seen' = [seen EXCEPT ![r] = [link |-> x, status |-> links[x].status]]
        /\ pc' = [pc EXCEPT ![r] = IF Answer(job[r], links[x].status) = None THEN "refused" ELSE "save"]
    BY <1>1, <1>4 DEF Goto
  <2>3. TypeOK'
    BY <1>2, <2>1, <2>2 DEF TypeOK
  <2>4. JobInv'
    BY <1>2, <2>1, <2>2, AnswerIsStatus DEF JobInv, Written, TypeOK
  <2>5. RivalInv'
    BY <1>2, <2>2 DEF RivalInv, TypeOK
  <2>6. FreshInv' /\ SeenInv'
    <3>1. pc[x] = "done" /\ pc'[x] = "done"
      BY <1>2, <2>1, <2>2 DEF FreshInv, Present, TypeOK
    <3>2. FreshInv'
      BY <1>2, <2>2 DEF FreshInv, TypeOK
    <3>3. ASSUME NEW q \in Requests, pc'[q] = "save"
          PROVE  /\ pc'[seen'[q].link] = "done"
                 /\ seen'[q].link \in Present' => SamePair(links'[seen'[q].link], job'[q])
                 /\ seen'[q].status = "rejected_coach" => seen'[q].link \in withdrawn'
      <4>1. CASE q = r
        BY <1>2, <2>1, <2>2, <3>1, <4>1 DEF WithdrawnInv, TypeOK
      <4>2. CASE q # r
        <5>1. pc[q] = "save" /\ seen'[q] = seen[q] /\ seen[q].link \in Requests
          BY <2>2, <3>3, <4>2 DEF TypeOK, JobInv
        <5>2. pc[seen[q].link] = "done" /\ seen[q].link # r
          BY <1>2, <5>1 DEF SeenInv
        <5>3. QED
          BY <1>2, <2>2, <5>1, <5>2 DEF SeenInv, TypeOK
      <4>3. QED
        BY <4>1, <4>2
    <3>4. QED
      BY <3>2, <3>3 DEF SeenInv
  <2>7. WithdrawnInv' /\ OneLinkUnlessRaced' /\ AcceptedExplained'
    BY <1>2 DEF WithdrawnInv, OneLinkUnlessRaced, AcceptedExplained
  <2>8. QED
    BY <2>3, <2>4, <2>5, <2>6, <2>7
<1>5. QED
  BY <1>3, <1>4

LEMMA InsertStep ==
  ASSUME IInv, NEW r \in Requests, Insert(r) PROVE IInv'
<1> USE DEF IInv, local
<1> DEFINE new == [coach |-> job[r].coach, athlete |-> job[r].athlete, status |-> Written(r)]
<1>1. CASE Goto(r, "failed") /\ UNCHANGED <<athletes, links, job, seen, rivals, agreed, withdrawn>>
  BY <1>1, StartStep DEF Fail, Insert, history
<1>2. CASE /\ job[r].athlete \in athletes
           /\ links' = [links EXCEPT ![r] = new]
           /\ rivals' = [q \in Requests |-> IF pc[q] = "insert" /\ q # r /\ SamePair(job[q], job[r])
                                            THEN rivals[q] \cup {r} ELSE rivals[q]]
           /\ Agree(r)
           /\ Goto(r, "done")
  <2>1. pc[r] = "insert" /\ UNCHANGED <<athletes, job, seen, withdrawn>>
    BY <1>2 DEF Insert
  <2>2. /\ job[r] \in Jobs /\ Written(r) \in Statuses /\ Written(r) = Answer(job[r], None)
        /\ links[r] = None
    BY <2>1 DEF JobInv, Written, FreshInv
  <2>3. new \in Link /\ new # None
    BY <2>2, NamesAssumption DEF Jobs, Link
  <2>4. Present' = Present \cup {r} /\ r \notin Present
    BY <1>2, <2>2, <2>3 DEF Present, TypeOK
  <2>5. links'[r] = new /\ \A x \in Present : links'[x] = links[x]
    BY <1>2, <2>2 DEF TypeOK, Present
  <2>6. Written(r) \in {"pending", "accepted"} /\ (Written(r) = "accepted" => job[r].side = "athlete")
    BY <2>2, FirstAnswer, NamesAssumption
  <2>7. /\ agreed \subseteq agreed'
        /\ Written(r) = "accepted" => <<job[r].coach, job[r].athlete>> \in agreed'
    BY <1>2, <2>6 DEF Agree
  <2>8. TypeOK'
    <3>1. agreed' \subseteq Coaches \X Athletes
      BY <1>2, <2>2 DEF Agree, TypeOK, Jobs
    <3>2. links' \in [Requests -> Link \cup {None}]
      BY <1>2, <2>3 DEF TypeOK
    <3>3. \A x \in Present' : links'[x].athlete \in athletes'
      BY <1>2, <2>1, <2>4, <2>5 DEF TypeOK
    <3>4. QED
      BY <1>2, <2>1, <3>1, <3>2, <3>3 DEF TypeOK, Goto
  <2>9. JobInv'
    BY <1>2, <2>1 DEF JobInv, Written, Goto, TypeOK
  <2>10. FreshInv'
    BY <1>2, <2>1 DEF FreshInv, Goto, TypeOK
  <2>11. RivalInv'
    <3>1. ASSUME NEW q \in Requests, NEW x \in Present',
                 pc'[q] = "insert", SamePair(links'[x], job'[q])
          PROVE  x \in rivals'[q]
      <4>1. pc[q] = "insert" /\ q # r
        BY <1>2, <3>1 DEF Goto, TypeOK
      <4>2. CASE x = r
        BY <1>2, <2>1, <2>5, <3>1, <4>1, <4>2 DEF SamePair
      <4>3. CASE x \in Present
        BY <1>2, <2>1, <2>5, <3>1, <4>1, <4>3 DEF RivalInv
      <4>4. QED
        BY <2>4, <4>2, <4>3
    <3>2. QED
      BY <3>1 DEF RivalInv
  <2>12. SeenInv'
    <3>1. ASSUME NEW q \in Requests, pc'[q] = "save"
          PROVE  /\ pc'[seen'[q].link] = "done"
                 /\ seen'[q].link \in Present' => SamePair(links'[seen'[q].link], job'[q])
                 /\ seen'[q].status = "rejected_coach" => seen'[q].link \in withdrawn'
      <4>1. pc[q] = "save"
        BY <1>2, <3>1 DEF Goto, TypeOK
      <4>2. seen[q].status = "rejected_coach" => seen[q].link \in withdrawn
        BY <4>1 DEF SeenInv
      <4>3. seen[q].link \in Present => SamePair(links[seen[q].link], job[q])
        BY <4>1 DEF SeenInv
      <4>4. seen[q].link # r /\ pc'[seen[q].link] = "done"
        BY <1>2, <2>1, <4>1 DEF SeenInv, JobInv, Goto, TypeOK
      <4>5. QED
        BY <2>1, <2>4, <2>5, <4>2, <4>3, <4>4
    <3>2. QED
      BY <3>1 DEF SeenInv
  <2>13. WithdrawnInv'
    BY <2>1, <2>4, <2>5, <2>6 DEF WithdrawnInv
  <2>14. OneLinkUnlessRaced'
    <3>1. \A q \in Requests : rivals[q] \subseteq rivals'[q]
      BY <1>2 DEF TypeOK
    <3>2. \A x \in Present : SamePair(links[x], new) => x \in rivals[r]
      BY <2>1 DEF RivalInv, SamePair
    <3>3. Present \subseteq Requests
      BY DEF Present
    <3> HIDE DEF new
    <3>4. QED
      BY <2>4, <2>5, <3>1, <3>2, <3>3 DEF OneLinkUnlessRaced, SamePair
  <2>15. AcceptedExplained'
    BY <2>1, <2>4, <2>5, <2>7 DEF AcceptedExplained
  <2>16. QED
    BY <2>8, <2>9, <2>10, <2>11, <2>12, <2>13, <2>14, <2>15
<1>3. QED
  BY <1>1, <1>2 DEF Insert

LEMMA SaveStep ==
  ASSUME IInv, NEW r \in Requests, Save(r) PROVE IInv'
<1> USE DEF IInv, local
<1> DEFINE x == seen[r].link
<1>1. /\ pc[r] = "save" /\ x \in Requests /\ job[r] \in Jobs
      /\ Written(r) \in Statuses /\ seen[r].status \in Statuses
  BY DEF Save, JobInv
<1>2. /\ UNCHANGED <<athletes, job, seen, rivals>> /\ pc' = [pc EXCEPT ![r] = "done"]
  BY DEF Save, Goto
<1>3. JobInv'
  BY <1>2 DEF JobInv, Written, TypeOK
<1>4. CASE links[x] = None /\ UNCHANGED <<links, agreed, withdrawn>>
  <2>1. TypeOK' /\ Present' = Present
    BY <1>2, <1>4 DEF TypeOK, Present
  <2>2. FreshInv' /\ SeenInv' /\ RivalInv'
    BY <1>2, <1>4, <2>1 DEF FreshInv, SeenInv, RivalInv, JobInv, TypeOK
  <2>3. WithdrawnInv' /\ OneLinkUnlessRaced' /\ AcceptedExplained'
    BY <1>2, <1>4, <2>1 DEF WithdrawnInv, OneLinkUnlessRaced, AcceptedExplained
  <2>4. QED
    BY <1>3, <2>1, <2>2, <2>3
<1>5. CASE /\ links[x] # None
           /\ links' = [links EXCEPT ![x].status = Written(r)]
           /\ Agree(r)
           /\ withdrawn' = IF Written(r) = "rejected_coach" THEN withdrawn \cup {x} ELSE withdrawn
  <2>1. /\ x \in Present /\ links[x] \in Link /\ SamePair(links[x], job[r])
    BY <1>1, <1>5 DEF Present, TypeOK, SeenInv
  <2> DEFINE new == [links[x] EXCEPT !.status = Written(r)]
  <2>2. /\ new \in Link /\ new # None /\ new.status = Written(r)
        /\ new.coach = links[x].coach /\ new.athlete = links[x].athlete
    BY <1>1, <2>1, NamesAssumption DEF Link
  <2>3. /\ links' \in [Requests -> Link \cup {None}] /\ links'[x] = new
        /\ \A y \in Requests \ {x} : links'[y] = links[y]
    BY <1>1, <1>5, <2>2 DEF TypeOK
  <2> HIDE DEF new
  <2>4. Present' = Present
    BY <2>1, <2>2, <2>3 DEF Present
  <2>5. \A y \in Present : links'[y].coach = links[y].coach /\ links'[y].athlete = links[y].athlete
    BY <2>2, <2>3 DEF Present
  <2>6. agreed \subseteq agreed' /\ agreed' \subseteq Coaches \X Athletes /\ withdrawn \subseteq withdrawn'
    BY <1>1, <1>5 DEF Agree, TypeOK, Jobs
  <2>7. TypeOK'
    BY <1>1, <1>2, <1>5, <2>3, <2>4, <2>5, <2>6 DEF TypeOK
  <2>8. FreshInv'
    <3>1. pc[x] = "done"
      BY <1>1 DEF SeenInv
    <3>2. QED
      BY <1>2, <2>3, <3>1 DEF FreshInv, TypeOK
  <2>9. SeenInv' /\ RivalInv'
    <3>1. ASSUME NEW q \in Requests, pc'[q] = "save"
          PROVE  /\ pc'[seen'[q].link] = "done"
                 /\ seen'[q].link \in Present' => SamePair(links'[seen'[q].link], job'[q])
                 /\ seen'[q].status = "rejected_coach" => seen'[q].link \in withdrawn'
      <4>1. pc[q] = "save" /\ seen[q].link \in Requests
        BY <1>2, <3>1 DEF TypeOK, JobInv
      <4>2. QED
        BY <1>2, <2>4, <2>5, <2>6, <4>1 DEF SeenInv, SamePair, TypeOK
    <3>2. SeenInv'
      BY <3>1 DEF SeenInv
    <3>3. RivalInv'
      BY <1>2, <2>4, <2>5 DEF RivalInv, SamePair, TypeOK
    <3>4. QED
      BY <3>2, <3>3
  <2>10. WithdrawnInv'
    BY <1>5, <2>2, <2>3, <2>4, <2>6 DEF WithdrawnInv, Present
  <2>11. OneLinkUnlessRaced'
    BY <1>2, <2>4, <2>5 DEF OneLinkUnlessRaced, SamePair
  <2>12. AcceptedExplained'
    <3>1. ASSUME Written(r) = "accepted"
          PROVE  <<links[x].coach, links[x].athlete>> \in agreed' \/ x \in withdrawn
      <4>1. CASE job[r].side = "athlete"
        BY <1>5, <2>1, <3>1, <4>1 DEF Agree, SamePair
      <4>2. CASE job[r].side = "coach"
        <5>1. seen[r].status = "rejected_coach"
          BY <1>1, <3>1, <4>2, CoachAccepts DEF Written
        <5>2. QED
          BY <1>1, <5>1 DEF SeenInv
      <4>3. QED
        BY <1>1, <4>1, <4>2 DEF Jobs, Sides
    <3>2. ASSUME NEW y \in Present', links'[y].status = "accepted"
          PROVE  <<links'[y].coach, links'[y].athlete>> \in agreed' \/ y \in withdrawn'
      <4>1. CASE y = x
        BY <2>2, <2>3, <2>6, <3>1, <3>2, <4>1
      <4>2. CASE y # x
        BY <2>3, <2>4, <2>6, <3>2, <4>2 DEF AcceptedExplained, Present
      <4>3. QED
        BY <4>1, <4>2
    <3>3. QED
      BY <3>2 DEF AcceptedExplained
  <2>13. QED
    BY <1>3, <2>7, <2>8, <2>9, <2>10, <2>11, <2>12
<1>6. QED
  BY <1>4, <1>5 DEF Save

LEMMA DeleteStep ==
  ASSUME IInv, NEW r \in Requests, DeleteAthlete(r) PROVE IInv'
<1> USE DEF IInv, local, history
<1>1. PICK a \in athletes :
         /\ athletes' = athletes \ {a}
         /\ links' = [x \in Requests |-> IF links[x] # None /\ links[x].athlete = a
                                         THEN None ELSE links[x]]
  BY DEF DeleteAthlete
<1>2. /\ pc[r] = "idle" /\ pc' = [pc EXCEPT ![r] = "done"]
      /\ UNCHANGED <<job, seen, rivals, agreed, withdrawn>>
  BY DEF DeleteAthlete, Goto
<1>3. /\ Present' \subseteq Present
      /\ \A x \in Present' : links'[x] = links[x] /\ links[x].athlete # a
      /\ \A x \in Requests : links[x] = None => links'[x] = None
  BY <1>1 DEF Present
<1>4. TypeOK'
  <2>1. links' \in [Requests -> Link \cup {None}]
    BY <1>1 DEF TypeOK
  <2>2. QED
    BY <1>1, <1>2, <1>3, <2>1 DEF TypeOK
<1>5. JobInv' /\ FreshInv'
  BY <1>2, <1>3 DEF JobInv, Written, FreshInv, TypeOK
<1>6. SeenInv' /\ RivalInv'
  BY <1>2, <1>3 DEF SeenInv, RivalInv, JobInv, TypeOK
<1>7. WithdrawnInv' /\ OneLinkUnlessRaced' /\ AcceptedExplained'
  BY <1>2, <1>3 DEF WithdrawnInv, OneLinkUnlessRaced, AcceptedExplained
<1>8. QED
  BY <1>4, <1>5, <1>6, <1>7

-----------------------------------------------------------------------------

\* The inductive invariant holds in every state (all handlers, any order).
THEOREM Invariance == Spec => []IInv
<1>1. IInv /\ [Next]_vars => IInv'
  <2>1. ASSUME IInv, UNCHANGED vars PROVE IInv'
    BY <2>1 DEF IInv, vars, local, history, TypeOK, JobInv, FreshInv, RivalInv, SeenInv,
               WithdrawnInv, OneLinkUnlessRaced, AcceptedExplained, Present, Written
  <2>2. QED
    BY <2>1, StartStep, ReadStep, InsertStep, SaveStep, DeleteStep DEF Next
<1>2. QED
  BY InitIInv, <1>1, PTL DEF Spec

\* No link is without its athlete, and every request has read what its place says.
THEOREM TypeCorrectness == Spec => []TypeOK
<1>1. IInv => TypeOK
  BY DEF IInv
<1>2. QED
  BY Invariance, <1>1, PTL

\* A pair has two links only if both handlers looked before either inserted.
THEOREM OneLinkTheorem == Spec => []OneLinkUnlessRaced
<1>1. IInv => OneLinkUnlessRaced
  BY DEF IInv
<1>2. QED
  BY Invariance, <1>1, PTL

\* An invitation alone is never an acceptance.
THEOREM AcceptedTheorem == Spec => []AcceptedExplained
<1>1. IInv => AcceptedExplained
  BY DEF IInv
<1>2. QED
  BY Invariance, <1>1, PTL

\* Both together, what is true of every link.
THEOREM LinksTheorem == Spec => []LinksExplained
<1>1. LinksExplained <=> OneLinkUnlessRaced /\ AcceptedExplained
  BY DEF LinksExplained
<1>2. QED
  BY OneLinkTheorem, AcceptedTheorem, <1>1, PTL

\* What a step may do to a rejection: all but saves leave the status of a link that stays.
LEMMA RejectionStep ==
  ASSUME IInv, Next, NEW x \in Present, NEW s \in Sides,
         links[x].status = Rejected(s), links'[x] # None, links'[x].status # Rejected(s)
  PROVE  \E r \in Requests : /\ pc[r] = "save" /\ seen[r].link = x
                             /\ job[r].side = s \/ seen[r].status # links[x].status
<1> USE DEF IInv
<1>1. x \in Requests /\ links[x] # None
  BY DEF Present
<1>2. ASSUME NEW r \in Requests, Start(r) \/ ReadLink(r) \/ Fail(r) PROVE FALSE
  BY <1>2 DEF Start, ReadLink, Fail
<1>3. ASSUME NEW r \in Requests, Insert(r) PROVE FALSE
  BY <1>1, <1>3 DEF Insert, FreshInv, TypeOK
<1>4. ASSUME NEW r \in Requests, DeleteAthlete(r) PROVE FALSE
  BY <1>1, <1>4 DEF DeleteAthlete
<1>5. ASSUME NEW r \in Requests, Save(r)
      PROVE  /\ pc[r] = "save" /\ seen[r].link = x
             /\ job[r].side = s \/ seen[r].status # links[x].status
  <2>1. pc[r] = "save" /\ job[r] \in Jobs /\ Written(r) # None
    BY <1>5, NamesAssumption DEF Save, JobInv
  <2>2. seen[r].link = x
    BY <1>1, <1>5 DEF Save, TypeOK
  <2>3. job[r].side = s \/ seen[r].status # Rejected(s)
    BY <2>1, NothingOverRejection DEF Written
  <2>4. QED
    BY <2>1, <2>2, <2>3
<1>6. QED
  BY <1>2, <1>3, <1>4, <1>5 DEF Next

\* A rejection is taken back by its own side or by a save decided on an earlier status.
THEOREM RejectionTheorem == Spec => RejectionStands
<1>1. IInv /\ [Next]_vars =>
        [\A x \in Present, s \in Sides :
            links[x].status = Rejected(s) /\ links'[x] # None /\ links'[x].status # Rejected(s) =>
               \E r \in Requests :
                  /\ pc[r] = "save" /\ seen[r].link = x
                  /\ job[r].side = s \/ seen[r].status # links[x].status]_vars
  BY RejectionStep
<1>2. QED
  BY Invariance, <1>1, PTL DEF Spec, RejectionStands

-----------------------------------------------------------------------------
(* The profile.                                                            *)

\* Where a handler is between two of its statements.
Midway == {"limit", "put", "late", "remove", "save"}

\* What a handler is about to write is what it read, but for its own columns; a file it
\* has put is there, unless it was deleted since.
SaverOK(r) ==
    /\ savers[r] \in Midway =>
          /\ op[r] \in {"club", "top", "replace", "upload", "delete"}
          /\ want[r] \in P!Profile /\ row[r] \in P!Profile
          /\ \A f \in P!Fields \ P!Own(r) : want[r][f] = row[r][f]
    /\ savers[r] \in {"limit", "put", "late"} => op[r] = "upload"
    /\ savers[r] = "remove" => op[r] = "delete"
    /\ savers[r] \in Midway /\ op[r] = "delete" => want[r].avatar = None
    /\ savers[r] \in Midway /\ op[r] = "upload" => want[r].avatar \in Files
    /\ savers[r] = "save" /\ op[r] = "upload" => want[r].avatar \in files \cup removed[r]

ProfileInv == P!TypeOK /\ (\A r \in Savers : SaverOK(r)) /\ AvatarThere

\* The URL is taken from the bucket, and a deletion of the avatar has still to say so.
Deleting(f) ==
    \E r \in Savers : /\ op[r] = "delete" /\ savers[r] \in {"save", "failed"}
                      /\ row[r].avatar = f /\ f \in removed[r]

\* A row that is made of the values a handler wants and of those it read.
LEMMA WantedRow ==
    ASSUME NEW p \in P!Profile, NEW own \in SUBSET P!Fields, NEW q,
           q = [f \in P!Fields |-> IF f \in own THEN q[f] ELSE p[f]],
           "club" \in own => q.club \in Clubs \cup {None},
           "top" \in own => q.top \in BOOLEAN,
           "avatar" \in own => q.avatar \in P!Avatars
    PROVE  q \in P!Profile /\ \A f \in P!Fields \ own : q[f] = p[f]
<1>1. q.club \in Clubs \cup {None} /\ q.top \in BOOLEAN /\ q.avatar \in P!Avatars
  BY DEF P!Profile, P!Fields
<1>2. q = [club |-> q.club, top |-> q.top, avatar |-> q.avatar]
  BY DEF P!Fields
<1>3. q \in P!Profile
  BY <1>1, <1>2 DEF P!Profile
<1>4. QED
  BY <1>3 DEF P!Fields

\* The five handlers that save the row start by reading it.
LEMMA ReadsStep ==
    ASSUME ProfileInv, NEW r \in Savers,
           \/ P!EditClub(r) \/ P!MarkTop(r) \/ P!Replace(r) \/ P!StartUpload(r) \/ P!DeleteAvatar(r)
    PROVE  /\ P!TypeOK'
           /\ UNCHANGED <<profile, files, doubtful, dropped>> /\ savers[r] = "idle"
           /\ \A q \in Savers \ {r} : /\ savers'[q] = savers[q] /\ op'[q] = op[q] /\ row'[q] = row[q]
                                     /\ want'[q] = want[q] /\ removed'[q] = removed[q]
           /\ SaverOK(r)'
<1>t. /\ profile \in P!Profile \cup {None} /\ savers \in [Savers -> Midway \cup {"idle", "done", "refused", "failed"}]
      /\ op \in [Savers -> P!Handlers \cup {None}] /\ row \in [Savers -> P!Profile \cup {None}]
      /\ want \in [Savers -> P!Profile \cup {None}] /\ removed \in [Savers -> SUBSET Files]
  BY DEF ProfileInv, P!TypeOK, Midway
<1>1. ASSUME NEW h \in {"club", "top", "replace", "upload", "delete"}, NEW l \in {"limit", "remove", "save", "done"},
             NEW own \in SUBSET P!Fields, NEW q,
             P!Read(r, h, l), profile # None => q = [f \in P!Fields |-> IF f \in own THEN q[f] ELSE profile[f]],
             want' = [want EXCEPT ![r] = IF profile = None THEN None ELSE q],
             "club" \in own => q.club \in Clubs \cup {None},
             "top" \in own => q.top \in BOOLEAN,
             "avatar" \in own => q.avatar \in P!Avatars,
             own = CASE h = "club" -> {"club"} [] h = "top" -> {"top"}
                     [] h \in {"upload", "delete"} -> {"avatar"} [] OTHER -> P!Fields,
             h = "upload" <=> l = "limit", h = "upload" => q.avatar \in Files,
             l = "remove" => h = "delete", h = "delete" => q.avatar = None /\ l # "save"
      PROVE  /\ P!TypeOK'
             /\ UNCHANGED <<profile, files, doubtful, dropped>> /\ savers[r] = "idle"
             /\ \A p \in Savers \ {r} : /\ savers'[p] = savers[p] /\ op'[p] = op[p] /\ row'[p] = row[p]
                                       /\ want'[p] = want[p] /\ removed'[p] = removed[p]
             /\ SaverOK(r)'
  <2>1. UNCHANGED <<profile, files, doubtful, dropped>> /\ savers[r] = "idle"
        /\ op' = [op EXCEPT ![r] = h]
    BY <1>1 DEF P!Read
  <2>2. CASE profile = None
    <3>1. savers' = [savers EXCEPT ![r] = "refused"] /\ UNCHANGED <<row, removed>>
          /\ want' = [want EXCEPT ![r] = None]
      BY <1>1, <2>2 DEF P!Read, P!Goto
    <3>2. P!TypeOK'
      BY <2>1, <3>1 DEF ProfileInv, P!TypeOK, P!Handlers
    <3>3. SaverOK(r)'
      BY <1>t, <3>1 DEF SaverOK, Midway
    <3>4. QED
      BY <1>t, <2>1, <3>1, <3>2, <3>3
  <2>3. CASE profile # None
    <3>1. /\ savers' = [savers EXCEPT ![r] = l] /\ row' = [row EXCEPT ![r] = profile]
          /\ removed' = [removed EXCEPT ![r] = {}] /\ want' = [want EXCEPT ![r] = q]
      BY <1>1, <2>3 DEF P!Read, P!Goto
    <3>2. profile \in P!Profile
      BY <1>t, <2>3
    <3>3. q \in P!Profile /\ \A f \in P!Fields \ own : q[f] = profile[f]
      BY <1>1, <2>3, <3>2, WantedRow
    <3>4. P!TypeOK'
      BY <2>1, <3>1, <3>2, <3>3 DEF ProfileInv, P!TypeOK, P!Handlers
    <3>5. op'[r] = h /\ want'[r] = q /\ row'[r] = profile /\ savers'[r] = l
      BY <1>t, <2>1, <3>1
    <3>6. P!Own(r)' = own
      BY <1>1, <3>5 DEF P!Own
    <3>7. SaverOK(r)'
      BY <1>1, <3>2, <3>3, <3>5, <3>6 DEF SaverOK, Midway
    <3>8. QED
      BY <1>t, <2>1, <3>1, <3>4, <3>7
  <2>4. QED
    BY <2>2, <2>3
<1>2. CASE P!EditClub(r)
  <2>1. PICK c \in Clubs \cup {None} : P!Wants(r, [club |-> c])
    BY <1>2 DEF P!EditClub
  <2> DEFINE q == [f \in P!Fields |-> IF f \in {"club"} THEN c ELSE profile[f]]
  <2>2. want' = [want EXCEPT ![r] = IF profile = None THEN None ELSE q]
    <3>1. [club |-> c] = [f \in {"club"} |-> c]
      OBVIOUS
    <3>2. q = [f \in P!Fields |-> IF f \in DOMAIN [club |-> c] THEN [club |-> c][f] ELSE profile[f]]
      BY <3>1
    <3>3. QED
      BY <2>1, <3>2 DEF P!Wants
  <2>3. q.club = c /\ q = [f \in P!Fields |-> IF f \in {"club"} THEN q[f] ELSE profile[f]]
    BY DEF P!Fields
  <2> HIDE DEF q
  <2>4. QED
    BY <1>2, <2>2, <2>3, <1>1 DEF P!EditClub, P!Fields
<1>3. CASE P!MarkTop(r)
  <2>1. PICK t \in BOOLEAN : P!Wants(r, [top |-> t])
    BY <1>3 DEF P!MarkTop
  <2> DEFINE q == [f \in P!Fields |-> IF f \in {"top"} THEN t ELSE profile[f]]
  <2>2. want' = [want EXCEPT ![r] = IF profile = None THEN None ELSE q]
    <3>1. [top |-> t] = [f \in {"top"} |-> t]
      OBVIOUS
    <3>2. q = [f \in P!Fields |-> IF f \in DOMAIN [top |-> t] THEN [top |-> t][f] ELSE profile[f]]
      BY <3>1
    <3>3. QED
      BY <2>1, <3>2 DEF P!Wants
  <2>3. q.top = t /\ q = [f \in P!Fields |-> IF f \in {"top"} THEN q[f] ELSE profile[f]]
    BY DEF P!Fields
  <2> HIDE DEF q
  <2>4. QED
    BY <1>3, <2>2, <2>3, <1>1 DEF P!MarkTop, P!Fields
<1>4. CASE P!Replace(r)
  <2>1. PICK p \in P!Profile : P!Wants(r, p)
    BY <1>4 DEF P!Replace
  <2> DEFINE q == [f \in P!Fields |-> IF f \in P!Fields THEN p[f] ELSE profile[f]]
  <2>2. DOMAIN p = P!Fields /\ p.club \in Clubs \cup {None} /\ p.top \in BOOLEAN /\ p.avatar \in P!Avatars
    BY DEF P!Profile, P!Fields
  <2>3. want' = [want EXCEPT ![r] = IF profile = None THEN None ELSE q]
    BY <2>1, <2>2 DEF P!Wants
  <2>4. /\ q.club = p.club /\ q.top = p.top /\ q.avatar = p.avatar
        /\ q = [f \in P!Fields |-> IF f \in P!Fields THEN q[f] ELSE profile[f]]
    BY DEF P!Fields
  <2> HIDE DEF q
  <2>5. QED
    BY <1>4, <2>2, <2>3, <2>4, <1>1 DEF P!Replace
<1>5. CASE P!StartUpload(r)
  <2>1. PICK u \in Files : P!Wants(r, [avatar |-> u])
    BY <1>5 DEF P!StartUpload
  <2> DEFINE q == [f \in P!Fields |-> IF f \in {"avatar"} THEN u ELSE profile[f]]
  <2>2. want' = [want EXCEPT ![r] = IF profile = None THEN None ELSE q]
    <3>1. [avatar |-> u] = [f \in {"avatar"} |-> u]
      OBVIOUS
    <3>2. q = [f \in P!Fields |-> IF f \in DOMAIN [avatar |-> u] THEN [avatar |-> u][f] ELSE profile[f]]
      BY <3>1
    <3>3. QED
      BY <2>1, <3>2 DEF P!Wants
  <2>3. q.avatar = u /\ q = [f \in P!Fields |-> IF f \in {"avatar"} THEN q[f] ELSE profile[f]]
    BY DEF P!Fields
  <2> HIDE DEF q
  <2>4. QED
    BY <1>5, <2>2, <2>3, <1>1 DEF P!StartUpload, P!Fields, P!Avatars
<1>6. CASE P!DeleteAvatar(r)
  <2> DEFINE q == [f \in P!Fields |-> IF f \in {"avatar"} THEN None ELSE profile[f]]
             l == IF profile.avatar = None THEN "done" ELSE "remove"
  <2>1. want' = [want EXCEPT ![r] = IF profile = None THEN None ELSE q]
    <3>1. [avatar |-> None] = [f \in {"avatar"} |-> None]
      OBVIOUS
    <3>2. q = [f \in P!Fields |-> IF f \in DOMAIN [avatar |-> None] THEN [avatar |-> None][f] ELSE profile[f]]
      BY <3>1
    <3>3. QED
      BY <1>6, <3>2 DEF P!DeleteAvatar, P!Wants
  <2>2. q.avatar = None /\ q = [f \in P!Fields |-> IF f \in {"avatar"} THEN q[f] ELSE profile[f]]
    BY DEF P!Fields
  <2>3. P!Read(r, "delete", l) /\ l \in {"done", "remove"}
    BY <1>6 DEF P!DeleteAvatar
  <2> HIDE DEF q, l
  <2>4. QED
    BY <2>1, <2>2, <2>3, <1>1 DEF P!Fields, P!Avatars
<1>7. QED
  BY <1>2, <1>3, <1>4, <1>5, <1>6

\* What a handler holds stays right as long as it does not move, and the files that go
\* are written down as removed.
LEMMA SaverKept ==
    ASSUME NEW q \in Savers, SaverOK(q), savers'[q] = savers[q], op'[q] = op[q],
           row'[q] = row[q], want'[q] = want[q],
           removed[q] \subseteq removed'[q], files \ files' \subseteq removed'[q]
    PROVE  SaverOK(q)'
BY DEF SaverOK, P!Own

\* So does what is said of the avatar, as long as the row stays, a file that goes is
\* dropped or goes by a deletion, and the deletions under way are still there.
LEMMA ThereKept ==
    ASSUME AvatarThere, UNCHANGED <<profile, doubtful>>, dropped \subseteq dropped',
           \A f \in Files : f \in files \ files' => f \in dropped' \/ Deleting(f)',
           \A q \in Savers : op[q] = "delete" /\ savers[q] \in {"save", "failed"} =>
               /\ savers'[q] \in {"save", "failed"} /\ op'[q] = op[q] /\ row'[q] = row[q]
               /\ removed[q] \subseteq removed'[q]
    PROVE  AvatarThere'
<1>1. ASSUME NEW f, Deleting(f)
      PROVE  Deleting(f)'
  BY <1>1 DEF Deleting
<1>2. /\ AvatarThere <=> (profile # None /\ profile.avatar \in Files \ files =>
            doubtful \/ profile.avatar \in dropped \/ Deleting(profile.avatar))
      /\ AvatarThere' <=> (profile' # None /\ profile'.avatar \in Files \ files' =>
            doubtful' \/ profile'.avatar \in dropped' \/ Deleting(profile.avatar)')
  BY DEF AvatarThere, P!AvatarThere, Deleting
<1>3. QED
  BY <1>1, <1>2

\* A handler between its first statement and its save, or one that fails there.
LEMMA MidwayStep ==
    ASSUME ProfileInv, NEW r \in Savers,
           P!CheckUpload(r) \/ P!Put(r) \/ P!LatePut(r) \/ P!Remove(r) \/ P!Fail(r)
    PROVE  ProfileInv' /\ UNCHANGED profile
<1>t. /\ profile \in P!Profile \cup {None} /\ savers \in [Savers -> Midway \cup {"idle", "done", "refused", "failed"}]
      /\ op \in [Savers -> P!Handlers \cup {None}] /\ row \in [Savers -> P!Profile \cup {None}]
      /\ want \in [Savers -> P!Profile \cup {None}] /\ removed \in [Savers -> SUBSET Files]
      /\ files \subseteq Files /\ savers[r] \in Midway /\ SaverOK(r) /\ AvatarThere
  BY DEF ProfileInv, P!TypeOK, Midway, P!CheckUpload, P!Put, P!LatePut, P!Remove, P!Fail
<1>1. /\ UNCHANGED <<profile, op, row, want, doubtful, dropped>>
      /\ \A q \in Savers \ {r} : savers'[q] = savers[q]
      /\ savers' \in [Savers -> {"idle", "limit", "put", "late", "remove", "save", "done", "refused", "failed"}]
  BY <1>t DEF P!CheckUpload, P!Put, P!LatePut, P!Remove, P!Fail, P!Goto, P!local, P!history, Midway
<1>2. /\ files' \subseteq Files /\ removed' \in [Savers -> SUBSET Files]
      /\ \A q \in Savers : removed[q] \subseteq removed'[q] /\ files \ files' \subseteq removed'[q]
  <2>1. CASE P!CheckUpload(r) \/ P!Fail(r)
    BY <1>t, <2>1 DEF P!CheckUpload, P!Fail, P!history
  <2>2. CASE P!Put(r) \/ P!LatePut(r)
    <3>1. want[r].avatar \in Files
      BY <1>t, <2>2 DEF SaverOK, P!Put, P!LatePut, Midway
    <3>2. QED
      BY <1>t, <2>2, <3>1 DEF P!Put, P!LatePut, P!history
  <2>3. CASE P!Remove(r)
    BY <1>t, <2>3 DEF P!Remove, P!Removes
  <2>4. QED
    BY <2>1, <2>2, <2>3
<1>3. P!TypeOK'
  BY <1>1, <1>2 DEF ProfileInv, P!TypeOK
<1>4. ASSUME NEW q \in Savers \ {r}
      PROVE  SaverOK(q)'
  BY <1>1, <1>2, <1>4, SaverKept DEF ProfileInv
<1>5. SaverOK(r)'
  <2>1. CASE P!CheckUpload(r) \/ P!Fail(r)
    BY <1>t, <1>1, <2>1 DEF SaverOK, P!CheckUpload, P!Fail, P!Goto, P!Own, Midway
  <2>2. CASE P!Put(r) \/ P!LatePut(r)
    BY <1>t, <1>1, <2>2 DEF SaverOK, P!Put, P!LatePut, P!Goto, P!Own, Midway
  <2>3. CASE P!Remove(r)
    BY <1>t, <1>1, <2>3 DEF SaverOK, P!Remove, P!Goto, P!Own, Midway
  <2>4. QED
    BY <2>1, <2>2, <2>3
<1>6. ASSUME NEW f \in Files, f \in files \ files'
      PROVE  Deleting(f)'
  <2>1. P!Remove(r)
    BY <1>6 DEF P!CheckUpload, P!Put, P!LatePut, P!Remove, P!Fail
  <2>2. f = row[r].avatar /\ f \in removed'[r] /\ savers'[r] = "save" /\ op'[r] = "delete" /\ row'[r].avatar = f
    BY <1>t, <1>1, <1>6, <2>1 DEF P!Remove, P!Removes, P!Goto, SaverOK
  <2>3. QED
    BY <2>2 DEF Deleting
<1>7. ASSUME NEW q \in Savers, op[q] = "delete", savers[q] \in {"save", "failed"}
      PROVE  savers'[q] \in {"save", "failed"}
  <2>1. CASE q # r
    BY <1>1, <1>7, <2>1
  <2>2. CASE q = r
    BY <1>t, <1>7, <2>2 DEF P!CheckUpload, P!Put, P!LatePut, P!Remove, P!Fail, P!Goto, Midway
  <2>3. QED
    BY <2>1, <2>2
<1>8. AvatarThere'
  BY <1>t, <1>1, <1>2, <1>6, <1>7, ThereKept
<1>9. QED
  BY <1>1, <1>3, <1>4, <1>5, <1>8 DEF ProfileInv

\* The administrator's requests, which are of one statement each.
LEMMA AdminStep ==
    ASSUME ProfileInv, NEW r \in Savers,
           P!UploadFile(r) \/ P!DeleteFile(r) \/ P!DeleteAthlete(r)
    PROVE  ProfileInv' /\ (profile' = None \/ UNCHANGED profile)
<1>t. /\ savers \in [Savers -> Midway \cup {"idle", "done", "refused", "failed"}]
      /\ op \in [Savers -> P!Handlers \cup {None}] /\ removed \in [Savers -> SUBSET Files]
      /\ files \subseteq Files /\ savers[r] = "idle" /\ AvatarThere
  BY DEF ProfileInv, P!TypeOK, Midway, P!UploadFile, P!DeleteFile, P!DeleteAthlete
<1>1. /\ UNCHANGED <<row, want, doubtful>> /\ (profile' = None \/ UNCHANGED profile)
      /\ savers' = [savers EXCEPT ![r] = "done"]
      /\ op' = [op EXCEPT ![r] = "file"] \/ op' = [op EXCEPT ![r] = "athlete"]
  BY DEF P!UploadFile, P!DeleteFile, P!DeleteAthlete, P!Goto, P!history
<1>2. /\ files' \subseteq Files /\ removed' \in [Savers -> SUBSET Files] /\ dropped \subseteq dropped'
      /\ dropped' \subseteq Files
      /\ \A q \in Savers : removed[q] \subseteq removed'[q] /\ files \ files' \subseteq removed'[q]
      /\ files \ files' \subseteq dropped'
  <2>1. dropped \subseteq Files
    BY DEF ProfileInv, P!TypeOK
  <2>2. CASE P!UploadFile(r) \/ P!DeleteAthlete(r)
    BY <1>t, <2>1, <2>2 DEF P!UploadFile, P!DeleteAthlete, P!history
  <2>3. CASE P!DeleteFile(r)
    BY <1>t, <2>1, <2>3 DEF P!DeleteFile, P!Removes
  <2>4. QED
    BY <2>2, <2>3
<1>3. P!TypeOK'
  BY <1>t, <1>1, <1>2 DEF ProfileInv, P!TypeOK, P!Handlers
<1>4. ASSUME NEW q \in Savers \ {r}
      PROVE  SaverOK(q)'
  <2>1. savers'[q] = savers[q] /\ op'[q] = op[q]
    BY <1>t, <1>1
  <2>2. QED
    BY <1>1, <1>2, <2>1, SaverKept DEF ProfileInv
<1>5. SaverOK(r)'
  BY <1>t, <1>1 DEF SaverOK, Midway
<1>6. AvatarThere'
  <2>1. CASE profile' = None
    BY <2>1 DEF AvatarThere, P!AvatarThere
  <2>2. CASE UNCHANGED profile
    <3>1. \A q \in Savers : savers[q] \in {"save", "failed"} => savers'[q] = savers[q] /\ op'[q] = op[q]
      BY <1>t, <1>1
    <3>2. QED
      BY <1>t, <1>1, <1>2, <2>2, <3>1, ThereKept
  <2>3. QED
    BY <1>1, <2>1, <2>2
<1>7. QED
  BY <1>1, <1>3, <1>4, <1>5, <1>6 DEF ProfileInv

\* A save of a row whose avatar is not there has an excuse, or writes the avatar that the
\* row has, with the excuse that it has.
LEMMA RowSaveStep ==
    ASSUME ProfileInv, NEW r \in Savers, P!Save(r)
    PROVE  /\ ProfileInv'
           /\ savers[r] = "save" /\ savers'[r] = "done"
           /\ profile # None => profile' = want[r] /\ \A f \in P!Fields \ P!Own(r) : want[r][f] = row[r][f]
<1>t. /\ profile \in P!Profile \cup {None} /\ savers \in [Savers -> Midway \cup {"idle", "done", "refused", "failed"}]
      /\ op \in [Savers -> P!Handlers \cup {None}] /\ row \in [Savers -> P!Profile \cup {None}]
      /\ files \subseteq Files /\ SaverOK(r) /\ AvatarThere
      /\ savers[r] = "save" /\ r \in Savers
  BY DEF ProfileInv, P!TypeOK, Midway, P!Save
<1>1. /\ UNCHANGED <<files, op, row, want, removed, dropped>>
      /\ savers' = [savers EXCEPT ![r] = "done"]
  BY DEF P!Save, P!Goto, P!local
<1>2. profile = None => UNCHANGED <<profile, doubtful>>
  BY DEF P!Save
<1>3. profile # None =>
        /\ profile' = want[r]
        /\ doubtful' = (want[r].avatar \in Files \ files /\ P!Excused(r, want[r].avatar))
  BY DEF P!Save
<1>4. want[r] \in P!Profile /\ \A f \in P!Fields \ P!Own(r) : want[r][f] = row[r][f]
  BY <1>t DEF SaverOK, Midway
<1>5. P!TypeOK'
  <2>1. profile' \in P!Profile \cup {None} /\ doubtful' \in BOOLEAN
    <3>1. doubtful \in BOOLEAN
      BY DEF ProfileInv, P!TypeOK
    <3>2. CASE profile = None
      BY <1>t, <1>2, <3>1, <3>2
    <3>3. CASE profile # None
      BY <1>3, <1>4, <3>3
    <3>4. QED
      BY <3>2, <3>3
  <2>2. QED
    BY <1>1, <2>1 DEF ProfileInv, P!TypeOK
<1>6. ASSUME NEW q \in Savers
      PROVE  SaverOK(q)'
  <2>1. CASE q # r
    <3>1. savers'[q] = savers[q]
      BY <1>t, <1>1, <2>1
    <3>2. QED
      BY <1>1, <3>1, SaverKept DEF ProfileInv
  <2>2. CASE q = r
    BY <1>t, <1>1, <2>2 DEF SaverOK, Midway
  <2>3. QED
    BY <2>1, <2>2
<1>7. AvatarThere'
  <2>1. CASE profile = None
    BY <1>2, <2>1 DEF AvatarThere, P!AvatarThere
  <2>2. CASE profile # None
    <3> DEFINE f == want[r].avatar
    <3>1. SUFFICES ASSUME f \in Files \ files, ~ P!Excused(r, f)
                   PROVE  f \in dropped' \/ Deleting(f)'
      <4>1. profile'.avatar = f /\ files' = files
        BY <1>1, <1>3, <2>2
      <4>2. f \in Files \ files /\ P!Excused(r, f) => doubtful'
        BY <1>3, <2>2
      <4>3. AvatarThere' <=> (profile' # None /\ profile'.avatar \in Files \ files' =>
                doubtful' \/ profile'.avatar \in dropped' \/ Deleting(profile.avatar)')
        BY DEF AvatarThere, P!AvatarThere, Deleting
      <4>4. Deleting(f)' => Deleting(profile.avatar)'
        BY <1>1, <4>1 DEF Deleting
      <4>5. QED
        BY <4>1, <4>2, <4>3, <4>4
    <3>2. f \notin removed[r] /\ op[r] # "replace"
      BY <3>1 DEF P!Excused
    <3>3. op[r] \in {"club", "top"}
      <4>1. op[r] # "upload"
        BY <1>t, <3>1, <3>2 DEF SaverOK
      <4>2. op[r] # "delete"
        BY <1>t, <3>1, FilesAssumption DEF SaverOK, Midway
      <4>3. QED
        BY <1>t, <3>2, <4>1, <4>2 DEF SaverOK, Midway
    <3>4. "avatar" \notin P!Own(r) /\ "avatar" \in P!Fields
      BY <3>3 DEF P!Own, P!Fields
    <3>5. f = profile.avatar /\ ~ doubtful
      <4>1. row[r].avatar = profile.avatar /\ ~ doubtful
        BY <3>1, <3>4 DEF P!Excused
      <4>2. want[r]["avatar"] = row[r]["avatar"]
        BY <1>4, <3>4
      <4>3. QED
        BY <4>1, <4>2
    <3>6. f \in dropped \/ Deleting(f)
      BY <1>t, <2>2, <3>1, <3>5 DEF AvatarThere, P!AvatarThere, Deleting
    <3>7. CASE f \in dropped
      BY <1>1, <3>7
    <3>8. CASE Deleting(f)
      <4>1. PICK q \in Savers : /\ op[q] = "delete" /\ savers[q] \in {"save", "failed"}
                               /\ row[q].avatar = f /\ f \in removed[q]
        BY <3>8 DEF Deleting
      <4>2. q # r
        BY <3>3, <4>1
      <4>3. savers'[q] \in {"save", "failed"}
        BY <1>t, <1>1, <4>1, <4>2
      <4>4. f' = f
        BY <1>1
      <4>5. /\ op'[q] = "delete" /\ savers'[q] \in {"save", "failed"}
            /\ row'[q].avatar = f' /\ f' \in removed'[q]
        BY <1>1, <4>1, <4>3, <4>4
      <4>6. QED
        BY <4>5 DEF Deleting
    <3>9. QED
      BY <3>6, <3>7, <3>8
  <2>3. QED
    BY <2>1, <2>2
<1>8. savers'[r] = "done"
  BY <1>t, <1>1
<1>9. QED
  BY <1>t, <1>3, <1>4, <1>5, <1>6, <1>7, <1>8 DEF ProfileInv

\* Every step of the profile keeps the invariant; of the steps that leave a row there,
\* only a save changes it, and it changes what its handler is there to change or has read
\* before somebody else changed it.
LEMMA ProfileStep ==
    ASSUME ProfileInv, [P!Next]_P!vars
    PROVE  /\ ProfileInv'
           /\ profile # None /\ profile' # None =>
                 \A f \in P!Fields : profile'[f] # profile[f] =>
                    \E r \in Savers : /\ savers[r] = "save" /\ savers'[r] = "done"
                                      /\ f \in P!Own(r) \/ row[r][f] # profile[f]
<1>1. CASE UNCHANGED P!vars
  <2>1. UNCHANGED <<profile, files, savers, op, row, want, removed, doubtful, dropped>>
    BY <1>1 DEF P!vars, P!local, P!history
  <2>2. P!TypeOK'
    BY <2>1 DEF ProfileInv, P!TypeOK
  <2>3. ASSUME NEW q \in Savers
        PROVE  SaverOK(q)'
    BY <2>1, SaverKept DEF ProfileInv
  <2>4. AvatarThere'
    BY <2>1 DEF ProfileInv, AvatarThere, P!AvatarThere
  <2>5. QED
    BY <2>1, <2>2, <2>3, <2>4 DEF ProfileInv
<1>2. ASSUME NEW r \in Savers,
             P!EditClub(r) \/ P!MarkTop(r) \/ P!Replace(r) \/ P!StartUpload(r) \/ P!DeleteAvatar(r)
      PROVE  ProfileInv' /\ UNCHANGED profile
  <2>1. /\ P!TypeOK' /\ SaverOK(r)' /\ savers[r] = "idle"
        /\ UNCHANGED <<profile, files, doubtful, dropped>>
        /\ \A q \in Savers \ {r} : /\ savers'[q] = savers[q] /\ op'[q] = op[q] /\ row'[q] = row[q]
                                  /\ want'[q] = want[q] /\ removed'[q] = removed[q]
    BY <1>2, ReadsStep
  <2>2. ASSUME NEW q \in Savers \ {r}
        PROVE  SaverOK(q)'
    BY <2>1, SaverKept DEF ProfileInv
  <2>3. AvatarThere'
    <3>1. AvatarThere
      BY DEF ProfileInv
    <3>2. QED
      BY <2>1, <3>1, ThereKept
  <2>4. QED
    BY <2>1, <2>2, <2>3 DEF ProfileInv
<1>3. ASSUME NEW r \in Savers, P!Save(r)
      PROVE  /\ ProfileInv'
             /\ profile # None /\ profile' # None =>
                  \A f \in P!Fields : profile'[f] # profile[f] =>
                    /\ savers[r] = "save" /\ savers'[r] = "done"
                    /\ f \in P!Own(r) \/ row[r][f] # profile[f]
  <2>1. /\ ProfileInv'
        /\ savers[r] = "save" /\ savers'[r] = "done"
        /\ profile # None => profile' = want[r] /\ \A f \in P!Fields \ P!Own(r) : want[r][f] = row[r][f]
    BY <1>3, RowSaveStep
  <2>2. QED
    BY <2>1
<1>4. CASE P!Next
  <2>1. PICK r \in Savers :
            \/ P!EditClub(r) \/ P!MarkTop(r) \/ P!Replace(r)
            \/ P!StartUpload(r) \/ P!CheckUpload(r) \/ P!Put(r) \/ P!LatePut(r)
            \/ P!DeleteAvatar(r) \/ P!Remove(r) \/ P!Save(r)
            \/ P!UploadFile(r) \/ P!DeleteFile(r) \/ P!DeleteAthlete(r) \/ P!Fail(r)
    BY <1>4 DEF P!Next
  <2>2. CASE P!EditClub(r) \/ P!MarkTop(r) \/ P!Replace(r) \/ P!StartUpload(r) \/ P!DeleteAvatar(r)
    BY <1>2, <2>2
  <2>3. CASE P!CheckUpload(r) \/ P!Put(r) \/ P!LatePut(r) \/ P!Remove(r) \/ P!Fail(r)
    BY <2>3, MidwayStep
  <2>4. CASE P!UploadFile(r) \/ P!DeleteFile(r) \/ P!DeleteAthlete(r)
    BY <2>4, AdminStep
  <2>5. CASE P!Save(r)
    BY <1>3, <2>5
  <2>6. QED
    BY <2>1, <2>2, <2>3, <2>4, <2>5
<1>5. QED
  BY <1>1, <1>4

\* A step of the two is a step of the profile or leaves it alone.
LEMMA ProfileSteps ==
    ASSUME [RolesNext]_rolesVars
    PROVE  [P!Next]_P!vars
BY DEF RolesNext, rolesVars, profileVars, P!vars, P!local, P!history

LEMMA ProfileInit ==
    ASSUME RolesInit
    PROVE  ProfileInv
<1>1. P!Init
  BY DEF RolesInit
<1>2. P!TypeOK
  BY <1>1 DEF P!Init, P!TypeOK, P!Profile, P!Avatars
<1>3. \A r \in Savers : SaverOK(r)
  BY <1>1 DEF P!Init, SaverOK, Midway
<1>4. AvatarThere
  BY <1>1, FilesAssumption DEF P!Init, AvatarThere, P!AvatarThere
<1>5. QED
  BY <1>2, <1>3, <1>4 DEF ProfileInv

LEMMA ProfileInvariance == RolesSpec => []ProfileInv
<1>1. RolesInit => ProfileInv
  BY ProfileInit
<1>2. ProfileInv /\ [RolesNext]_rolesVars => ProfileInv'
  BY ProfileSteps, ProfileStep
<1>3. QED
  BY <1>1, <1>2, PTL DEF RolesSpec

\* The avatar that a profile names is in the bucket, but where an administrator dropped
\* the file, a deletion was cut short between the storage and the row, or the last write
\* was of a request that another overtook (upload_avatar, delete_avatar, Athlete.save()).
THEOREM AvatarTheorem == RolesSpec => []AvatarThere
<1>1. ProfileInv => AvatarThere
  BY DEF ProfileInv
<1>2. QED
  BY ProfileInvariance, <1>1, PTL

\* Nobody's column changes but by a handler that is there for it or by a whole-row save
\* of what was read before the change (the five handlers that end in athlete.save()).
THEOREM ProfileColumnsTheorem == RolesSpec => ColumnsKept
<1>1. ProfileInv /\ [RolesNext]_rolesVars =>
        [profile # None /\ profile' # None =>
            \A f \in P!Fields : profile'[f] # profile[f] =>
               \E r \in Savers : /\ savers[r] = "save" /\ savers'[r] = "done"
                                 /\ f \in P!Own(r) \/ row[r][f] # profile[f]]_P!vars
  BY ProfileSteps, ProfileStep
<1>2. QED
  BY ProfileInvariance, <1>1, PTL DEF RolesSpec, ColumnsKept, P!ColumnsKept

\* Side by side the links and the profile behave as each does alone, so what is proved of
\* the links holds of the two together.
THEOREM PartsTheorem == RolesSpec => Spec /\ P!Spec
<1>1. RolesInit => Init /\ P!Init
  BY DEF RolesInit
<1>2. [RolesNext]_rolesVars => [Next]_vars
  BY DEF RolesNext, rolesVars
<1>3. [RolesNext]_rolesVars => [P!Next]_P!vars
  BY ProfileSteps
<1>4. QED
  BY <1>1, <1>2, <1>3, PTL DEF RolesSpec, Spec, P!Spec
=============================================================================

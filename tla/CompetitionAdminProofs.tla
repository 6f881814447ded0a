------------------------ MODULE CompetitionAdminProofs ------------------------
(***************************************************************************)
(* Proofs about ResultMaintenance and CompetitionAdmin.  The first half is *)
(* about the maintenance alone: rows keep their references, clean-up loses *)
(* only what came after the count, and a transfer takes only what it was   *)
(* told to, or what another one took on.  The second half: the             *)
(* administration leaves all that as it is, what several clerks write to   *)
(* distances and standards stays in order, and columns of competitions     *)
(* change for a cause.                                                     *)
(***************************************************************************)
EXTENDS CompetitionAdmin, TLAPS


\* What a request was given and holds.
JobInv ==
    \A r \in Requests :
        /\ pc[r] = "idle" => rows[r] = {}
        /\ pc[r] = "row" => /\ job[r].competition \in Competitions
                            /\ rows[r] \subseteq {r} \X Athletes
        /\ pc[r] \in {"target", "read", "move", "count"} =>
              job[r].from \in Athletes /\ job[r].to \in Athletes

\* What an upload is to insert is not there, and no transfer has read it.
FreshInv ==
    \A r \in Requests, a \in Athletes :
        pc[r] \in {"idle", "row"} =>
            /\ results[<<r, a>>] = None
            /\ \A q \in Requests : pc[q] = "move" => <<r, a>> \notin rows[q]

\* What an athlete found empty has came later.
DropInv ==
    \A r \in Requests : pc[r] = "drop" =>
        \A x \in Present : results[x].athlete \in todo[r] => x \in arrived[r]

\* What a transfer has read is still where it was read, or has been moved on.
MoveInv ==
    \A r \in Requests : pc[r] = "move" =>
        \A x \in rows[r] \cap Present :
            /\ results[x].athlete = job[r].from \/ x \in strayed[r]
            /\ job[r].competition \in {None, results[x].competition}

IInv == TypeOK /\ JobInv /\ FreshInv /\ DropInv /\ MoveInv

-----------------------------------------------------------------------------

LEMMA Removing ==
    ASSUME TypeOK, NEW X, Remove(X)
    PROVE  /\ results' \in [ResultIds -> Row \cup {None}]
           /\ Present' = Present \ X
           /\ \A x \in Present' : results'[x] = results[x]
BY DEF TypeOK, Remove, Present

LEMMA Putting ==
    ASSUME TypeOK, NEW X \in SUBSET ResultIds, NEW new, Put(X, new), \A x \in X : new[x] \in Row
    PROVE  /\ results' \in [ResultIds -> Row \cup {None}]
           /\ Present' = Present \cup X
           /\ \A x \in X : results'[x] = new[x]
           /\ \A x \in Present \ X : results'[x] = results[x]
           /\ \A q \in Requests : arrived[q] \subseteq arrived'[q]
           /\ arrived' \in [Requests -> SUBSET ResultIds]
           /\ \A q \in Requests, x \in X :
                 pc[q] = "drop" /\ new[x].athlete \in todo[q] => x \in arrived'[q]
BY NamesAssumption DEF TypeOK, Put, Present

LEMMA InitIInv == Init => IInv
<1> SUFFICES ASSUME Init PROVE IInv
  OBVIOUS
<1> USE DEF Init
<1>1. results \in [ResultIds -> Row \cup {None}] /\ Present = Initial
  BY DEF Present, ResultIds
<1>2. TypeOK
  <2>1. \A x \in Present : results[x] \in Row
    BY <1>1 DEF Present
  <2>2. \A x \in Present : results[x].athlete \in athletes /\ results[x].competition \in competitions
    BY <2>1 DEF Row
  <2>3. NoJob \in Jobs
    BY DEF NoJob, Jobs
  <2>4. QED
    BY <1>1, <2>2, <2>3 DEF TypeOK, Labels
<1>3. JobInv /\ DropInv /\ MoveInv
  BY DEF JobInv, DropInv, MoveInv
<1>4. FreshInv
  <2>1. \A r \in Requests, a \in Athletes : <<r, a>> \in ResultIds /\ <<r, a>> \notin Initial
    BY NamesAssumption DEF ResultIds
  <2>2. QED
    BY <1>1, <2>1 DEF FreshInv, Present
<1>5. QED
  BY <1>2, <1>3, <1>4 DEF IInv

\* Rows that go break nothing that is not about references.
LEMMA RemovalKeeps ==
    ASSUME IInv, NEW X, Remove(X), UNCHANGED <<job, rows, history>>,
           pc' \in [Requests -> Labels], todo' \in [Requests -> SUBSET Athletes],
           \A q \in Requests : /\ pc'[q] = pc[q] \/ pc'[q] = "done"
                               /\ todo'[q] \subseteq todo[q]
    PROVE  JobInv' /\ FreshInv' /\ DropInv' /\ MoveInv'
<1> USE DEF IInv, history
<1>1. /\ results' \in [ResultIds -> Row \cup {None}]
      /\ Present' = Present \ X
      /\ \A x \in Present' : results'[x] = results[x]
  BY Removing
<1>2. JobInv'
  BY DEF JobInv
<1>3. FreshInv'
  <2>1. \A x \in ResultIds : results[x] = None => results'[x] = None
    BY DEF Remove
  <2>2. QED
    BY <2>1 DEF FreshInv, ResultIds
<1>4. DropInv'
  BY <1>1 DEF DropInv
<1>5. MoveInv'
  BY <1>1 DEF MoveInv
<1>6. QED
  BY <1>2, <1>3, <1>4, <1>5

\* Type correctness, with the references, action by action.
LEMMA TypeStep == IInv /\ [Next]_vars => TypeOK'
<1> SUFFICES ASSUME IInv, [Next]_vars PROVE TypeOK'
  OBVIOUS
<1> USE DEF IInv, tables, local, history
<1>p. \A x \in Present : results[x] \in Row
  BY DEF TypeOK, Present
<1>1. ASSUME NEW r \in Requests, StartUpload(r) PROVE TypeOK'
  <2>1. PICK c \in Competitions, S \in SUBSET Athletes \ {{}} :
           /\ job' = [job EXCEPT ![r] = [NoJob EXCEPT !.competition = c]]
           /\ todo' = [todo EXCEPT ![r] = S]
    BY <1>1 DEF StartUpload
  <2>2. [NoJob EXCEPT !.competition = c] \in Jobs
    BY DEF NoJob, Jobs
  <2>3. QED
    BY <1>1, <2>1, <2>2 DEF TypeOK, StartUpload, Begin, Goto, Labels, Present
<1>2. ASSUME NEW r \in Requests, ReadRow(r) PROVE TypeOK'
  BY <1>2 DEF TypeOK, ReadRow, Goto, Labels, Present, ResultIds
<1>3. ASSUME NEW r \in Requests, Insert(r) PROVE TypeOK'
  <2> DEFINE new == [x \in rows[r] |-> [athlete |-> x[2], competition |-> job[r].competition]]
  <2>1. pc' \in [Requests -> Labels]
    BY <1>3 DEF Insert, Goto, TypeOK, Labels
  <2>2. CASE /\ \A x \in rows[r] : x[2] \in athletes /\ job[r].competition \in competitions
             /\ Put(rows[r], new)
    <3>1. rows[r] \in SUBSET ResultIds
      BY DEF TypeOK
    <3>2. \A x \in rows[r] : new[x] \in Row
      BY <2>2 DEF TypeOK, Row
    <3>3. /\ results' \in [ResultIds -> Row \cup {None}]
          /\ Present' = Present \cup rows[r]
          /\ \A x \in rows[r] : results'[x] = new[x]
          /\ \A x \in Present \ rows[r] : results'[x] = results[x]
          /\ arrived' \in [Requests -> SUBSET ResultIds]
      <4> HIDE DEF new
      <4>1. QED
        BY <2>2, <3>1, <3>2, Putting
    <3>4. \A x \in Present' : results'[x].athlete \in athletes /\ results'[x].competition \in competitions
      <4>1. ASSUME NEW x \in rows[r]
            PROVE  results'[x].athlete \in athletes /\ results'[x].competition \in competitions
        <5>1. new[x] = [athlete |-> x[2], competition |-> job[r].competition]
          OBVIOUS
        <5>2. x[2] \in athletes /\ job[r].competition \in competitions
          BY <2>2
        <5> HIDE DEF new
        <5>3. QED
          BY <3>3, <5>1, <5>2
      <4> HIDE DEF new
      <4>2. ASSUME NEW x \in Present \ rows[r]
            PROVE  results'[x].athlete \in athletes /\ results'[x].competition \in competitions
        BY <3>3 DEF TypeOK
      <4>3. QED
        BY <3>3, <4>1, <4>2
    <3>5. QED
      BY <1>3, <2>1, <3>3, <3>4 DEF TypeOK, Insert
  <2>3. CASE UNCHANGED <<results, arrived>>
    BY <1>3, <2>1, <2>3 DEF TypeOK, Insert, Present
  <2>4. QED
    BY <1>3, <2>2, <2>3 DEF Insert
<1>4. ASSUME NEW r \in Requests, StartTransfer(r) PROVE TypeOK'
  BY <1>4 DEF TypeOK, StartTransfer, Goto, Labels, Present, Jobs
<1>5. ASSUME NEW r \in Requests, ReadTarget(r) PROVE TypeOK'
  BY <1>5 DEF TypeOK, ReadTarget, Goto, Labels, Present
<1>6. ASSUME NEW r \in Requests, ReadResults(r) PROVE TypeOK'
  BY <1>6 DEF TypeOK, ReadResults, Selected, Of, Goto, Labels, Present
<1>7. ASSUME NEW r \in Requests, Move(r) PROVE TypeOK'
  <2> DEFINE left == rows[r] \cap Present
             new == [x \in left |-> [results[x] EXCEPT !.athlete = job[r].to]]
  <2>1. pc' \in [Requests -> Labels]
    BY <1>7 DEF Move, Goto, TypeOK, Labels
  <2>2. CASE /\ left = {} \/ job[r].to \in athletes
             /\ Put(left, new)
             /\ strayed' = [q \in Requests |->
                              strayed[q] \cup IF q # r THEN left \cap rows[q] ELSE {}]
    <3>1. left \in SUBSET ResultIds
      BY DEF TypeOK
    <3>2. \A x \in left : /\ new[x] \in Row /\ new[x].athlete \in athletes
                          /\ new[x].competition = results[x].competition
      BY <1>p, <2>2 DEF TypeOK, Row
    <3>3. /\ results' \in [ResultIds -> Row \cup {None}]
          /\ Present' = Present \cup left
          /\ \A x \in left : results'[x] = new[x]
          /\ \A x \in Present \ left : results'[x] = results[x]
          /\ arrived' \in [Requests -> SUBSET ResultIds]
      <4> HIDE DEF new, left
      <4>1. QED
        BY <2>2, <3>1, <3>2, Putting
    <3>4. \A x \in Present' : results'[x].athlete \in athletes /\ results'[x].competition \in competitions
      <4> HIDE DEF new
      <4>1. QED
        BY <3>2, <3>3 DEF TypeOK
    <3>5. strayed' \in [Requests -> SUBSET ResultIds]
      BY <2>2, <3>1 DEF TypeOK
    <3>6. QED
      BY <1>7, <2>1, <3>3, <3>4, <3>5 DEF TypeOK, Move
  <2>3. CASE UNCHANGED <<results, history>>
    BY <1>7, <2>1, <2>3 DEF TypeOK, Move, Present
  <2>4. QED
    BY <1>7, <2>2, <2>3 DEF Move
<1>8. ASSUME NEW r \in Requests, Count(r) PROVE TypeOK'
  BY <1>8 DEF TypeOK, Count, Goto, Labels, Present, JobInv
<1>9. ASSUME NEW r \in Requests, ClearEmpty(r) PROVE TypeOK'
  BY <1>9 DEF TypeOK, ClearEmpty, Goto, Labels, Present
<1>d. ASSUME NEW a, RemoveAthlete(a), competitions' = competitions
      PROVE  /\ results' \in [ResultIds -> Row \cup {None}] /\ athletes' \subseteq Athletes
             /\ \A x \in Present' : /\ results'[x].athlete \in athletes'
                                    /\ results'[x].competition \in competitions'
  <2>1. Present' = Present \ Of(a) /\ \A x \in Present' : results'[x] = results[x]
    BY <1>d, Removing DEF RemoveAthlete
  <2>2. \A x \in Present' : results[x].athlete # a
    BY <2>1 DEF Of
  <2>3. QED
    BY <1>d, <2>1, <2>2, Removing DEF RemoveAthlete, TypeOK
<1>10. ASSUME NEW r \in Requests, Drop(r) PROVE TypeOK'
  <2>1. PICK a \in todo[r] : RemoveAthlete(a) /\ todo' = [todo EXCEPT ![r] = @ \ {a}]
    BY <1>10 DEF Drop
  <2>2. pc' \in [Requests -> Labels] /\ todo' \in [Requests -> SUBSET Athletes]
    BY <1>10, <2>1 DEF Drop, Goto, TypeOK, Labels
  <2>3. QED
    BY <1>10, <1>d, <2>1, <2>2 DEF TypeOK, Drop
<1>11. ASSUME NEW r \in Requests, ClearResults(r) PROVE TypeOK'
  <2>1. PICK X : Remove(X)
    BY <1>11 DEF ClearResults
  <2>2. QED
    BY <1>11, <2>1, Removing DEF TypeOK, ClearResults, Begin, Goto, Labels
<1>12. ASSUME NEW r \in Requests, DeleteResult(r) PROVE TypeOK'
  <2>1. PICK X : Remove(X)
    BY <1>12 DEF DeleteResult
  <2>2. QED
    BY <1>12, <2>1, Removing DEF TypeOK, DeleteResult, Begin, Goto, Labels
<1>13. ASSUME NEW r \in Requests, DeleteAthlete(r) PROVE TypeOK'
  <2>1. PICK a \in athletes : RemoveAthlete(a)
    BY <1>13 DEF DeleteAthlete
  <2>2. QED
    BY <1>13, <1>d, <2>1 DEF TypeOK, DeleteAthlete, Begin, Goto, Labels
<1>14. ASSUME NEW r \in Requests, DeleteCompetition(r) PROVE TypeOK'
  <2> DEFINE X(c) == {x \in Present : results[x].competition = c}
  <2>1. PICK c \in competitions : competitions' = competitions \ {c} /\ Remove(X(c))
    BY <1>14 DEF DeleteCompetition
  <2>2. /\ results' \in [ResultIds -> Row \cup {None}] /\ Present' = Present \ X(c)
        /\ \A x \in Present' : results'[x] = results[x]
    <3> HIDE DEF X
    <3>1. QED
      BY <2>1, Removing
  <2>3. QED
    BY <1>14, <2>1, <2>2 DEF TypeOK, DeleteCompetition, Begin, Goto, Labels
<1>15. ASSUME NEW r \in Requests, Fail(r) PROVE TypeOK'
  BY <1>15 DEF TypeOK, Fail, Goto, Labels, Present
<1>16. CASE UNCHANGED vars
  BY <1>16 DEF TypeOK, vars, Present
<1>17. QED
  BY <1>1, <1>2, <1>3, <1>4, <1>5, <1>6, <1>7, <1>8, <1>9, <1>10, <1>11, <1>12, <1>13, <1>14,
     <1>15, <1>16 DEF Next

\* Handlers that only delete, or do nothing to the tables, keep the rest.
LEMMA RemovalStep ==
    ASSUME IInv, NEW r \in Requests,
           \/ Drop(r) \/ ClearResults(r) \/ DeleteResult(r) \/ DeleteAthlete(r) \/ DeleteCompetition(r)
    PROVE  JobInv' /\ FreshInv' /\ DropInv' /\ MoveInv'
<1> USE DEF IInv, local, history
<1>1. CASE Drop(r)
  <2>1. PICK a \in todo[r] : RemoveAthlete(a) /\ todo' = [todo EXCEPT ![r] = @ \ {a}]
    BY <1>1 DEF Drop
  <2>2. \A q \in Requests : todo'[q] \subseteq todo[q]
    BY <2>1 DEF TypeOK
  <2>3. pc' \in [Requests -> Labels] /\ todo' \in [Requests -> SUBSET Athletes]
        /\ \A q \in Requests : pc'[q] = pc[q] \/ pc'[q] = "done"
    BY <1>1, <2>1 DEF Drop, Goto, TypeOK, Labels
  <2>4. QED
    BY <1>1, <2>1, <2>2, <2>3, RemovalKeeps DEF RemoveAthlete, Drop
<1>2. ASSUME NEW X, Remove(X), UNCHANGED <<local, history>>,
             pc' = [pc EXCEPT ![r] = "done"]
      PROVE  JobInv' /\ FreshInv' /\ DropInv' /\ MoveInv'
  <2>1. pc' \in [Requests -> Labels] /\ todo' \in [Requests -> SUBSET Athletes]
    BY <1>2 DEF TypeOK, Labels
  <2>2. QED
    BY <1>2, <2>1, RemovalKeeps DEF TypeOK
<1>3. CASE ClearResults(r)
  BY <1>2, <1>3 DEF ClearResults, Begin, Goto
<1>4. CASE DeleteResult(r)
  BY <1>2, <1>4 DEF DeleteResult, Begin, Goto
<1>5. CASE DeleteAthlete(r)
  BY <1>2, <1>5 DEF DeleteAthlete, RemoveAthlete, Begin, Goto
<1>6. CASE DeleteCompetition(r)
  BY <1>2, <1>6 DEF DeleteCompetition, Begin, Goto
<1>7. QED
  BY <1>1, <1>3, <1>4, <1>5, <1>6

\* An upload comes to athletes that may have been found empty, and to no transfer.
LEMMA InsertStep ==
    ASSUME IInv, NEW r \in Requests, Insert(r)
    PROVE  JobInv' /\ FreshInv' /\ DropInv' /\ MoveInv'
<1> USE DEF IInv, local, history
<1> DEFINE new == [x \in rows[r] |-> [athlete |-> x[2], competition |-> job[r].competition]]
<1>1. /\ pc[r] = "row" /\ UNCHANGED <<job, todo, rows, strayed>>
      /\ pc' \in [Requests -> Labels]
      /\ \A q \in Requests \ {r} : pc'[q] = pc[q]
      /\ pc'[r] \in {"done", "failed"}
  BY DEF Insert, Goto, TypeOK, Labels
<1>2. rows[r] \in SUBSET ResultIds /\ rows[r] \subseteq {r} \X Athletes
  BY <1>1 DEF TypeOK, JobInv
<1>3. JobInv'
  BY <1>1 DEF JobInv
<1>4. CASE UNCHANGED <<results, arrived>>
  <2>1. Present' = Present
    BY <1>4 DEF Present
  <2>2. QED
    BY <1>1, <1>3, <1>4, <2>1 DEF FreshInv, DropInv, MoveInv
<1>5. CASE /\ \A x \in rows[r] : x[2] \in athletes /\ job[r].competition \in competitions
           /\ Put(rows[r], new)
  <2>1. \A x \in rows[r] : new[x] \in Row
    BY <1>5 DEF TypeOK, Row
  <2>2. /\ Present' = Present \cup rows[r]
        /\ \A x \in rows[r] : results'[x] = new[x]
        /\ \A x \in Present \ rows[r] : results'[x] = results[x]
        /\ \A q \in Requests : arrived[q] \subseteq arrived'[q]
        /\ \A q \in Requests, x \in rows[r] :
              pc[q] = "drop" /\ new[x].athlete \in todo[q] => x \in arrived'[q]
    <3> HIDE DEF new
    <3>1. QED
      BY <1>2, <1>5, <2>1, Putting
  <2> HIDE DEF new
  <2>3. FreshInv'
    <3>1. ASSUME NEW q \in Requests, NEW a \in Athletes, pc'[q] \in {"idle", "row"}
          PROVE  results'[<<q, a>>] = None
      <4>1. q # r /\ pc[q] \in {"idle", "row"} /\ <<q, a>> \notin rows[r]
        BY <1>1, <1>2, <3>1
      <4>2. <<q, a>> \in ResultIds /\ results[<<q, a>>] = None
        BY <4>1 DEF FreshInv, ResultIds
      <4>3. QED
        BY <1>5, <4>1, <4>2 DEF Put
    <3>2. QED
      BY <1>1, <3>1 DEF FreshInv
  <2>4. DropInv'
    BY <1>1, <2>2 DEF DropInv
  <2>5. MoveInv'
    <3>1. \A q \in Requests : pc[q] = "move" => rows[q] \cap rows[r] = {}
      <4>1. SUFFICES ASSUME NEW q \in Requests, pc[q] = "move", NEW x \in rows[q] \cap rows[r]
                     PROVE  FALSE
        OBVIOUS
      <4>2. PICK a \in Athletes : x = <<r, a>>
        BY <1>2
      <4>3. QED
        BY <1>1, <4>1, <4>2 DEF FreshInv
    <3>2. QED
      BY <1>1, <2>2, <3>1 DEF MoveInv
  <2>6. QED
    BY <1>3, <2>3, <2>4, <2>5
<1>6. QED
  BY <1>4, <1>5 DEF Insert

\* A transfer marks what it takes on for every other that has read it.
LEMMA MoveStep ==
    ASSUME IInv, NEW r \in Requests, Move(r)
    PROVE  JobInv' /\ FreshInv' /\ DropInv' /\ MoveInv'
<1> USE DEF IInv, local, history
<1> DEFINE left == rows[r] \cap Present
           new == [x \in left |-> [results[x] EXCEPT !.athlete = job[r].to]]
<1>1. /\ pc[r] = "move" /\ UNCHANGED <<job, todo, rows>>
      /\ pc' \in [Requests -> Labels]
      /\ \A q \in Requests \ {r} : pc'[q] = pc[q]
      /\ pc'[r] \in {"count", "failed"}
  BY DEF Move, Goto, TypeOK, Labels
<1>2. JobInv'
  BY <1>1 DEF JobInv
<1>3. CASE UNCHANGED <<results, history>>
  <2>1. Present' = Present
    BY <1>3 DEF Present
  <2>2. QED
    BY <1>1, <1>2, <1>3, <2>1 DEF FreshInv, DropInv, MoveInv
<1>4. CASE /\ left = {} \/ job[r].to \in athletes
           /\ Put(left, new)
           /\ strayed' = [q \in Requests |->
                            strayed[q] \cup IF q # r THEN left \cap rows[q] ELSE {}]
  <2>1. left \in SUBSET ResultIds /\ left \subseteq Present
    BY DEF TypeOK
  <2>2. \A x \in left : /\ new[x] \in Row
                        /\ new[x].competition = results[x].competition
    <3>1. \A x \in Present : results[x] \in Row
      BY DEF TypeOK, Present
    <3>2. QED
      BY <1>4, <3>1 DEF TypeOK, Row
  <2>3. /\ Present' = Present \cup left
        /\ \A x \in left : results'[x] = new[x]
        /\ \A x \in Present \ left : results'[x] = results[x]
        /\ \A q \in Requests : arrived[q] \subseteq arrived'[q]
        /\ \A q \in Requests, x \in left :
              pc[q] = "drop" /\ new[x].athlete \in todo[q] => x \in arrived'[q]
    <3> HIDE DEF new, left
    <3>1. QED
      BY <1>4, <2>1, <2>2, Putting
  <2>4. \A q \in Requests \ {r} : strayed'[q] = strayed[q] \cup (left \cap rows[q])
    BY <1>4
  <2> HIDE DEF new, left
  <2>5. FreshInv'
    <3>1. \A q \in Requests, a \in Athletes : <<q, a>> \in ResultIds
      BY DEF ResultIds
    <3>2. \A x \in ResultIds : results[x] = None => results'[x] = None
      BY <2>1, <2>3 DEF Present
    <3>3. QED
      BY <1>1, <3>1, <3>2 DEF FreshInv
  <2>6. DropInv'
    BY <1>1, <2>1, <2>3 DEF DropInv
  <2>7. MoveInv'
    <3>1. SUFFICES ASSUME NEW q \in Requests \ {r}, pc[q] = "move", NEW x \in rows[q] \cap Present
                   PROVE  /\ results'[x].athlete = job[q].from \/ x \in strayed'[q]
                          /\ job[q].competition \in {None, results'[x].competition}
      BY <1>1, <2>1, <2>3 DEF MoveInv
    <3>2. /\ results[x].athlete = job[q].from \/ x \in strayed[q]
          /\ job[q].competition \in {None, results[x].competition}
      BY <3>1 DEF MoveInv
    <3>3. CASE x \in left
      BY <2>2, <2>3, <2>4, <3>1, <3>2, <3>3
    <3>4. CASE x \notin left
      BY <2>3, <2>4, <3>1, <3>2, <3>4
    <3>5. QED
      BY <3>3, <3>4
  <2>8. QED
    BY <1>2, <2>5, <2>6, <2>7
<1>5. QED
  BY <1>3, <1>4 DEF Move

\* Reading changes what one request holds.
LEMMA ReadStep ==
    ASSUME IInv, NEW r \in Requests,
           \/ StartUpload(r) \/ ReadRow(r) \/ StartTransfer(r) \/ ReadTarget(r)
           \/ ReadResults(r) \/ Count(r) \/ ClearEmpty(r) \/ Fail(r)
    PROVE  JobInv' /\ FreshInv' /\ DropInv' /\ MoveInv'
<1> USE DEF IInv, local, history, tables
<1>1. UNCHANGED <<results, arrived, strayed>> /\ Present' = Present
  BY DEF StartUpload, ReadRow, StartTransfer, ReadTarget, ReadResults, Count, ClearEmpty, Fail, Present
<1>2. CASE StartUpload(r)
  <2>1. PICK c \in Competitions, S \in SUBSET Athletes \ {{}} :
           /\ job' = [job EXCEPT ![r] = [NoJob EXCEPT !.competition = c]]
           /\ todo' = [todo EXCEPT ![r] = S]
    BY <1>2 DEF StartUpload
  <2>2. [NoJob EXCEPT !.competition = c].competition = c
    BY DEF NoJob
  <2>3. pc[r] = "idle" /\ pc' = [pc EXCEPT ![r] = "row"] /\ rows' = rows
    BY <1>2 DEF StartUpload, Begin, Goto
  <2>4. QED
    BY <1>1, <2>1, <2>2, <2>3 DEF TypeOK, JobInv, FreshInv, DropInv, MoveInv
<1>3. CASE ReadRow(r)
  <2>1. JobInv'
    BY <1>3 DEF ReadRow, Goto, JobInv, TypeOK
  <2>2. QED
    BY <1>1, <1>3, <2>1 DEF ReadRow, Goto, TypeOK, FreshInv, DropInv, MoveInv
<1>4. CASE StartTransfer(r)
  <2>1. JobInv'
    BY <1>4 DEF StartTransfer, Goto, JobInv, TypeOK
  <2>2. QED
    BY <1>1, <1>4, <2>1 DEF StartTransfer, Goto, TypeOK, FreshInv, DropInv, MoveInv
<1>5. CASE ReadTarget(r)
  BY <1>1, <1>5 DEF ReadTarget, Goto, TypeOK, JobInv, FreshInv, DropInv, MoveInv
<1>6. CASE ReadResults(r)
  <2>1. /\ pc[r] = "read" /\ UNCHANGED <<job, todo>> /\ rows' \in [Requests -> SUBSET ResultIds]
        /\ \A q \in Requests \ {r} : pc'[q] = pc[q] /\ rows'[q] = rows[q]
        /\ \/ pc'[r] = "move" /\ rows'[r] = Selected(job[r])
           \/ pc'[r] = "done"
    BY <1>6 DEF ReadResults, Goto, TypeOK, Selected, Of, Present
  <2>2. \A q \in Requests, a \in Athletes :
           results[<<q, a>>] = None => <<q, a>> \notin Selected(job[r])
    BY DEF Selected, Of, Present
  <2>3. JobInv' /\ DropInv'
    BY <1>1, <2>1 DEF JobInv, DropInv
  <2>4. FreshInv'
    BY <1>1, <2>1, <2>2 DEF FreshInv
  <2>5. MoveInv'
    <3>1. \A x \in Selected(job[r]) : /\ results[x].athlete = job[r].from
                                      /\ job[r].competition \in {None, results[x].competition}
      BY DEF Selected, Of
    <3>2. QED
      BY <1>1, <2>1, <3>1 DEF MoveInv
  <2>6. QED
    BY <2>3, <2>4, <2>5
<1>7. CASE Count(r)
  <2>1. /\ pc[r] = "count" /\ UNCHANGED <<job, rows>>
        /\ \A q \in Requests \ {r} : pc'[q] = pc[q] /\ todo'[q] = todo[q]
        /\ \/ pc'[r] = "drop" /\ todo'[r] = {job[r].from} /\ Of(job[r].from) = {}
           \/ pc'[r] = "done"
    BY <1>7 DEF Count, Goto, TypeOK
  <2>2. QED
    BY <1>1, <2>1 DEF JobInv, FreshInv, DropInv, MoveInv, Of
<1>8. CASE ClearEmpty(r)
  <2>1. /\ pc[r] = "idle" /\ UNCHANGED <<job, rows>>
        /\ \A q \in Requests \ {r} : pc'[q] = pc[q] /\ todo'[q] = todo[q]
        /\ \/ pc'[r] = "drop" /\ todo'[r] = {a \in athletes : Of(a) = {}}
           \/ pc'[r] = "done"
    BY <1>8 DEF ClearEmpty, Goto, TypeOK
  <2>2. QED
    BY <1>1, <2>1 DEF JobInv, FreshInv, DropInv, MoveInv, Of
<1>9. CASE Fail(r)
  BY <1>1, <1>9 DEF Fail, Goto, TypeOK, JobInv, FreshInv, DropInv, MoveInv
<1>10. QED
  BY <1>2, <1>3, <1>4, <1>5, <1>6, <1>7, <1>8, <1>9

LEMMA IInvStep == IInv /\ [Next]_vars => IInv'
<1> SUFFICES ASSUME IInv, [Next]_vars PROVE IInv'
  OBVIOUS
<1>1. CASE Next
  <2>1. PICK r \in Requests :
           \/ StartUpload(r) \/ ReadRow(r) \/ Insert(r)
           \/ StartTransfer(r) \/ ReadTarget(r) \/ ReadResults(r) \/ Move(r) \/ Count(r)
           \/ ClearEmpty(r) \/ Drop(r)
           \/ ClearResults(r) \/ DeleteResult(r) \/ DeleteAthlete(r) \/ DeleteCompetition(r)
           \/ Fail(r)
    BY <1>1 DEF Next
  <2>2. JobInv' /\ FreshInv' /\ DropInv' /\ MoveInv'
    BY <2>1, RemovalStep, InsertStep, MoveStep, ReadStep
  <2>3. QED
    BY <2>2, TypeStep DEF IInv
<1>2. CASE UNCHANGED vars
  <2>1. JobInv' /\ FreshInv' /\ DropInv' /\ MoveInv'
    BY <1>2 DEF vars, tables, local, history, IInv, JobInv, FreshInv, DropInv, MoveInv, Present
  <2>2. QED
    BY <2>1, TypeStep DEF IInv
<1>3. QED
  BY <1>1, <1>2

THEOREM Invariance == Spec => []IInv
<1>1. QED
  BY InitIInv, IInvStep, PTL DEF Spec

\* No result is ever without its athlete or its competition.
THEOREM TypeCorrectness == Spec => []TypeOK
<1>1. IInv => TypeOK
  BY DEF IInv
<1>2. QED
  BY <1>1, Invariance, PTL

\* Clean-up loses only results that came after the athlete was found empty, for
\* any number of requests (transfer_results, clear_empty_athletes).
THEOREM LostTheorem == Spec => ResultsLostForCause
<1> DEFINE Lost == \A x \in Present : results'[x] = None =>
          \E r \in Requests :
              \/ pc[r] = "idle" /\ op'[r] \in Deletes
              \/ pc[r] = "drop" /\ x \in arrived[r]
<1>1. ASSUME IInv, [Next]_vars PROVE Lost
  <2> USE DEF IInv, tables, local, history
  <2>1. SUFFICES ASSUME NEW x \in Present, results'[x] = None
                 PROVE  \E r \in Requests :
                           \/ pc[r] = "idle" /\ op'[r] \in Deletes
                           \/ pc[r] = "drop" /\ x \in arrived[r]
    OBVIOUS
  <2>2. results[x] # None /\ results' # results
    BY <2>1 DEF Present
  <2>3. PICK r \in Requests :
           \/ Insert(r) \/ Move(r) \/ Drop(r)
           \/ ClearResults(r) \/ DeleteResult(r) \/ DeleteAthlete(r) \/ DeleteCompetition(r)
    BY <1>1, <2>2 DEF Next, vars, StartUpload, ReadRow, StartTransfer, ReadTarget, ReadResults,
       Count, ClearEmpty, Fail
  <2>4. ~Insert(r)
    <3> SUFFICES ASSUME Insert(r) PROVE FALSE
      OBVIOUS
    <3> DEFINE new == [y \in rows[r] |-> [athlete |-> y[2], competition |-> job[r].competition]]
    <3>1. Put(rows[r], new) /\ \A y \in rows[r] : y[2] \in athletes /\ job[r].competition \in competitions
      BY <2>2 DEF Insert
    <3>2. \A y \in rows[r] : new[y] \in Row
      BY <1>1, <3>1 DEF TypeOK, Row
    <3> HIDE DEF new
    <3>3. rows[r] \in SUBSET ResultIds
      BY <1>1 DEF TypeOK
    <3>4. Present' = Present \cup rows[r]
      BY <1>1, <3>1, <3>2, <3>3, Putting
    <3>5. QED
      BY <2>1, <3>4 DEF Present
  <2>5. ~Move(r)
    <3> SUFFICES ASSUME Move(r) PROVE FALSE
      OBVIOUS
    <3> DEFINE left == rows[r] \cap Present
               new == [y \in left |-> [results[y] EXCEPT !.athlete = job[r].to]]
    <3>1. Put(left, new) /\ (left = {} \/ job[r].to \in athletes)
      BY <2>2 DEF Move
    <3>2. \A y \in left : new[y] \in Row
      <4>1. \A y \in Present : results[y] \in Row
        BY <1>1 DEF TypeOK, Present
      <4>2. QED
        BY <1>1, <3>1, <4>1 DEF TypeOK, Row
    <3>3. left \in SUBSET ResultIds
      BY <1>1 DEF TypeOK
    <3> HIDE DEF new, left
    <3>4. Present' = Present \cup left
      BY <1>1, <3>1, <3>2, <3>3, Putting
    <3>5. QED
      BY <2>1, <3>4 DEF Present
  <2>6. CASE Drop(r)
    <3>1. PICK a \in todo[r] : RemoveAthlete(a)
      BY <2>6 DEF Drop
    <3>2. x \in Of(a)
      BY <2>1, <2>2, <3>1 DEF RemoveAthlete, Remove, Present
    <3>3. pc[r] = "drop" /\ x \in arrived[r]
      BY <1>1, <2>6, <3>1, <3>2 DEF Drop, DropInv, Of
    <3>4. QED
      BY <3>3
  <2>7. CASE ClearResults(r) \/ DeleteResult(r) \/ DeleteAthlete(r) \/ DeleteCompetition(r)
    BY <1>1, <2>7 DEF ClearResults, DeleteResult, DeleteAthlete, DeleteCompetition, Begin, Deletes, TypeOK
  <2>8. QED
    BY <2>3, <2>4, <2>5, <2>6, <2>7
<1>2. QED
  BY <1>1, Invariance, PTL DEF Spec, ResultsLostForCause

\* A transfer takes only results of its source and its competition, or what another
\* transfer has taken on, for any number of requests (transfer_results).
THEOREM MovedTheorem == Spec => MovedFromSource
<1> DEFINE Moved == \A x \in Present : results'[x] # None /\ results'[x] # results[x] =>
          \E r \in Requests :
              /\ pc[r] = "move"
              /\ results'[x] = [results[x] EXCEPT !.athlete = job[r].to]
              /\ job[r].competition \in {None, results[x].competition}
              /\ results[x].athlete = job[r].from \/ x \in strayed[r]
<1>1. ASSUME IInv, [Next]_vars PROVE Moved
  <2> USE DEF IInv, tables, local, history
  <2>1. SUFFICES ASSUME NEW x \in Present, results'[x] # None, results'[x] # results[x]
                 PROVE  \E r \in Requests :
                          /\ pc[r] = "move"
                          /\ results'[x] = [results[x] EXCEPT !.athlete = job[r].to]
                          /\ job[r].competition \in {None, results[x].competition}
                          /\ results[x].athlete = job[r].from \/ x \in strayed[r]
    OBVIOUS
  <2>2. x \in ResultIds /\ results[x] # None /\ results' # results
    BY <2>1 DEF Present
  <2>3. \A X : ~Remove(X)
    BY <2>1, <2>2 DEF Remove
  <2>4. PICK r \in Requests : Insert(r) \/ Move(r)
    BY <1>1, <2>2, <2>3 DEF Next, vars, StartUpload, ReadRow, StartTransfer, ReadTarget, ReadResults,
       Count, ClearEmpty, Fail, Drop, RemoveAthlete, ClearResults, DeleteResult, DeleteAthlete,
       DeleteCompetition
  <2>5. CASE Insert(r)
    <3>1. x \in rows[r] /\ pc[r] = "row"
      BY <2>1, <2>2, <2>5 DEF Insert, Put
    <3>2. PICK a \in Athletes : x = <<r, a>>
      BY <1>1, <3>1 DEF JobInv
    <3>3. QED
      BY <1>1, <2>2, <3>1, <3>2 DEF FreshInv
  <2>6. CASE Move(r)
    <3>1. x \in rows[r] /\ pc[r] = "move"
          /\ results'[x] = [results[x] EXCEPT !.athlete = job[r].to]
      BY <2>1, <2>2, <2>6 DEF Move, Put
    <3>2. QED
      BY <1>1, <3>1 DEF MoveInv
  <2>7. QED
    BY <2>4, <2>5, <2>6
<1>2. QED
  BY <1>1, Invariance, PTL DEF Spec, MovedFromSource
-----------------------------------------------------------------------------
(* The administration.                                                     *)


\* What a clerk has taken, read and made.
DeskInv ==
    /\ task = [m \in Clerks |-> task[m]] /\ seen = [m \in Clerks |-> seen[m]]
    /\ \A m \in Clerks :
          /\ desk[m] = "idle" => \A d \in Listed : distances[d].order # m
          /\ desk[m] = "save" => seen[m] \in Details
          /\ desk[m] = "insert" => task[m].distances = {}
          /\ desk[m] = "reorder" => seen[m] = task[m].distances
          /\ desk[m] = "standard" => /\ task[m].does = "standard"
                                     /\ task[m].kind \in Kinds /\ task[m].active \in BOOLEAN
          /\ standards[m] # None =>
                /\ desk[m] = "done" /\ task[m].does = "standard"
                /\ standards[m].kind = task[m].kind

\* What a clerk has retired came back only by its rivals.
RivalsInv ==
    \A m \in Clerks : desk[m] = "standard" => Active(task[m].kind) \subseteq rivals[m]

AdminInv == AdminTypeOK /\ DeskInv /\ RivalsInv /\ OrdersTogether /\ StandardsExplained

-----------------------------------------------------------------------------
(* The administration and the maintenance.                                 *)

\* Clerks change nothing that a request reads but the rows of competitions and their
\* distances, so every behaviour is one of ResultMaintenance.
THEOREM Implements == AllSpec => Spec
<1>1. AllInit => Init
  BY DEF AllInit
<1>2. [AllNext]_allVars => [Next]_vars
  BY DEF AllNext, allVars
<1>3. QED
  BY <1>1, <1>2, PTL DEF AllSpec, Spec

\* Hence what holds of the results holds beside the administration
\* (transfer_results, clear_empty_athletes, delete_competition).
THEOREM MaintenanceHolds == AllSpec => []TypeOK /\ ResultsLostForCause /\ MovedFromSource
BY Implements, TypeCorrectness, LostTheorem, MovedTheorem, PTL

-----------------------------------------------------------------------------
(* Steps.                                                                  *)

LEMMA DistanceFields ==
    ASSUME AdminTypeOK, NEW d \in Listed
    PROVE  distances[d] \in Distance /\ distances[d].order \in Clerks \cup {None}
BY DEF AdminTypeOK, Listed, Distance

LEMMA TakenAt ==
    ASSUME AdminTypeOK, DeskInv, NEW m \in Clerks, NEW w, NEW l, Take(m, w, l)
    PROVE  /\ desk[m] = "idle" /\ desk'[m] = l /\ task'[m] = w
           /\ \A n \in Clerks \ {m} : desk'[n] = desk[n] /\ task'[n] = task[n]
           /\ task' = [n \in Clerks |-> task'[n]]
BY DEF AdminTypeOK, DeskInv, Take, At

\* Clerks begin, and go on with what they have taken; standards are not theirs.
GoOn ==
    /\ UNCHANGED <<standards, rivals>>
    /\ \A m \in Clerks :
          /\ desk[m] # "idle" => task'[m] = task[m] /\ desk'[m] # "idle"
          /\ desk[m] = "done" => desk'[m] = "done"
          /\ desk[m] = "failed" => desk'[m] = "failed"
          /\ desk[m] = "standard" => desk'[m] \in {"standard", "failed"}
          /\ desk'[m] = "standard" => desk[m] = "standard"

\* Then the standards stay as they are explained.
LEMMA StandardsStay ==
    ASSUME AdminInv, GoOn
    PROVE  RivalsInv' /\ StandardsExplained'
<1>1. \A k : Active(k)' = Active(k)
  BY DEF GoOn, Active
<1>2. RivalsInv'
  BY <1>1 DEF GoOn, AdminInv, RivalsInv
<1>3. StandardsExplained'
  <2>1. ASSUME NEW k \in Kinds, NEW m \in Active(k)', NEW n \in Active(k)', m # n
        PROVE  m \in rivals'[n] \/ n \in rivals'[m]
    BY <1>1, <2>1 DEF GoOn, AdminInv, StandardsExplained
  <2>2. ASSUME NEW m \in Clerks, standards'[m] # None, task'[m].active, Active(task[m].kind)' = {}
        PROVE  \E n \in Clerks \ {m} :
                  /\ desk'[n] # "idle" /\ task'[n].does = "standard" /\ task'[n].kind = task'[m].kind
                  /\ desk'[n] \in {"standard", "failed"} \/ ~task'[n].active
    <3>1. standards[m] # None /\ desk[m] = "done"
      BY <2>2 DEF GoOn, AdminInv, DeskInv
    <3>2. task'[m] = task[m]
      BY <3>1 DEF GoOn
    <3>3. task[m].active /\ Active(task[m].kind) = {}
      BY <1>1, <2>2, <3>2
    <3>4. PICK n \in Clerks \ {m} :
             /\ desk[n] # "idle" /\ task[n].does = "standard" /\ task[n].kind = task[m].kind
             /\ desk[n] \in {"standard", "failed"} \/ ~task[n].active
      BY <3>1, <3>3 DEF AdminInv, StandardsExplained
    <3>5. task'[n] = task[n] /\ desk'[n] # "idle" /\ (desk[n] \in {"standard", "failed"} =>
                                                         desk'[n] \in {"standard", "failed"})
      BY <3>4 DEF GoOn
    <3>6. QED
      BY <3>2, <3>4, <3>5
  <2>3. QED
    BY <2>1, <2>2 DEF StandardsExplained
<1>4. QED
  BY <1>2, <1>3

\* Where distances only go, no orders mix.
LEMMA FewerDistances ==
    ASSUME AdminInv, GoOn, \A d \in Listed' : d \in Listed /\ distances'[d] = distances[d]
    PROVE  OrdersTogether'
<1>1. ASSUME NEW d \in Listed', distances[d].order # None
      PROVE  /\ distances'[d].order = distances[d].order
             /\ task'[distances[d].order] = task[distances[d].order]
  <2>1. distances[d].order \in Clerks
    BY <1>1, DistanceFields DEF AdminInv
  <2>2. desk[distances[d].order] # "idle"
    BY <1>1, <2>1 DEF AdminInv, DeskInv
  <2>3. QED
    BY <1>1, <2>1, <2>2 DEF GoOn
<1>2. QED
  BY <1>1 DEF AdminInv, OrdersTogether

-----------------------------------------------------------------------------
(* Requests beside the clerks.                                             *)

LEMMA RequestStep ==
    ASSUME AdminInv, TypeOK', Next, Cascade, UNCHANGED <<details, standards, desk, task, seen, rivals>>
    PROVE  AdminInv'
<1>1. /\ distances' \in [Distances -> Distance \cup {None}]
      /\ \A d \in Listed' : /\ d \in Listed /\ distances'[d] = distances[d]
                            /\ distances'[d].competition \in competitions'
  BY DEF AdminInv, AdminTypeOK, Cascade, Listed
<1>2. GoOn
  BY DEF GoOn
<1>3. AdminTypeOK'
  BY <1>1 DEF AdminInv, AdminTypeOK
<1>4. DeskInv'
  BY <1>1 DEF AdminInv, DeskInv
<1>5. QED
  BY <1>1, <1>2, <1>3, <1>4, FewerDistances, StandardsStay DEF AdminInv

-----------------------------------------------------------------------------
(* Clerks.                                                                 *)

LEMMA ReadCompetitionStep ==
    ASSUME AdminInv, UNCHANGED vars, NEW m \in Clerks, ReadCompetition(m)
    PROVE  AdminInv'
<1> USE DEF AdminInv
<1>1. PICK does \in {"edit", "mark", "unmark"}, c \in Competitions :
         /\ Take(m, Work(does, c), IF c \in competitions THEN "save" ELSE "refused")
         /\ seen' = [seen EXCEPT ![m] = details[c]]
  BY DEF ReadCompetition
<1>2. UNCHANGED <<details, distances, standards, rivals, competitions>>
  BY DEF ReadCompetition, vars, tables
<1>3. /\ desk[m] = "idle" /\ desk'[m] \in {"save", "refused"}
      /\ \A n \in Clerks \ {m} : desk'[n] = desk[n] /\ task'[n] = task[n] /\ seen'[n] = seen[n]
      /\ task' = [n \in Clerks |-> task'[n]] /\ seen' = [n \in Clerks |-> seen'[n]]
      /\ seen'[m] \in Details
  <2>1. /\ desk[m] = "idle" /\ desk'[m] \in {"save", "refused"}
        /\ \A n \in Clerks \ {m} : desk'[n] = desk[n] /\ task'[n] = task[n]
        /\ task' = [n \in Clerks |-> task'[n]]
    BY <1>1, TakenAt
  <2>2. details[c] \in Details
    BY DEF AdminTypeOK
  <2>3. QED
    BY <1>1, <2>1, <2>2 DEF DeskInv
<1>4. GoOn
  BY <1>2, <1>3 DEF GoOn
<1>5. Listed' = Listed
  BY <1>2 DEF Listed
<1>6. AdminTypeOK'
  BY <1>1, <1>2, <1>5 DEF AdminTypeOK, Take, At
<1>7. DeskInv'
  BY <1>2, <1>3, <1>5 DEF DeskInv
<1>8. QED
  BY <1>2, <1>4, <1>5, <1>6, <1>7, FewerDistances, StandardsStay

LEMMA SaveCompetitionStep ==
    ASSUME AdminInv, UNCHANGED vars, NEW m \in Clerks, SaveCompetition(m)
    PROVE  AdminInv'
<1> USE DEF AdminInv
<1>1. /\ UNCHANGED <<distances, standards, task, seen, rivals, competitions>>
      /\ desk[m] = "save" /\ desk' = [desk EXCEPT ![m] = "done"]
  BY DEF SaveCompetition, At, vars, tables
<1>2. Listed' = Listed /\ GoOn
  BY <1>1 DEF Listed, GoOn, AdminTypeOK
<1>3. details' \in [Competitions -> Details]
  <2>1. Saved(m) \in Details
    BY <1>1 DEF Saved, Details, DeskInv
  <2>2. [Saved(m) EXCEPT !["processed"] = None] \in Details
    BY <2>1 DEF Details
  <2>3. QED
    BY <2>1, <2>2 DEF SaveCompetition, AdminTypeOK
<1>4. AdminTypeOK'
  BY <1>1, <1>2, <1>3 DEF AdminTypeOK
<1>5. DeskInv'
  BY <1>1, <1>2 DEF DeskInv, AdminTypeOK
<1>6. QED
  BY <1>1, <1>2, <1>4, <1>5, FewerDistances, StandardsStay

LEMMA FailStep ==
    ASSUME AdminInv, UNCHANGED vars, NEW m \in Clerks, FailClerk(m)
    PROVE  AdminInv'
<1> USE DEF AdminInv
<1>1. /\ UNCHANGED <<details, distances, standards, task, seen, rivals, competitions>>
      /\ desk[m] \in {"save", "insert", "reorder", "remove", "standard"}
      /\ desk' = [desk EXCEPT ![m] = "failed"]
  BY DEF FailClerk, At, vars, tables
<1>2. Listed' = Listed /\ GoOn
  BY <1>1 DEF Listed, GoOn, AdminTypeOK
<1>3. AdminTypeOK' /\ DeskInv'
  BY <1>1, <1>2 DEF AdminTypeOK, DeskInv
<1>4. QED
  BY <1>1, <1>2, <1>3, FewerDistances, StandardsStay

\* A handler begins, and takes distances away or none.
LEMMA BeginStep ==
    ASSUME AdminInv, UNCHANGED vars, NEW m \in Clerks, NEW w, NEW l, Take(m, w, l),
           l \in {"insert", "remove", "reorder", "done", "refused", "failed"},
           l = "insert" => w.distances = {}, l = "reorder" => seen'[m] = w.distances,
           seen' = [seen EXCEPT ![m] = seen'[m]],
           distances' \in [Distances -> Distance \cup {None}],
           \A d \in Listed' : d \in Listed /\ distances'[d] = distances[d],
           UNCHANGED <<details, standards, rivals>>
    PROVE  AdminInv'
<1> USE DEF AdminInv
<1>1. /\ desk[m] = "idle" /\ desk'[m] = l /\ task'[m] = w
      /\ \A n \in Clerks \ {m} : desk'[n] = desk[n] /\ task'[n] = task[n] /\ seen'[n] = seen[n]
      /\ task' = [n \in Clerks |-> task'[n]] /\ seen' = [n \in Clerks |-> seen'[n]]
  BY TakenAt DEF DeskInv
<1>2. GoOn
  BY <1>1 DEF GoOn
<1>3. AdminTypeOK'
  BY DEF AdminTypeOK, Take, At, vars, tables
<1>4. DeskInv'
  BY <1>1 DEF DeskInv
<1>5. QED
  BY <1>2, <1>3, <1>4, FewerDistances, StandardsStay

LEMMA StartDistanceStep ==
    ASSUME AdminInv, UNCHANGED vars, NEW m \in Clerks, StartDistance(m)
    PROVE  AdminInv'
<1>1. PICK c \in Competitions :
         Take(m, Work("create", c), IF c \in competitions THEN "insert" ELSE "refused")
  BY DEF StartDistance
<1>2. UNCHANGED <<details, distances, standards, seen, rivals>>
  BY DEF StartDistance
<1>3. /\ seen' = [seen EXCEPT ![m] = seen'[m]] /\ distances' \in [Distances -> Distance \cup {None}]
      /\ \A d \in Listed' : d \in Listed /\ distances'[d] = distances[d]
  BY <1>2 DEF AdminInv, DeskInv, AdminTypeOK, Listed
<1>4. Work("create", c).distances = {}
  BY DEF Work
<1>5. CASE c \in competitions
  <2>1. Take(m, Work("create", c), "insert")
    BY <1>1, <1>5
  <2>2. QED
    BY <1>2, <1>3, <1>4, <2>1, BeginStep
<1>6. CASE c \notin competitions
  <2>1. Take(m, Work("create", c), "refused")
    BY <1>1, <1>6
  <2>2. QED
    BY <1>2, <1>3, <2>1, BeginStep
<1>7. QED
  BY <1>5, <1>6

LEMMA ReadDistancesStep ==
    ASSUME AdminInv, UNCHANGED vars, NEW m \in Clerks, ReadDistances(m)
    PROVE  AdminInv'
<1>1. UNCHANGED <<details, distances, standards, rivals>>
  BY DEF ReadDistances
<1>2. /\ distances' \in [Distances -> Distance \cup {None}]
      /\ \A d \in Listed' : d \in Listed /\ distances'[d] = distances[d]
  BY <1>1 DEF AdminInv, AdminTypeOK, Listed
<1>3. ASSUME NEW c \in Competitions, NEW D \in SUBSET Listed,
             Take(m, [Work("reorder", c) EXCEPT !.distances = D], "reorder"),
             seen' = [seen EXCEPT ![m] = D]
      PROVE  AdminInv'
  <2>1. seen'[m] = D /\ [Work("reorder", c) EXCEPT !.distances = D].distances = D
    BY <1>3 DEF AdminInv, DeskInv, Work
  <2>2. QED
    BY <1>1, <1>2, <1>3, <2>1, BeginStep
<1>4. ASSUME Take(m, Work("reorder", None), "refused"), UNCHANGED seen
      PROVE  AdminInv'
  <2>1. seen' = [seen EXCEPT ![m] = seen'[m]]
    BY <1>4 DEF AdminInv, DeskInv
  <2>2. QED
    BY <1>1, <1>2, <1>4, <2>1, BeginStep
<1>5. QED
  BY <1>3, <1>4 DEF ReadDistances

LEMMA ReadDistanceStep ==
    ASSUME AdminInv, UNCHANGED vars, NEW m \in Clerks, ReadDistance(m)
    PROVE  AdminInv'
<1>1. UNCHANGED <<details, distances, standards, seen, rivals>>
  BY DEF ReadDistance
<1>2. /\ seen' = [seen EXCEPT ![m] = seen'[m]] /\ distances' \in [Distances -> Distance \cup {None}]
      /\ \A d \in Listed' : d \in Listed /\ distances'[d] = distances[d]
  BY <1>1 DEF AdminInv, DeskInv, AdminTypeOK, Listed
<1>3. ASSUME NEW w, NEW l \in {"remove", "failed", "refused"}, Take(m, w, l)
      PROVE  AdminInv'
  BY <1>1, <1>2, <1>3, BeginStep
<1>4. QED
  BY <1>3 DEF ReadDistance

LEMMA ClearDistancesStep ==
    ASSUME AdminInv, UNCHANGED vars, NEW m \in Clerks, ClearDistances(m)
    PROVE  AdminInv'
<1>1. PICK c \in Competitions :
         /\ Take(m, Work("clear", c), "done")
         /\ distances' = [d \in Distances |-> IF d \in Listed /\ distances[d].competition = c
                                              THEN None ELSE distances[d]]
  BY DEF ClearDistances
<1>2. UNCHANGED <<details, standards, seen, rivals>>
  BY DEF ClearDistances
<1>3. /\ seen' = [seen EXCEPT ![m] = seen'[m]] /\ distances' \in [Distances -> Distance \cup {None}]
      /\ \A d \in Listed' : d \in Listed /\ distances'[d] = distances[d]
  BY <1>1, <1>2 DEF AdminInv, DeskInv, AdminTypeOK, Listed
<1>4. QED
  BY <1>1, <1>2, <1>3, BeginStep

LEMMA RemoveDistanceStep ==
    ASSUME AdminInv, UNCHANGED vars, NEW m \in Clerks, RemoveDistance(m)
    PROVE  AdminInv'
<1> USE DEF AdminInv
<1>1. /\ UNCHANGED <<details, standards, task, seen, rivals, competitions>>
      /\ desk[m] = "remove" /\ desk' = [desk EXCEPT ![m] = "refused"]
      /\ distances' = [d \in Distances |-> IF d \in task[m].distances THEN None ELSE distances[d]]
  BY DEF RemoveDistance, At, vars, tables
<1>2. /\ GoOn /\ distances' \in [Distances -> Distance \cup {None}]
      /\ \A d \in Listed' : d \in Listed /\ distances'[d] = distances[d]
  BY <1>1 DEF Listed, GoOn, AdminTypeOK
<1>3. AdminTypeOK'
  BY <1>1, <1>2 DEF AdminTypeOK
<1>4. DeskInv'
  BY <1>1, <1>2 DEF DeskInv, AdminTypeOK
<1>5. QED
  BY <1>2, <1>3, <1>4, FewerDistances, StandardsStay

\* A new distance was named by no request.
LEMMA InsertDistanceStep ==
    ASSUME AdminInv, TypeOK, UNCHANGED vars, NEW m \in Clerks, InsertDistance(m)
    PROVE  AdminInv'
<1> USE DEF AdminInv
<1>1. /\ UNCHANGED <<details, standards, task, seen, rivals, competitions>>
      /\ desk[m] = "insert" /\ task[m].distances = {}
      /\ \/ desk' = [desk EXCEPT ![m] = "done"] \/ desk' = [desk EXCEPT ![m] = "failed"]
  BY DEF InsertDistance, At, vars, tables, DeskInv
<1>2. GoOn
  BY <1>1 DEF GoOn, AdminTypeOK
<1>3. CASE UNCHANGED distances
  <2>1. Listed' = Listed
    BY <1>3 DEF Listed
  <2>2. AdminTypeOK' /\ DeskInv'
    BY <1>1, <1>3, <2>1 DEF AdminTypeOK, DeskInv
  <2>3. QED
    BY <1>2, <1>3, <2>1, <2>2, FewerDistances, StandardsStay
<1>4. CASE /\ task[m].competition \in competitions
           /\ distances' = [distances EXCEPT ![m] = [competition |-> task[m].competition, order |-> m]]
  <2> DEFINE new == [competition |-> task[m].competition, order |-> m]
  <2>1. new \in Distance /\ m \in Distances
    BY <1>4 DEF TypeOK, Distance, Distances
  <2>2. /\ distances' \in [Distances -> Distance \cup {None}]
        /\ distances'[m] = new /\ Listed' \subseteq Listed \cup {m}
        /\ \A d \in Listed' \ {m} : distances'[d] = distances[d]
    BY <1>4, <2>1 DEF AdminTypeOK, Listed
  <2>3. AdminTypeOK' /\ DeskInv'
    <3>1. AdminTypeOK'
      BY <1>1, <1>4, <2>2 DEF AdminTypeOK
    <3>2. DeskInv'
      BY <1>1, <2>2 DEF DeskInv, AdminTypeOK
    <3>3. QED
      BY <3>1, <3>2
  <2>4. OrdersTogether'
    <3>1. ASSUME NEW d \in Listed', NEW e \in Listed',
                 distances'[d].order # None, distances'[e].order # None,
                 distances'[d].order # distances'[e].order
          PROVE  ~ /\ {d, e} \subseteq task[distances'[d].order].distances
                   /\ {d, e} \subseteq task[distances'[e].order].distances
      BY <1>1, <2>2, <3>1 DEF OrdersTogether
    <3>2. QED
      BY <1>1, <3>1 DEF OrdersTogether
  <2>5. QED
    BY <1>2, <2>3, <2>4, StandardsStay
<1>5. QED
  BY <1>3, <1>4 DEF InsertDistance

\* One statement: of what a request names, all that is left has its order afterwards.
LEMMA ReorderStep ==
    ASSUME AdminInv, UNCHANGED vars, NEW m \in Clerks, Reorder(m)
    PROVE  AdminInv'
<1> USE DEF AdminInv
<1>1. /\ UNCHANGED <<details, standards, task, seen, rivals, competitions>>
      /\ desk[m] = "reorder" /\ desk' = [desk EXCEPT ![m] = "done"]
      /\ seen[m] = task[m].distances
  BY DEF Reorder, At, vars, tables, DeskInv
<1>2. GoOn
  BY <1>1 DEF GoOn, AdminTypeOK
<1>3. /\ distances' \in [Distances -> Distance \cup {None}]
      /\ Listed' \subseteq Listed
      /\ \A d \in Listed' : /\ distances'[d].competition = distances[d].competition
                            /\ distances'[d].order = IF d \in task[m].distances THEN m
                                                     ELSE distances[d].order
  <2>1. distances' = [d \in Distances |-> IF d \in task[m].distances \cap Listed
                                          THEN [distances[d] EXCEPT !.order = m] ELSE distances[d]]
    BY <1>1 DEF Reorder, Placed
  <2>2. \A d \in Listed : /\ [distances[d] EXCEPT !.order = m] \in Distance
                          /\ [distances[d] EXCEPT !.order = m].order = m
                          /\ [distances[d] EXCEPT !.order = m].competition = distances[d].competition
    BY DistanceFields DEF Distance
  <2>3. QED
    BY <2>1, <2>2 DEF AdminTypeOK, Listed
<1>4. AdminTypeOK'
  BY <1>1, <1>3 DEF AdminTypeOK
<1>5. DeskInv'
  BY <1>1, <1>3 DEF DeskInv, AdminTypeOK
<1>6. OrdersTogether'
  BY <1>1, <1>3 DEF OrdersTogether
<1>7. QED
  BY <1>2, <1>4, <1>5, <1>6, StandardsStay

\* An active standard by its fields.
LEMMA ActiveRow ==
    ASSUME NEW row \in Standard, NEW k
    PROVE  row = [kind |-> k, active |-> TRUE] <=> row.kind = k /\ row.active
<1>1. row = [kind |-> row.kind, active |-> row.active] /\ row.active \in BOOLEAN
  BY DEF Standard
<1>2. QED
  BY <1>1

LEMMA ActiveFields ==
    ASSUME standards \in [Clerks -> Standard \cup {None}], NEW k, NEW n
    PROVE  n \in Active(k) <=>
              n \in Clerks /\ standards[n] # None /\ standards[n].kind = k /\ standards[n].active
BY ActiveRow DEF Active

\* Whoever retires has nothing left of the kind to have rivals in.
LEMMA RetireStep ==
    ASSUME AdminInv, UNCHANGED vars, NEW m \in Clerks, RetireStandards(m)
    PROVE  AdminInv'
<1> USE DEF AdminInv
<1>1. PICK k \in Kinds, active \in BOOLEAN :
         /\ Take(m, [Work("standard", None) EXCEPT !.kind = k, !.active = active], "standard")
         /\ standards' = [n \in Clerks |-> IF n \in Active(k)
                                           THEN [standards[n] EXCEPT !.active = FALSE] ELSE standards[n]]
  BY DEF RetireStandards
<1>2. UNCHANGED <<details, distances, seen, rivals, competitions>>
  BY DEF RetireStandards, vars, tables
<1> DEFINE w == [Work("standard", None) EXCEPT !.kind = k, !.active = active]
<1>3. /\ desk[m] = "idle" /\ desk'[m] = "standard" /\ task'[m] = w
      /\ \A n \in Clerks \ {m} : desk'[n] = desk[n] /\ task'[n] = task[n]
      /\ task' = [n \in Clerks |-> task'[n]]
  BY <1>1, TakenAt
<1>4. w.does = "standard" /\ w.kind = k /\ w.active = active /\ w.distances = {}
  BY DEF Work
<1> HIDE DEF w
<1>5. Listed' = Listed
  BY <1>2 DEF Listed
<1>6. /\ standards' \in [Clerks -> Standard \cup {None}]
      /\ \A n \in Clerks : /\ standards'[n] # None <=> standards[n] # None
                           /\ standards[n] # None => standards'[n].kind = standards[n].kind
      /\ Active(k)' = {} /\ \A j \in Kinds : Active(j)' \subseteq Active(j)
      /\ \A j \in Kinds \ {k} : Active(j)' = Active(j)
  <2>1. \A n \in Active(k) : standards[n] \in Standard
    BY ActiveFields DEF AdminTypeOK
  <2>2. \A n \in Active(k) : /\ standards'[n] \in Standard /\ ~standards'[n].active
                             /\ standards'[n].kind = standards[n].kind
    <3>1. \A row \in Standard : /\ [row EXCEPT !.active = FALSE] \in Standard
                                /\ ~[row EXCEPT !.active = FALSE].active
                                /\ [row EXCEPT !.active = FALSE].kind = row.kind
      BY DEF Standard
    <3>2. \A n \in Active(k) : n \in Clerks /\ standards'[n] = [standards[n] EXCEPT !.active = FALSE]
      BY <1>1 DEF Active
    <3>3. QED
      BY <2>1, <3>1, <3>2
  <2>3. \A n \in Clerks \ Active(k) : standards'[n] = standards[n]
    BY <1>1
  <2>4. standards' \in [Clerks -> Standard \cup {None}]
    BY <1>1, <2>2, <2>3 DEF AdminTypeOK
  <2>5. None \notin Standard
    BY ClerksAssumption
  <2>6. \A n \in Clerks : /\ standards'[n] # None <=> standards[n] # None
                          /\ standards[n] # None => standards'[n].kind = standards[n].kind
    <3>1. \A n \in Active(k) : standards'[n] # None /\ standards[n] # None
      BY <2>1, <2>2, <2>5
    <3>2. QED
      BY <2>2, <2>3, <3>1
  <2>7. \A j, n : n \in Active(j)' <=> /\ n \in Clerks /\ standards'[n] # None
                                       /\ standards'[n].kind = j /\ standards'[n].active
    <3>1. \A n \in Clerks : standards'[n] # None => standards'[n] \in Standard
      BY <2>4
    <3>2. QED
      BY <3>1, ActiveRow DEF Active
  <2>8. \A j, n : n \in Active(j) <=> /\ n \in Clerks /\ standards[n] # None
                                      /\ standards[n].kind = j /\ standards[n].active
    BY ActiveFields DEF AdminTypeOK
  <2>9. \A j, n : n \in Active(j)' <=> n \in Active(j) /\ n \notin Active(k)
    <3>1. \A j, n : n \in Active(j)' => n \notin Active(k)
      BY <2>2, <2>7
    <3>2. \A j, n : n \notin Active(k) => (n \in Active(j)' <=> n \in Active(j))
      BY <2>3, <2>7, <2>8
    <3>3. QED
      BY <3>1, <3>2
  <2>10. \A j \in Kinds \ {k} : \A n \in Active(j) : n \notin Active(k)
    BY <2>8
  <2>11. Active(k)' = {}
    BY <2>9
  <2>12. \A j \in Kinds \ {k} : Active(j)' = Active(j)
    <3>1. ASSUME NEW j \in Kinds \ {k} PROVE \A n : n \in Active(j)' <=> n \in Active(j)
      BY <2>9, <2>10
    <3>2. QED
      BY <3>1
  <2>13. \A j \in Kinds : Active(j)' \subseteq Active(j)
    BY <2>9
  <2>14. QED
    BY <2>4, <2>6, <2>11, <2>12, <2>13
<1>7. AdminTypeOK'
  BY <1>1, <1>2, <1>5, <1>6 DEF AdminTypeOK, Take, At
<1>8. DeskInv'
  BY <1>2, <1>3, <1>4, <1>5, <1>6 DEF DeskInv
<1>9. RivalsInv'
  <2>1. ASSUME NEW n \in Clerks, desk'[n] = "standard" PROVE Active(task[n].kind)' \subseteq rivals'[n]
    <3>1. CASE n = m
      BY <1>3, <1>4, <1>6, <3>1
    <3>2. CASE n # m
      <4>1. task'[n].kind \in Kinds /\ task'[n] = task[n] /\ desk[n] = "standard"
        BY <1>3, <2>1, <3>2 DEF DeskInv
      <4>2. QED
        BY <1>2, <1>6, <4>1 DEF RivalsInv
    <3>3. QED
      BY <3>1, <3>2
  <2>2. QED
    BY <2>1 DEF RivalsInv
<1>10. OrdersTogether'
  <2>1. ASSUME NEW d \in Listed, distances[d].order # None
        PROVE  task'[distances[d].order] = task[distances[d].order]
    BY <1>3, <2>1, DistanceFields DEF DeskInv
  <2>2. QED
    BY <1>2, <1>5, <2>1 DEF OrdersTogether
<1>11. StandardsExplained'
  <2>1. ASSUME NEW j \in Kinds, NEW a \in Active(j)', NEW b \in Active(j)', a # b
        PROVE  a \in rivals'[b] \/ b \in rivals'[a]
    BY <1>2, <1>6, <2>1 DEF StandardsExplained
  <2>2. ASSUME NEW a \in Clerks, standards'[a] # None, task'[a].active, Active(task[a].kind)' = {}
        PROVE  \E n \in Clerks \ {a} :
                  /\ desk'[n] # "idle" /\ task'[n].does = "standard" /\ task'[n].kind = task'[a].kind
                  /\ desk'[n] \in {"standard", "failed"} \/ ~task'[n].active
    <3>1. standards[a] # None /\ desk[a] = "done" /\ a # m /\ task'[a] = task[a]
      BY <1>3, <1>6, <2>2 DEF DeskInv
    <3>2. CASE task[a].kind = k
      BY <1>3, <1>4, <3>1, <3>2
    <3>3. CASE task[a].kind # k
      <4>1. task[a].kind \in Kinds
        BY <3>1 DEF DeskInv, AdminTypeOK, Standard
      <4>2. Active(task[a].kind) = {}
        BY <1>6, <2>2, <3>1, <3>3, <4>1
      <4>3. PICK n \in Clerks \ {a} :
               /\ desk[n] # "idle" /\ task[n].does = "standard" /\ task[n].kind = task[a].kind
               /\ desk[n] \in {"standard", "failed"} \/ ~task[n].active
        BY <2>2, <3>1, <4>2 DEF StandardsExplained
      <4>4. n # m /\ task'[n] = task[n] /\ desk'[n] = desk[n]
        BY <1>3, <4>3
      <4>5. QED
        BY <3>1, <4>3, <4>4
    <3>4. QED
      BY <3>2, <3>3
  <2>3. QED
    BY <2>1, <2>2 DEF StandardsExplained
<1>12. QED
  BY <1>7, <1>8, <1>9, <1>10, <1>11

\* The rivals of the other requests of the kind grow by whoever creates.
LEMMA CreateStep ==
    ASSUME AdminInv, UNCHANGED vars, NEW m \in Clerks, CreateStandard(m)
    PROVE  AdminInv'
<1> USE DEF AdminInv
<1> DEFINE k == task[m].kind
<1>1. /\ UNCHANGED <<details, distances, task, seen, competitions>>
      /\ desk[m] = "standard" /\ desk' = [desk EXCEPT ![m] = "done"]
      /\ k \in Kinds /\ task[m].active \in BOOLEAN /\ task[m].does = "standard"
  BY DEF CreateStandard, At, vars, tables, DeskInv
<1>2. Listed' = Listed
  BY <1>1 DEF Listed
<1>3. /\ standards' \in [Clerks -> Standard \cup {None}]
      /\ standards'[m] \in Standard /\ standards'[m].kind = k /\ standards'[m].active = task[m].active
      /\ \A n \in Clerks \ {m} : standards'[n] = standards[n]
  <2>1. [kind |-> k, active |-> task[m].active] \in Standard
    BY <1>1 DEF Standard
  <2>2. QED
    BY <2>1 DEF CreateStandard, AdminTypeOK
<1>4. /\ rivals' \in [Clerks -> SUBSET Clerks]
      /\ \A n \in Clerks : rivals[n] \subseteq rivals'[n]
      /\ \A n \in Clerks \ {m} : desk[n] = "standard" /\ task[n].kind = k => m \in rivals'[n]
  BY DEF CreateStandard, AdminTypeOK
<1>5. standards[m] = None
  BY <1>1 DEF DeskInv
<1>6. /\ \A j : \A n \in Active(j)' : n # m => n \in Active(j)
      /\ \A j : \A n \in Active(j) : n \in Active(j)'
      /\ \A j : m \in Active(j)' <=> j = k /\ task[m].active
  <2>1. \A j, n : n \in Active(j) => n \in Clerks /\ n # m
    BY <1>5 DEF Active
  <2>2. \A j, n : n \in Clerks \ {m} => (n \in Active(j)' <=> n \in Active(j))
    BY <1>3 DEF Active
  <2>3. None \notin Standard
    BY ClerksAssumption
  <2>4. \A j : m \in Active(j)' <=> j = k /\ task[m].active
    BY <1>3, <2>3, ActiveRow DEF Active
  <2>5. \A j, n : n \in Active(j)' => n \in Clerks
    BY DEF Active
  <2>6. QED
    BY <2>1, <2>2, <2>4, <2>5
<1> HIDE DEF k
<1>7. AdminTypeOK'
  BY <1>1, <1>2, <1>3, <1>4 DEF AdminTypeOK
<1>8. DeskInv'
  BY <1>1, <1>2, <1>3 DEF DeskInv, AdminTypeOK, k
<1>9. RivalsInv'
  <2>1. ASSUME NEW n \in Clerks, desk'[n] = "standard", NEW a \in Active(task[n].kind)'
        PROVE  a \in rivals'[n]
    <3>1. n # m /\ desk[n] = "standard"
      BY <1>1, <2>1 DEF AdminTypeOK
    <3>2. CASE a = m
      <4>1. task'[n].kind = k
        BY <1>3, <2>1, <3>2, ActiveRow DEF Active
      <4>2. QED
        BY <1>1, <1>4, <3>1, <3>2, <4>1
    <3>3. CASE a # m
      <4>1. a \in Active(task[n].kind)
        BY <1>1, <1>6, <2>1, <3>3
      <4>2. QED
        BY <1>4, <3>1, <4>1 DEF RivalsInv
    <3>4. QED
      BY <3>2, <3>3
  <2>2. QED
    BY <2>1 DEF RivalsInv
<1>10. OrdersTogether'
  BY <1>1, <1>2 DEF OrdersTogether
<1>11. StandardsExplained'
  <2>1. ASSUME NEW j \in Kinds, NEW a \in Active(j)', NEW b \in Active(j)', a # b
        PROVE  a \in rivals'[b] \/ b \in rivals'[a]
    <3>1. a \in Clerks /\ b \in Clerks
      BY DEF Active
    <3>2. CASE a # m /\ b # m
      BY <1>4, <1>6, <2>1, <3>1, <3>2 DEF StandardsExplained
    <3>3. CASE a = m
      BY <1>1, <1>4, <1>6, <2>1, <3>1, <3>3 DEF RivalsInv, k
    <3>4. CASE b = m
      BY <1>1, <1>4, <1>6, <2>1, <3>1, <3>4 DEF RivalsInv, k
    <3>5. QED
      BY <3>2, <3>3, <3>4
  <2>2. ASSUME NEW a \in Clerks, standards'[a] # None, task'[a].active, Active(task[a].kind)' = {}
        PROVE  \E n \in Clerks \ {a} :
                  /\ desk'[n] # "idle" /\ task'[n].does = "standard" /\ task'[n].kind = task'[a].kind
                  /\ desk'[n] \in {"standard", "failed"} \/ ~task'[n].active
    <3>1. Active(task[a].kind) = {} /\ (task[a].kind = k => ~task[m].active)
      BY <1>1, <1>6, <2>2
    <3>2. a # m
      BY <1>1, <2>2, <3>1 DEF k
    <3>3. standards[a] # None
      BY <1>3, <2>2, <3>2
    <3>4. PICK n \in Clerks \ {a} :
             /\ desk[n] # "idle" /\ task[n].does = "standard" /\ task[n].kind = task[a].kind
             /\ desk[n] \in {"standard", "failed"} \/ ~task[n].active
      BY <1>1, <2>2, <3>1, <3>3 DEF StandardsExplained
    <3>5. CASE n # m
      BY <1>1, <3>4, <3>5 DEF AdminTypeOK
    <3>6. CASE n = m
      BY <1>1, <3>1, <3>4, <3>6 DEF AdminTypeOK, k
    <3>7. QED
      BY <3>5, <3>6
  <2>3. QED
    BY <2>1, <2>2 DEF StandardsExplained
<1>12. QED
  BY <1>7, <1>8, <1>9, <1>10, <1>11

-----------------------------------------------------------------------------
(* The invariant and the theorems.                                         *)

LEMMA InitAdmin == AllInit => AdminInv
<1> SUFFICES ASSUME AllInit PROVE AdminInv
  OBVIOUS
<1> USE DEF AllInit, AdminInit
<1>1. PICK at \in [First -> Competitions] :
         distances = [d \in Distances |-> IF d \in First THEN [competition |-> at[d], order |-> None]
                                          ELSE None]
  OBVIOUS
<1>2. \A d \in First : [competition |-> at[d], order |-> None] \in Distance
  BY DEF Distance
<1>3. /\ distances \in [Distances -> Distance \cup {None}]
      /\ \A d \in Listed : distances[d].order = None /\ distances[d].competition \in Competitions
  <2>1. \A d \in Listed : d \in First /\ d \in Distances
    BY <1>1 DEF Listed
  <2>2. QED
    BY <1>1, <1>2, <2>1 DEF Distances
<1>4. competitions = Competitions
  BY DEF Init
<1>5. AdminTypeOK
  BY <1>3, <1>4 DEF AdminTypeOK, Details
<1>6. DeskInv
  BY <1>3, ClerksAssumption DEF DeskInv
<1>7. RivalsInv /\ OrdersTogether
  BY <1>3 DEF RivalsInv, OrdersTogether
<1>8. StandardsExplained
  <2>1. \A k : Active(k) = {}
    BY DEF Active
  <2>2. QED
    BY <2>1 DEF StandardsExplained
<1>9. QED
  BY <1>5, <1>6, <1>7, <1>8 DEF AdminInv

LEMMA AdminStep ==
    ASSUME AdminInv, TypeOK, TypeOK', [AllNext]_allVars
    PROVE  AdminInv'
<1>1. CASE Next /\ Cascade /\ UNCHANGED <<details, standards, desk, task, seen, rivals>>
  BY <1>1, RequestStep
<1>2. CASE ClerkNext /\ UNCHANGED vars
  BY <1>2, ReadCompetitionStep, SaveCompetitionStep, FailStep, StartDistanceStep, InsertDistanceStep,
     ReadDistancesStep, ReorderStep, ReadDistanceStep, RemoveDistanceStep, ClearDistancesStep,
     RetireStep, CreateStep DEF ClerkNext
<1>3. CASE UNCHANGED allVars
  <2>1. UNCHANGED <<details, distances, standards, desk, task, seen, rivals, competitions>>
    BY <1>3 DEF allVars, adminVars, vars, tables
  <2>2. Listed' = Listed /\ \A k : Active(k)' = Active(k)
    BY <2>1 DEF Listed, Active
  <2>3. AdminTypeOK' /\ OrdersTogether' /\ RivalsInv'
    BY <2>1, <2>2 DEF AdminInv, AdminTypeOK, OrdersTogether, RivalsInv
  <2>4. DeskInv'
    BY <2>1, <2>2 DEF AdminInv, DeskInv
  <2>5. StandardsExplained'
    BY <2>1, <2>2 DEF AdminInv, StandardsExplained
  <2>6. QED
    BY <2>3, <2>4, <2>5 DEF AdminInv
<1>4. QED
  BY <1>1, <1>2, <1>3 DEF AllNext

\* Whatever any number of clerks and requests do: references hold, the orders of two
\* requests never mix over the distances that both name, and each pair of active
\* standards, and each kind without one, has its cause (bulk_update_distances,
\* create_standard).
THEOREM RowsAgreeTheorem == AllSpec => []RowsAgree
<1>1. AllInit => AdminInv
  BY InitAdmin
<1>2. AdminInv /\ TypeOK /\ TypeOK' /\ [AllNext]_allVars => AdminInv'
  BY AdminStep
<1>3. AdminInv /\ TypeOK => RowsAgree
  BY DEF AdminInv, RowsAgree
<1>4. AllSpec => []TypeOK
  BY Implements, TypeCorrectness, PTL
<1>5. QED
  BY <1>1, <1>2, <1>3, <1>4, PTL DEF AllSpec

\* A column of a competition is changed by who is to change it, or by a whole-row save of
\* one who read it before somebody else did (update_competition, mark_processed).
THEOREM EditsTheorem == AllSpec => EditsKept
<1>1. ASSUME AdminInv, [AllNext]_allVars, NEW c \in Competitions, NEW f \in Columns,
             details'[c][f] # details[c][f]
      PROVE  \E m \in Clerks : /\ desk[m] = "save" /\ task[m].competition = c
                               /\ f \in Own(task[m].does) \/ seen[m][f] # details[c][f]
  <2>1. details' # details
    BY <1>1
  <2>2. PICK m \in Clerks : SaveCompetition(m)
    BY <1>1, <2>1 DEF AllNext, ClerkNext, allVars, adminVars, ReadCompetition, StartDistance,
       InsertDistance, ReadDistances, Reorder, ReadDistance, RemoveDistance, ClearDistances,
       RetireStandards, CreateStandard, FailClerk
  <2>3. desk[m] = "save" /\ c = task[m].competition
    BY <1>1, <2>1, <2>2 DEF SaveCompetition, AdminInv, AdminTypeOK
  <2>4. f \in Own(task[m].does) \/ details'[c][f] = seen[m][f]
    <3>1. CASE details' = [details EXCEPT ![task[m].competition] = Saved(m)]
      BY <1>1, <2>3, <3>1 DEF Saved, AdminInv, AdminTypeOK
    <3>2. CASE /\ task[m].does = "edit"
               /\ details' = [details EXCEPT ![task[m].competition] =
                                 [Saved(m) EXCEPT !["processed"] = None]]
      BY <3>2 DEF Own
    <3>3. QED
      BY <2>1, <2>2, <3>1, <3>2 DEF SaveCompetition
  <2>5. QED
    BY <1>1, <2>3, <2>4
<1>2. AdminInv /\ [AllNext]_allVars =>
         [\A c \in Competitions, f \in Columns : details'[c][f] # details[c][f] =>
             \E m \in Clerks :
                /\ desk[m] = "save" /\ task[m].competition = c
                /\ f \in Own(task[m].does) \/ seen[m][f] # details[c][f]]_allVars
  BY <1>1
<1>3. AllInit => AdminInv
  BY InitAdmin
<1>4. AdminInv /\ TypeOK /\ TypeOK' /\ [AllNext]_allVars => AdminInv'
  BY AdminStep
<1>5. AllSpec => []TypeOK
  BY Implements, TypeCorrectness, PTL
<1>6. QED
  BY <1>2, <1>3, <1>4, <1>5, PTL DEF AllSpec, EditsKept
=============================================================================

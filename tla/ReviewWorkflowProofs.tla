------------------------ MODULE ReviewWorkflowProofs ------------------------
(***************************************************************************)
(* What holds of a review session for every set of requests, sources and   *)
(* athletes, however the handlers interleave and fail.                     *)
(*                                                                         *)
(* The invariants come in layers: what a handler holds in its locals       *)
(* (LocalInv), the rows and their references (TypeOK), and over these what *)
(* uploads rest on (ReviewedInv), completion (ClosedInv, NotLostInv), the  *)
(* athletes that decisions create (FreshInv) and the log                   *)
(* (ResolutionLogged).                                                     *)
(***************************************************************************)
EXTENDS ReviewWorkflow, TLAPS

-----------------------------------------------------------------------------
(* The locals of a handler.                                                *)

\* A handler about to write a row holds that row and the source it is for.  A
\* load never holds a resolved row; the row of a decision names an athlete
\* exactly if it is resolved.
LocalOK(label, f) ==
    /\ label \in Labels
    /\ f \in Frames
    /\ Len(f.todo) <= MaxItems
    /\ label \in {"write", "enrich", "save", "log"} => f.todo # <<>> /\ f.chosen \in Items
    /\ label = "write" => f.chosen.status \notin Closed
    /\ label \in {"enrich", "save", "log"} =>
          (f.chosen.status \in Resolved <=> f.chosen.selected # None)

LocalInv ==
    /\ pc \in [Requests -> Labels]
    /\ frame \in [Requests -> Frames]
    /\ \A r \in Requests : LocalOK(pc[r], frame[r])

\* A step of one request that leaves its locals in order leaves all in order.
LEMMA LocalUpdate ==
    ASSUME LocalInv, NEW r \in Requests, NEW L, NEW F, LocalOK(L, F),
           pc' = [pc EXCEPT ![r] = L], frame' = [frame EXCEPT ![r] = F]
    PROVE  LocalInv'
BY DEF LocalInv, LocalOK

\* Blanks and values of decisions and edits are fillings.
LEMMA Fillings ==
    ASSUME NEW r \in Requests
    PROVE  /\ Blank \in Filling
           /\ \A given : FilledBy(r, given) \in Filling
           /\ \A old \in Filling : Enriched(r, old) \in Filling
BY DEF Blank, FilledBy, Enriched, Filling

\* A handler that ends, or has counted, has no locals.
LEMMA LocalFinish ==
    ASSUME LocalInv, NEW r \in Requests, NEW L \in Final \cup {"complete"}, Finish(r, L)
    PROVE  LocalInv'
<1>1. EmptyFrame \in Frames /\ EmptyFrame.todo = <<>>
  BY DEF EmptyFrame, Frames, Blank, Filling
<1>2. LocalOK(L, EmptyFrame)
  BY <1>1, PayloadsAssumption DEF LocalOK, Labels, Final
<1>3. QED
  BY <1>2, LocalUpdate DEF Finish, Goto

\* A request that starts takes a payload.
LEMMA LocalBegin ==
    ASSUME LocalInv, NEW r \in Requests, NEW L \in {"source", "decision"},
           NEW p \in Payloads, NEW k \in SUBSET Sources, NEW w \in {"new", "active", "completed"},
           NEW F, F = [frame[r] EXCEPT !.todo = p, !.known = k, !.saw = w],
           pc' = [pc EXCEPT ![r] = L], frame' = [frame EXCEPT ![r] = F]
    PROVE  LocalInv'
<1>1. p \in Seq(Sources) /\ Len(p) <= MaxItems
  BY PayloadsAssumption
<1>2. F \in Frames /\ F.todo = p
  BY <1>1 DEF LocalInv, Frames
<1>3. LocalOK(L, F)
  BY <1>1, <1>2 DEF LocalOK, Labels, Final
<1>4. QED
  BY <1>3, LocalUpdate

\* A request that has chosen a row is about to write it.
LEMMA LocalChoose ==
    ASSUME LocalInv, NEW r \in Requests, Todo(r) # <<>>,
           NEW L \in {"write", "enrich", "save"},
           NEW F \in Frames, F.todo = Todo(r), F.chosen \in Items,
           L = "write" => F.chosen.status \notin Closed,
           L # "write" => (F.chosen.status \in Resolved <=> F.chosen.selected # None),
           pc' = [pc EXCEPT ![r] = L], frame' = [frame EXCEPT ![r] = F]
    PROVE  LocalInv'
<1>1. Len(Todo(r)) <= MaxItems
  BY DEF LocalInv, LocalOK, Todo
<1>2. LocalOK(L, F)
  BY <1>1 DEF LocalOK, Labels, Final
<1>3. QED
  BY <1>2, LocalUpdate

\* A request that goes on with its list drops the source it was at.
LEMMA LocalNext ==
    ASSUME LocalInv, NEW r \in Requests, Todo(r) # <<>>, NEW L \in {"source", "decision"},
           NEW F \in Frames, F.todo = Tail(Todo(r)),
           pc' = [pc EXCEPT ![r] = L], frame' = [frame EXCEPT ![r] = F]
    PROVE  LocalInv'
<1>1. Todo(r) \in Seq(Sources) /\ Len(Todo(r)) <= MaxItems
  BY DEF LocalInv, LocalOK, Frames, Todo
<1>2. Len(Tail(Todo(r))) <= MaxItems
  BY <1>1, PayloadsAssumption
<1>3. LocalOK(L, F)
  BY <1>2 DEF LocalOK, Labels, Final
<1>4. QED
  BY <1>3, LocalUpdate

\* The source a request is at.
LEMMA CurrentSource ==
    ASSUME LocalInv, NEW r \in Requests, Todo(r) # <<>>
    PROVE  Current(r) \in Sources
<1>1. Todo(r) \in Seq(Sources)
  BY DEF LocalInv, Frames, Todo
<1>2. QED
  BY <1>1 DEF Todo, Current

LEMMA LocalStep ==
    ASSUME TypeOK, LocalInv, Next
    PROVE  LocalInv'
<1> USE DEF Goto
<1>f. ASSUME NEW r \in Requests
      PROVE  /\ frame[r] \in Frames
             /\ frame[r].known \in SUBSET Sources
             /\ frame[r].candidate \in Filling /\ frame[r].patch \in SUBSET Fields
             /\ frame[r].saw \in {"new", "active", "completed"}
             /\ frame[r].chosen \in Items \cup {None}
  BY DEF LocalInv, Frames
<1>g. ASSUME NEW r \in Requests, pc[r] \in {"write", "enrich", "save", "log"}
      PROVE  Todo(r) # <<>> /\ Chosen(r) \in Items
  BY <1>g DEF LocalInv, LocalOK, Todo, Chosen
<1>s. session \in {"new", "active", "completed"} /\ athletes \subseteq AthleteIds
      /\ filled \in [AthleteIds -> Filling]
  BY DEF TypeOK
<1>b. Blank \in Filling
  BY DEF Blank, Filling
<1>1. ASSUME NEW r \in Requests, StartLoad(r) PROVE LocalInv'
  <2>1. PICK p \in Payloads : frame' = [frame EXCEPT ![r].todo = p, ![r].saw = session]
    BY <1>1 DEF StartLoad
  <2> DEFINE F == [frame[r] EXCEPT !.todo = p, !.known = frame[r].known, !.saw = session]
  <2>2. frame' = [frame EXCEPT ![r] = F]
    BY <2>1, <1>f DEF LocalInv, Frames
  <2>3. QED
    BY <1>1, <1>f, <1>s, <2>2, LocalBegin DEF StartLoad
<1>2. ASSUME NEW r \in Requests, Resolve(r) PROVE LocalInv'
  <2>1. PICK row \in {Item("auto_match_candidate", a) : a \in athletes}
                        \cup {Item("needs_manual_review", None)} :
           frame' = [frame EXCEPT ![r].chosen = row,
                                  ![r].known = {s \in {Current(r)} : items[s] # None}]
    BY <1>2 DEF Resolve
  <2>2. row \in Items /\ row.status \notin Closed
    BY <1>s DEF Items, Item, Statuses, Closed, Resolved
  <2> DEFINE k == {s \in {Current(r)} : items[s] # None}
  <2>3. k \in SUBSET Sources
    BY <1>2, CurrentSource DEF Resolve
  <2> DEFINE F == [frame[r] EXCEPT !.chosen = row, !.known = k]
  <2>4. frame' = [frame EXCEPT ![r] = F]
    BY <2>1, <1>f DEF LocalInv, Frames
  <2>5. F \in Frames /\ F.todo = Todo(r) /\ F.chosen = row
    BY <1>f, <2>2, <2>3 DEF Frames, Todo
  <2>6. QED
    BY <1>2, <2>2, <2>4, <2>5, LocalChoose DEF Resolve
<1>3. ASSUME NEW r \in Requests, WriteItem(r) PROVE LocalInv'
  <2> DEFINE F == [frame[r] EXCEPT !.todo = Tail(@), !.chosen = None, !.known = {}]
  <2>1. frame' = [frame EXCEPT ![r] = F]
    BY <1>3, <1>f DEF LocalInv, Frames, WriteItem
  <2>2. Todo(r) # <<>>
    BY <1>3, <1>g DEF WriteItem
  <2>3. Tail(Todo(r)) \in Seq(Sources)
    BY <1>f, <2>2 DEF Frames, Todo
  <2>4. F \in Frames /\ F.todo = Tail(Todo(r))
    BY <1>f, <2>3 DEF Frames, Todo
  <2>5. QED
    BY <1>3, <2>1, <2>2, <2>4, LocalNext DEF WriteItem
<1>4. ASSUME NEW r \in Requests, EndLoad(r) PROVE LocalInv'
  BY <1>4, LocalFinish DEF EndLoad, Final
<1>5. ASSUME NEW r \in Requests, StartApply(r) PROVE LocalInv'
  <2> DEFINE k == {s \in Sources : items[s] # None}
  <2>1. PICK p \in Payloads : frame' = [frame EXCEPT ![r].todo = p, ![r].known = k]
    BY <1>5 DEF StartApply
  <2> DEFINE F == [frame[r] EXCEPT !.todo = p, !.known = k, !.saw = frame[r].saw]
  <2>2. frame' = [frame EXCEPT ![r] = F]
    BY <2>1, <1>f DEF LocalInv, Frames
  <2>3. QED
    BY <1>5, <1>f, <2>2, LocalBegin DEF StartApply
<1>6. ASSUME NEW r \in Requests, NextDecision(r), Todo(r) # <<>> PROVE LocalInv'
  <2> DEFINE F == [frame[r] EXCEPT !.todo = Tail(@), !.chosen = None,
                              !.candidate = Blank, !.patch = {}]
  <2>1. frame' = [frame EXCEPT ![r] = F]
    BY <1>6, <1>f DEF LocalInv, Frames, NextDecision
  <2>2. Tail(Todo(r)) \in Seq(Sources)
    BY <1>6, <1>f DEF Frames, Todo
  <2>3. F \in Frames /\ F.todo = Tail(Todo(r))
    BY <1>f, <1>b, <2>2 DEF Frames, Todo
  <2>4. QED
    BY <1>6, <2>1, <2>3, LocalNext DEF NextDecision
<1>7. ASSUME NEW r \in Requests, NEW L \in {"save", "enrich"}, Deciding(r),
             NEW a \in AthleteIds \cup {None}, NEW status \in Statuses,
             status \in Resolved <=> a # None,
             NEW c \in Filling, NEW P \in SUBSET Fields,
             \/ frame' = [frame EXCEPT ![r].chosen = Item(status, a)]
             \/ frame' = [frame EXCEPT ![r].chosen = Item(status, a), ![r].candidate = c,
                                       ![r].patch = P],
             pc' = [pc EXCEPT ![r] = L]
      PROVE  LocalInv'
  <2>1. Item(status, a) \in Items /\ Item(status, a).status = status
                                  /\ Item(status, a).selected = a
    BY DEF Item, Items
  <2> DEFINE F == [frame[r] EXCEPT !.chosen = Item(status, a)]
             G == [frame[r] EXCEPT !.chosen = Item(status, a), !.candidate = c, !.patch = P]
  <2>2. frame' = [frame EXCEPT ![r] = F] \/ frame' = [frame EXCEPT ![r] = G]
    BY <1>7, <1>f DEF LocalInv, Frames
  <2>3. F \in Frames /\ F.todo = Todo(r) /\ F.chosen = Item(status, a)
    BY <1>f, <2>1 DEF Frames, Todo
  <2>4. G \in Frames /\ G.todo = Todo(r) /\ G.chosen = Item(status, a)
    BY <1>f, <2>1 DEF Frames, Todo
  <2>5. Todo(r) # <<>>
    BY <1>7 DEF Deciding
  <2> HIDE DEF F, G
  <2>6. ASSUME NEW H \in Frames, H.todo = Todo(r), H.chosen = Item(status, a),
               frame' = [frame EXCEPT ![r] = H]
        PROVE  LocalInv'
    <3>1. L \in {"write", "enrich", "save"} /\ L # "write"
      OBVIOUS
    <3>2. H.chosen \in Items /\ (H.chosen.status \in Resolved <=> H.chosen.selected # None)
      BY <1>7, <2>1, <2>6
    <3>3. QED
      BY <1>7, <2>5, <2>6, <3>1, <3>2, LocalChoose
  <2>7. QED
    BY <2>2, <2>3, <2>4, <2>6
<1>8. ASSUME NEW r \in Requests, MatchExisting(r) PROVE LocalInv'
  <2>1. PICK a \in athletes :
           frame' = [frame EXCEPT ![r].chosen = Item("matched_existing", a)]
    BY <1>8 DEF MatchExisting
  <2>2. a \in AthleteIds /\ a # None
    BY <1>s, NamesAssumption DEF AthleteIds
  <2>3. QED
    BY <1>8, <1>b, <2>1, <2>2, <1>7 DEF MatchExisting, Statuses, Closed, Resolved
<1>9. ASSUME NEW r \in Requests, EnrichExisting(r) PROVE LocalInv'
  <2>1. PICK a \in athletes, P \in Given \cup {{}} :
           /\ frame' = [frame EXCEPT ![r].chosen = Item("enrich_pending", a),
                                 ![r].candidate = IF P = {} THEN Blank ELSE filled[a],
                                 ![r].patch = P]
           /\ pc' = [pc EXCEPT ![r] = IF P = {} THEN "save" ELSE "enrich"]
    BY <1>9 DEF EnrichExisting
  <2>2. a \in AthleteIds /\ a # None
    BY <1>s, NamesAssumption DEF AthleteIds
  <2>3. (IF P = {} THEN Blank ELSE filled[a]) \in Filling /\ P \in SUBSET Fields
    BY <1>s, <1>b, <2>2, GivenAssumption
  <2>4. (IF P = {} THEN "save" ELSE "enrich") \in {"save", "enrich"}
    OBVIOUS
  <2>5. "enrich_pending" \in Statuses /\ "enrich_pending" \in Resolved /\ Deciding(r)
    BY <1>9 DEF EnrichExisting, Statuses, Closed, Resolved
  <2>6. QED
    BY <2>1, <2>2, <2>3, <2>4, <2>5, <1>7
<1>10. ASSUME NEW r \in Requests, SaveAthlete(r) PROVE LocalInv'
  <2> DEFINE F == [frame[r] EXCEPT !.candidate = Blank, !.patch = {}]
  <2>1. frame' = [frame EXCEPT ![r] = F]
    BY <1>10, <1>f DEF LocalInv, Frames, SaveAthlete
  <2>2. LocalOK("enrich", frame[r])
    BY <1>10 DEF SaveAthlete, LocalInv
  <2>3. F \in Frames /\ F.todo = frame[r].todo /\ F.chosen = frame[r].chosen
    BY <1>f, <1>b DEF Frames
  <2>4. LocalOK("save", F)
    BY <2>2, <2>3 DEF LocalOK, Labels, Final
  <2>5. QED
    BY <1>10, <2>1, <2>4, LocalUpdate DEF SaveAthlete
<1>11. ASSUME NEW r \in Requests, CreateNew(r) PROVE LocalInv'
  <2>1. Todo(r) \in Seq(Sources) /\ Todo(r) # <<>> /\ Len(Todo(r)) <= MaxItems
    BY <1>11 DEF LocalInv, LocalOK, Frames, Todo, CreateNew, Deciding
  <2>2. <<r, Len(Todo(r))>> \in AthleteIds /\ <<r, Len(Todo(r))>> # None
    BY <2>1, PayloadsAssumption, NamesAssumption DEF AthleteIds
  <2>3. QED
    <3>1. /\ Deciding(r) /\ pc' = [pc EXCEPT ![r] = "save"]
          /\ frame' = [frame EXCEPT ![r].chosen = Item("created_new", <<r, Len(Todo(r))>>)]
      BY <1>11 DEF CreateNew
    <3>2. "created_new" \in Statuses /\ "created_new" \in Resolved
      BY DEF Statuses, Closed, Resolved
    <3>3. QED
      BY <1>b, <2>2, <3>1, <3>2, <1>7
<1>12. ASSUME NEW r \in Requests, SkipOrDefer(r) PROVE LocalInv'
  <2>1. PICK status \in {"skipped", "needs_manual_review"} :
           frame' = [frame EXCEPT ![r].chosen = Item(status, None)]
    BY <1>12 DEF SkipOrDefer
  <2>2. status \in Statuses /\ status \notin Resolved
    BY DEF Statuses, Closed, Resolved
  <2>3. QED
    BY <1>12, <1>b, <2>1, <2>2, <1>7 DEF SkipOrDefer
<1>13. ASSUME NEW r \in Requests, SaveItem(r) PROVE LocalInv'
  <2>1. LocalOK("save", frame[r])
    BY <1>13 DEF SaveItem, LocalInv
  <2>2. LocalOK("log", frame[r])
    BY <2>1 DEF LocalOK, Labels
  <2>3. frame' = [frame EXCEPT ![r] = frame[r]]
    BY <1>13 DEF SaveItem, LocalInv
  <2>4. QED
    BY <1>13, <2>2, <2>3, LocalUpdate DEF SaveItem
<1>14. ASSUME NEW r \in Requests, LogDecision(r) PROVE LocalInv'
  BY <1>14, <1>6, <1>g DEF LogDecision
<1>15. ASSUME NEW r \in Requests, DecisionError(r) PROVE LocalInv'
  BY <1>15, <1>6 DEF DecisionError
<1>16. ASSUME NEW r \in Requests, Count(r) PROVE LocalInv'
  BY <1>16, LocalFinish DEF Count, Final
<1>17. ASSUME NEW r \in Requests, NEW L, UNCHANGED frame, pc' = [pc EXCEPT ![r] = L],
              L \in {"completed", "rows", "refused", "done"}
       PROVE  LocalInv'
  <2>1. frame' = [frame EXCEPT ![r] = frame[r]]
    BY <1>17 DEF LocalInv
  <2>2. LocalOK(L, frame[r])
    BY <1>17 DEF LocalInv, LocalOK, Labels, Final
  <2>3. QED
    BY <1>17, <2>1, <2>2, LocalUpdate
<1>18. ASSUME NEW r \in Requests,
              Complete(r) \/ StartUpload(r) \/ DeleteAthlete(r) \/ EditAthlete(r)
       PROVE  LocalInv'
  BY <1>18, <1>17 DEF Complete, StartUpload, DeleteAthlete, EditAthlete
<1>19. ASSUME NEW r \in Requests, NEW L \in {"athletes", "insert"},
              NEW R \in SUBSET (Sources \X AthleteIds),
              frame' = [frame EXCEPT ![r].rows = R], pc' = [pc EXCEPT ![r] = L]
       PROVE  LocalInv'
  <2> DEFINE F == [frame[r] EXCEPT !.rows = R]
  <2>1. frame' = [frame EXCEPT ![r] = F]
    BY <1>19, <1>f DEF LocalInv, Frames
  <2>2. F \in Frames /\ F.todo = frame[r].todo
    BY <1>f DEF Frames
  <2>3. LocalOK(L, F)
    BY <2>2 DEF LocalInv, LocalOK, Labels, Final
  <2>4. QED
    BY <1>19, <2>1, <2>3, LocalUpdate
<1>20. ASSUME NEW r \in Requests, CheckRows(r) PROVE LocalInv'
  <2>1. CASE Finish(r, "refused")
    BY <2>1, LocalFinish DEF Final
  <2>2. CASE /\ \E S \in SUBSET ResolvedRows \ {{}} :
                   frame' = [frame EXCEPT ![r].rows = {<<s, items[s].selected>> : s \in S}]
             /\ Goto(r, "athletes")
    <3>1. PICK S \in SUBSET ResolvedRows :
             frame' = [frame EXCEPT ![r].rows = {<<s, items[s].selected>> : s \in S}]
      BY <2>2
    <3>2. {<<s, items[s].selected>> : s \in S} \in SUBSET (Sources \X AthleteIds)
      BY DEF ResolvedRows, TypeOK, Items
    <3>3. QED
      BY <2>2, <3>1, <3>2, <1>19
  <2>3. QED
    BY <1>20, <2>1, <2>2 DEF CheckRows
<1>21. ASSUME NEW r \in Requests, ReadAthletes(r) PROVE LocalInv'
  <2>1. CASE Finish(r, "refused")
    BY <2>1, LocalFinish DEF Final
  <2>2. CASE /\ frame' = [frame EXCEPT ![r].rows = {row \in @ : row[2] \in athletes}]
             /\ Goto(r, "insert")
    <3>1. {row \in frame[r].rows : row[2] \in athletes} \in SUBSET (Sources \X AthleteIds)
      BY DEF LocalInv, Frames
    <3>2. QED
      BY <2>2, <3>1, <1>19
  <2>3. QED
    BY <1>21, <2>1, <2>2 DEF ReadAthletes
<1>22. ASSUME NEW r \in Requests, InsertResults(r) \/ Fail(r) PROVE LocalInv'
  BY <1>22, LocalFinish DEF InsertResults, Fail, Final
<1>23. QED
  BY <1>1, <1>2, <1>3, <1>4, <1>5, <1>8, <1>9, <1>10, <1>11, <1>12, <1>13, <1>14,
     <1>15, <1>16, <1>18, <1>20, <1>21, <1>22
  DEF Next, Load, Apply, Decide, Upload

-----------------------------------------------------------------------------
(* The rows and their references.                                          *)

\* The handlers that read only, up to their next statement.
Reading(r) ==
    \/ StartLoad(r) \/ Resolve(r) \/ StartApply(r) \/ MatchExisting(r) \/ EnrichExisting(r)
    \/ SkipOrDefer(r) \/ Count(r) \/ StartUpload(r) \/ CheckRows(r) \/ ReadAthletes(r) \/ Fail(r)

Kinds == {"none", "load", "apply", "upload", "delete", "edit"}

LEMMA ReadingKeeps ==
    ASSUME TypeOK, NEW r \in Requests, Reading(r)
    PROVE  UNCHANGED <<tables, errors, history>> /\ op' \in [Requests -> Kinds]
BY DEF Reading, StartLoad, Resolve, StartApply, MatchExisting, EnrichExisting, SkipOrDefer,
       Count, StartUpload, CheckRows, ReadAthletes, Fail, TypeOK, Kinds

\* What a handler about to write knows of the row it holds.
LEMMA ChosenRow ==
    ASSUME LocalInv, NEW r \in Requests, pc[r] \in {"write", "enrich", "save", "log"}
    PROVE  /\ Todo(r) # <<>> /\ Current(r) \in Sources /\ Chosen(r) \in Items
           /\ Chosen(r).status \in Statuses
           /\ Chosen(r).selected \in AthleteIds \cup {None}
           /\ pc[r] = "write" => Chosen(r).status \notin Closed
           /\ pc[r] # "write" => (Chosen(r).status \in Resolved <=> Chosen(r).selected # None)
<1>1. Todo(r) # <<>> /\ Chosen(r) \in Items
  BY DEF LocalInv, LocalOK, Todo, Chosen
<1>2. QED
  BY <1>1, CurrentSource DEF LocalInv, LocalOK, Items, Chosen

\* The athlete a decision creates.
LEMMA NewAthlete ==
    ASSUME LocalInv, NEW r \in Requests, CreateNew(r)
    PROVE  /\ Len(Todo(r)) \in 1 .. MaxItems
           /\ <<r, Len(Todo(r))>> \in AthleteIds
<1>1. Todo(r) \in Seq(Sources) /\ Todo(r) # <<>> /\ Len(Todo(r)) <= MaxItems
  BY DEF LocalInv, LocalOK, Frames, Todo, CreateNew, Deciding
<1>2. Len(Todo(r)) \in 1 .. MaxItems
  BY <1>1, PayloadsAssumption
<1>3. QED
  BY <1>2 DEF AthleteIds

LEMMA TypeStep ==
    ASSUME TypeOK, LocalInv, LocalInv', Next
    PROVE  TypeOK'
<1> DEFINE Rows == /\ session \in {"new", "active", "completed"}
                   /\ items \in [Sources -> Items \cup {None}]
                   /\ athletes \subseteq AthleteIds
                   /\ filled \in [AthleteIds -> Filling]
                   /\ log \subseteq Sources \X AthleteIds
                   /\ results \subseteq Requests \X (Sources \X AthleteIds)
                   /\ op \in [Requests -> Kinds]
                   /\ errors \in [Requests -> SUBSET Sources]
                   /\ sanctioned \subseteq Sources \X AthleteIds
                   /\ late \subseteq Sources
           References == /\ \A s \in Sources : items[s] # None => Exists(items[s])
                         /\ \A row \in results : row[2][2] \in athletes
<1>l. /\ pc' \in [Requests -> Labels]
      /\ frame' \in [Requests -> Frames]
      /\ \A r \in Requests : Len(frame'[r].todo) <= MaxItems
  BY DEF LocalInv, LocalOK
<1>t. Rows /\ References
  BY DEF TypeOK, Kinds
<1>1. ASSUME NEW r \in Requests, Reading(r) PROVE Rows' /\ References'
  BY <1>1, <1>t, ReadingKeeps DEF tables, history, Exists
<1>2. ASSUME NEW r \in Requests, WriteItem(r) PROVE Rows' /\ References'
  BY <1>2, <1>t, ChosenRow DEF WriteItem, Exists
<1>3. ASSUME NEW r \in Requests, EndLoad(r) PROVE Rows' /\ References'
  BY <1>3, <1>t DEF EndLoad, history, Exists
<1>4. ASSUME NEW r \in Requests, SaveAthlete(r) PROVE Rows' /\ References'
  <2>1. filled' \in [AthleteIds -> Filling]
    <3>1. \A a \in AthleteIds : Enriched(r, filled[a]) \in Filling
      BY <1>t, Fillings
    <3>2. QED
      BY <1>4, <1>t, <3>1 DEF SaveAthlete
  <2>2. QED
    BY <1>4, <1>t, <2>1, ChosenRow DEF SaveAthlete, history, Exists
<1>5. ASSUME NEW r \in Requests, CreateNew(r) PROVE Rows' /\ References'
  <2>1. filled' \in [AthleteIds -> Filling]
    <3>1. PICK given \in Given :
             filled' = [filled EXCEPT ![<<r, Len(Todo(r))>>] = FilledBy(r, given)]
      BY <1>5 DEF CreateNew
    <3>2. QED
      BY <1>t, <3>1, Fillings
  <2>2. QED
    BY <1>5, <1>t, <2>1, NewAthlete DEF CreateNew, history, Exists
<1>6. ASSUME NEW r \in Requests, SaveItem(r) PROVE Rows' /\ References'
  BY <1>6, <1>t, ChosenRow DEF SaveItem, Record, Exists
<1>7. ASSUME NEW r \in Requests, LogDecision(r) PROVE Rows' /\ References'
  BY <1>7, <1>t, ChosenRow DEF LogDecision, history, Exists
<1>8. ASSUME NEW r \in Requests, DecisionError(r) PROVE Rows' /\ References'
  BY <1>8, <1>t, CurrentSource DEF DecisionError, tables, history, Exists
<1>9. ASSUME NEW r \in Requests, Complete(r) PROVE Rows' /\ References'
  BY <1>9, <1>t DEF Complete, history, Exists
<1>10. ASSUME NEW r \in Requests, InsertResults(r) PROVE Rows' /\ References'
  BY <1>10, <1>t DEF InsertResults, history, Exists, LocalInv, Frames
<1>11. ASSUME NEW r \in Requests, DeleteAthlete(r) PROVE Rows' /\ References'
  <2>1. filled' \in [AthleteIds -> Filling]
    BY <1>11, <1>t, Fillings DEF DeleteAthlete
  <2>2. QED
    BY <1>11, <1>t, <2>1 DEF DeleteAthlete, history, Exists, Item, Items, Kinds
<1>12. ASSUME NEW r \in Requests, EditAthlete(r) PROVE Rows' /\ References'
  <2>1. filled' \in [AthleteIds -> Filling]
    BY <1>12, <1>t, Fillings DEF EditAthlete
  <2>2. QED
    BY <1>12, <1>t, <2>1 DEF EditAthlete, history, Exists, Kinds
<1>13. Rows' /\ References'
  BY <1>1, <1>2, <1>3, <1>4, <1>5, <1>6, <1>7, <1>8, <1>9, <1>10, <1>11, <1>12
  DEF Next, Load, Apply, Decide, Upload, Reading
<1>14. QED
  BY <1>l, <1>13 DEF TypeOK, Kinds

-----------------------------------------------------------------------------
(* What uploads rest on.                                                   *)

\* What is uploaded, about to be uploaded or open to upload was sanctioned.
ReviewedInv ==
    /\ \A row \in results : row[2] \in sanctioned
    /\ \A r \in Requests : frame[r].rows \subseteq sanctioned
    /\ \A s \in ResolvedRows : <<s, items[s].selected>> \in sanctioned

LEMMA ReviewedStep ==
    ASSUME TypeOK, LocalInv, LocalInv', ReviewedInv, Next
    PROVE  ReviewedInv'
<1>f. frame \in [Requests -> Frames] /\ frame' \in [Requests -> Frames]
  BY DEF LocalInv
<1>i. items \in [Sources -> Items \cup {None}]
  BY DEF TypeOK
<1>r. ASSUME NEW r \in Requests PROVE frame[r].rows \subseteq sanctioned
  BY DEF ReviewedInv
\* Steps that leave the rows to be uploaded alone, or drop them.
<1>w. ASSUME sanctioned \subseteq sanctioned', results' \subseteq results,
             \A r \in Requests : frame'[r].rows = frame[r].rows \/ frame'[r].rows = {},
             \A s \in ResolvedRows' : <<s, items'[s].selected>> \in sanctioned'
      PROVE  ReviewedInv'
  BY <1>w, <1>r DEF ReviewedInv
<1>u. ASSUME UNCHANGED items, sanctioned \subseteq sanctioned'
      PROVE  \A s \in ResolvedRows' : <<s, items'[s].selected>> \in sanctioned'
  BY <1>u DEF ReviewedInv, ResolvedRows
<1>e. EmptyFrame.rows = {}
  BY DEF EmptyFrame
<1>1. ASSUME NEW r \in Requests,
             \/ StartLoad(r) \/ Resolve(r) \/ StartApply(r) \/ MatchExisting(r)
             \/ EnrichExisting(r) \/ SkipOrDefer(r) \/ Count(r) \/ StartUpload(r) \/ Fail(r)
      PROVE  ReviewedInv'
  <2>1. UNCHANGED <<items, results, sanctioned>>
    BY <1>1, ReadingKeeps DEF Reading, tables, history
  <2>2. \A q \in Requests : frame'[q].rows = frame[q].rows \/ frame'[q].rows = {}
    <3>1. CASE StartLoad(r)
      BY <3>1, <1>f DEF StartLoad, Frames
    <3>2. CASE Resolve(r)
      <4>1. PICK row, k : frame' = [frame EXCEPT ![r].chosen = row, ![r].known = k]
        BY <3>2 DEF Resolve
      <4>2. QED
        BY <4>1, <1>f DEF Frames
    <3>3. CASE StartApply(r)
      <4>1. PICK p, k : frame' = [frame EXCEPT ![r].todo = p, ![r].known = k]
        BY <3>3 DEF StartApply
      <4>2. QED
        BY <4>1, <1>f DEF Frames
    <3>4. CASE MatchExisting(r)
      BY <3>4, <1>f DEF MatchExisting, Frames
    <3>5. CASE EnrichExisting(r)
      <4>1. PICK row, c, P : frame' = [frame EXCEPT ![r].chosen = row, ![r].candidate = c,
                                                   ![r].patch = P]
        BY <3>5 DEF EnrichExisting
      <4>2. QED
        BY <1>f, <4>1 DEF Frames
    <3>6. CASE SkipOrDefer(r)
      BY <3>6, <1>f DEF SkipOrDefer, Frames
    <3>7. CASE Count(r) \/ StartUpload(r) \/ Fail(r)
      BY <3>7, <1>f, <1>e DEF Count, StartUpload, Fail, Finish
    <3>8. QED
      BY <1>1, <3>1, <3>2, <3>3, <3>4, <3>5, <3>6, <3>7
  <2>3. QED
    BY <2>1, <2>2, <1>w, <1>u
<1>2. ASSUME NEW r \in Requests, CheckRows(r) PROVE ReviewedInv'
  <2>1. UNCHANGED <<items, results, sanctioned>>
    BY <1>2 DEF CheckRows, tables, history
  <2>2. CASE Finish(r, "refused")
    <3>1. \A q \in Requests : frame'[q].rows = frame[q].rows \/ frame'[q].rows = {}
      BY <2>2, <1>f, <1>e DEF Finish
    <3>2. QED
      BY <2>1, <3>1, <1>w, <1>u
  <2>3. CASE \E S \in SUBSET ResolvedRows \ {{}} :
                frame' = [frame EXCEPT ![r].rows = {<<s, items[s].selected>> : s \in S}]
    <3>1. PICK S \in SUBSET ResolvedRows :
             frame' = [frame EXCEPT ![r].rows = {<<s, items[s].selected>> : s \in S}]
      BY <2>3
    <3>2. {<<s, items[s].selected>> : s \in S} \subseteq sanctioned
      BY DEF ReviewedInv
    <3>3. \A q \in Requests : frame'[q].rows \subseteq sanctioned
      BY <3>1, <3>2, <1>f, <1>r DEF Frames
    <3>4. QED
      BY <2>1, <3>3, <1>u DEF ReviewedInv
  <2>4. QED
    BY <1>2, <2>2, <2>3 DEF CheckRows
<1>3. ASSUME NEW r \in Requests, ReadAthletes(r) PROVE ReviewedInv'
  <2>1. UNCHANGED <<items, results, sanctioned>>
    BY <1>3 DEF ReadAthletes, tables, history
  <2>2. \A q \in Requests : frame'[q].rows \subseteq frame[q].rows
    <3>1. CASE frame' = [frame EXCEPT ![r].rows = {row \in @ : row[2] \in athletes}]
      BY <3>1, <1>f DEF Frames
    <3>2. CASE Finish(r, "refused")
      BY <3>2, <1>f, <1>e DEF Finish
    <3>3. QED
      BY <1>3, <3>1, <3>2 DEF ReadAthletes
  <2>3. QED
    BY <2>1, <2>2, <1>r, <1>u DEF ReviewedInv
<1>4. ASSUME NEW r \in Requests, InsertResults(r) PROVE ReviewedInv'
  <2>1. UNCHANGED <<items, sanctioned>> /\ results' = results \cup ({r} \X frame[r].rows)
    BY <1>4 DEF InsertResults, history
  <2>2. \A q \in Requests : frame'[q].rows \subseteq sanctioned
    BY <1>4, <1>f, <1>e, <1>r DEF InsertResults, Finish
  <2>3. \A row \in results' : row[2] \in sanctioned
    BY <2>1, <1>r DEF ReviewedInv
  <2>4. QED
    BY <2>1, <2>2, <2>3, <1>u DEF ReviewedInv
<1>5. ASSUME NEW r \in Requests, WriteItem(r) PROVE ReviewedInv'
  <2>1. UNCHANGED <<results, sanctioned>> /\ items' = [items EXCEPT ![Current(r)] = Chosen(r)]
    BY <1>5 DEF WriteItem
  <2>2. \A q \in Requests : frame'[q].rows = frame[q].rows
    BY <1>5, <1>f DEF WriteItem, Frames
  <2>3. Chosen(r).status \notin Resolved /\ Current(r) \in Sources
    BY <1>5, ChosenRow DEF WriteItem, Closed
  <2>4. \A s \in ResolvedRows' : <<s, items'[s].selected>> \in sanctioned'
    BY <2>1, <2>3, <1>i DEF ReviewedInv, ResolvedRows
  <2>5. QED
    BY <2>1, <2>2, <2>4, <1>w
<1>6. ASSUME NEW r \in Requests, SaveItem(r) PROVE ReviewedInv'
  <2>1. UNCHANGED <<results, frame>> /\ items' = [items EXCEPT ![Current(r)] = Chosen(r)]
    BY <1>6 DEF SaveItem
  <2>2. sanctioned' = IF Chosen(r).status \in Resolved
                        THEN sanctioned \cup {<<Current(r), Chosen(r).selected>>} ELSE sanctioned
    BY <1>6 DEF SaveItem, Record
  <2>3. Current(r) \in Sources
    BY <1>6, ChosenRow DEF SaveItem
  <2>4. \A s \in ResolvedRows' : <<s, items'[s].selected>> \in sanctioned'
    BY <2>1, <2>2, <2>3, <1>i DEF ReviewedInv, ResolvedRows
  <2>5. QED
    BY <2>1, <2>2, <2>4, <1>w
<1>7. ASSUME NEW r \in Requests,
             EndLoad(r) \/ SaveAthlete(r) \/ CreateNew(r) \/ LogDecision(r) \/ DecisionError(r)
             \/ Complete(r) \/ EditAthlete(r)
      PROVE  ReviewedInv'
  <2>1. UNCHANGED <<items, results, sanctioned>>
    BY <1>7 DEF EndLoad, SaveAthlete, CreateNew, LogDecision, DecisionError, Complete,
                EditAthlete, tables, history
  <2>2. \A q \in Requests : frame'[q].rows = frame[q].rows \/ frame'[q].rows = {}
    <3>1. CASE EndLoad(r)
      BY <3>1, <1>f, <1>e DEF EndLoad, Finish
    <3>2. CASE SaveAthlete(r)
      BY <3>2, <1>f DEF SaveAthlete, Frames
    <3>3. CASE CreateNew(r)
      BY <3>3, <1>f DEF CreateNew, Frames
    <3>4. ASSUME NextDecision(r)
          PROVE  \A q \in Requests : frame'[q].rows = frame[q].rows
      BY <3>4, <1>f DEF NextDecision, Frames
    <3>5. CASE LogDecision(r) \/ DecisionError(r)
      BY <3>4, <3>5 DEF LogDecision, DecisionError
    <3>6. CASE Complete(r) \/ EditAthlete(r)
      BY <3>6 DEF Complete, EditAthlete
    <3>7. QED
      BY <1>7, <3>1, <3>2, <3>3, <3>5, <3>6
  <2>3. QED
    BY <2>1, <2>2, <1>w, <1>u
<1>8. ASSUME NEW r \in Requests, DeleteAthlete(r) PROVE ReviewedInv'
  <2>1. PICK a \in athletes :
          /\ items' = [s \in Sources |-> IF items[s] # None /\ items[s].selected = a
                                           THEN Item(items[s].status, None) ELSE items[s]]
          /\ results' = {row \in results : row[2][2] # a}
    BY <1>8 DEF DeleteAthlete
  <2>2. UNCHANGED <<frame, sanctioned>>
    BY <1>8 DEF DeleteAthlete, history
  <2>3. \A s \in ResolvedRows' : <<s, items'[s].selected>> \in sanctioned'
    BY <2>1, <2>2, <1>i DEF ReviewedInv, ResolvedRows, Item
  <2>4. QED
    BY <2>1, <2>2, <2>3, <1>w
<1>9. QED
  BY <1>1, <1>2, <1>3, <1>4, <1>5, <1>6, <1>7, <1>8 DEF Next, Load, Apply, Decide, Upload

-----------------------------------------------------------------------------
(* Completion.                                                             *)

\* A completed session was completed by a request that had counted, and an item
\* that has been opened since that count is late.
Completed == \E r \in Requests : pc[r] = "completed"

ClosedInv ==
    /\ session = "completed" => Completed
    /\ Counted => \A s \in Sources : items[s] # None /\ items[s].status \notin Closed => s \in late

LEMMA ClosedStep ==
    ASSUME TypeOK, LocalInv, ClosedInv, Next
    PROVE  ClosedInv'
<1>i. items \in [Sources -> Items \cup {None}] /\ pc \in [Requests -> Labels]
  BY DEF TypeOK
\* A step in which no request starts or ceases to have counted.
<1>c. ASSUME NEW r \in Requests, NEW L, pc' = [pc EXCEPT ![r] = L],
             pc[r] \notin {"complete", "completed"}, L \notin {"complete", "completed"}
      PROVE  (Counted' <=> Counted) /\ (Completed' <=> Completed)
  BY <1>c, <1>i DEF Counted, Completed
<1>1. ASSUME NEW r \in Requests,
             \/ StartLoad(r) \/ Resolve(r) \/ StartApply(r) \/ MatchExisting(r)
             \/ EnrichExisting(r) \/ SkipOrDefer(r) \/ StartUpload(r) \/ CheckRows(r)
             \/ ReadAthletes(r) \/ SaveAthlete(r) \/ CreateNew(r) \/ LogDecision(r)
             \/ DecisionError(r) \/ EditAthlete(r) \/ InsertResults(r)
      PROVE  ClosedInv'
  <2>1. UNCHANGED <<session, items, late>>
    BY <1>1 DEF StartLoad, Resolve, StartApply, MatchExisting, EnrichExisting, SkipOrDefer,
       StartUpload, CheckRows, ReadAthletes, SaveAthlete, CreateNew, LogDecision, DecisionError,
       EditAthlete, InsertResults, tables, history
  <2>2. (Counted' <=> Counted) /\ (Completed' <=> Completed)
    <3>1. CASE StartLoad(r) \/ Resolve(r) \/ StartApply(r)
      <4>1. /\ pc[r] \in {"idle", "source"}
            /\ \E L \in {"source", "write", "decision"} : Goto(r, L)
        BY <3>1 DEF StartLoad, Resolve, StartApply
      <4>2. QED
        BY <4>1, <1>c DEF Goto
    <3>2. CASE MatchExisting(r) \/ EnrichExisting(r) \/ SkipOrDefer(r) \/ CreateNew(r)
      <4>1. pc[r] = "decision" /\ (Goto(r, "save") \/ Goto(r, "enrich"))
        BY <3>2 DEF MatchExisting, EnrichExisting, SkipOrDefer, CreateNew, Deciding, Goto
      <4>2. QED
        BY <4>1, <1>c DEF Goto
    <3>3. CASE StartUpload(r) \/ CheckRows(r) \/ ReadAthletes(r) \/ InsertResults(r)
      <4>1. /\ pc[r] \in {"idle", "rows", "athletes", "insert"}
            /\ \E L \in {"rows", "athletes", "insert", "refused", "done"} : Goto(r, L)
        BY <3>3 DEF StartUpload, CheckRows, ReadAthletes, InsertResults, Goto, Finish
      <4>2. QED
        BY <4>1, <1>c DEF Goto
    <3>4. CASE SaveAthlete(r) \/ LogDecision(r) \/ DecisionError(r) \/ EditAthlete(r)
      <4>1. /\ pc[r] \in {"idle", "decision", "enrich", "save", "log"}
            /\ \E L \in {"save", "decision", "done"} : Goto(r, L)
        BY <3>4 DEF SaveAthlete, LogDecision, DecisionError, EditAthlete, NextDecision, Goto
      <4>2. QED
        BY <4>1, <1>c DEF Goto
    <3>5. QED
      BY <1>1, <3>1, <3>2, <3>3, <3>4
  <2>3. QED
    BY <2>1, <2>2 DEF ClosedInv
<1>2. ASSUME NEW r \in Requests, WriteItem(r) PROVE ClosedInv'
  <2>1. (Counted' <=> Counted) /\ (Completed' <=> Completed)
    BY <1>2, <1>c DEF WriteItem, Goto
  <2>2. QED
    BY <1>2, <1>i, <2>1, ChosenRow DEF ClosedInv, WriteItem
<1>3. ASSUME NEW r \in Requests, SaveItem(r) PROVE ClosedInv'
  <2>1. (Counted' <=> Counted) /\ (Completed' <=> Completed)
    BY <1>3, <1>c DEF SaveItem, Goto
  <2>2. QED
    BY <1>3, <1>i, <2>1, ChosenRow DEF ClosedInv, SaveItem, Record
<1>4. ASSUME NEW r \in Requests, EndLoad(r) PROVE ClosedInv'
  <2>1. (Counted' <=> Counted) /\ (Completed' <=> Completed)
    BY <1>4, <1>c DEF EndLoad, Finish, Goto
  <2>2. QED
    BY <1>4, <2>1 DEF ClosedInv, EndLoad, history
<1>5. ASSUME NEW r \in Requests, Count(r) PROVE ClosedInv'
  <2>1. UNCHANGED <<session, items, late>>
    BY <1>5 DEF Count, tables, history
  <2>2. CASE NothingOpen
    <3>1. Completed => Completed'
      BY <1>5, <2>2, <1>i DEF Count, Finish, Goto, Completed
    <3>2. QED
      BY <2>1, <2>2, <3>1 DEF ClosedInv, NothingOpen
  <2>3. CASE ~NothingOpen
    <3>1. (Counted' <=> Counted) /\ (Completed' <=> Completed)
      <4>1. pc[r] = "decision" /\ Goto(r, "done")
        BY <1>5, <2>3 DEF Count, Finish
      <4>2. QED
        BY <4>1, <1>c DEF Goto
    <3>2. QED
      BY <2>1, <3>1 DEF ClosedInv
  <2>4. QED
    BY <2>2, <2>3
<1>6. ASSUME NEW r \in Requests, Complete(r) PROVE ClosedInv'
  <2>1. Counted /\ Completed'
    BY <1>6, <1>i DEF Complete, Goto, Counted, Completed
  <2>2. QED
    BY <1>6, <2>1 DEF ClosedInv, Complete, history
<1>7. ASSUME NEW r \in Requests, Fail(r) PROVE ClosedInv'
  <2>1. Completed => Completed'
    BY <1>7, <1>i DEF Fail, Finish, Goto, Final, Completed
  <2>2. Counted' => Counted
    BY <1>7, <1>i DEF Fail, Finish, Goto, Final, Counted
  <2>3. QED
    BY <1>7, <2>1, <2>2 DEF ClosedInv, Fail, tables, history
<1>8. ASSUME NEW r \in Requests, DeleteAthlete(r) PROVE ClosedInv'
  <2>1. (Counted' <=> Counted) /\ (Completed' <=> Completed)
    <3>1. pc[r] = "idle" /\ pc' = [pc EXCEPT ![r] = "done"]
      BY <1>8 DEF DeleteAthlete, Goto
    <3>2. QED
      BY <3>1, <1>c
  <2>2. \A s \in Sources : items'[s] # None =>
           items[s] # None /\ items'[s].status = items[s].status
    BY <1>8, <1>i DEF DeleteAthlete, Item
  <2>3. QED
    BY <1>8, <2>1, <2>2 DEF ClosedInv, DeleteAthlete, history
<1>9. QED
  BY <1>1, <1>2, <1>3, <1>4, <1>5, <1>6, <1>7, <1>8 DEF Next, Load, Apply, Decide, Upload

-----------------------------------------------------------------------------
(* The athletes that decisions create, and the log.                        *)

Step(r) == Load(r) \/ Apply(r) \/ Upload(r) \/ DeleteAthlete(r) \/ EditAthlete(r) \/ Fail(r)

\* Where NextDecision takes a request.
LEMMA Advance ==
    ASSUME LocalInv, NEW r \in Requests, Todo(r) # <<>>, NextDecision(r)
    PROVE  /\ pc'[r] = "decision" /\ Len(frame'[r].todo) = Len(Todo(r)) - 1
           /\ \A q \in Requests \ {r} : pc'[q] = pc[q] /\ frame'[q] = frame[q]
<1>1. frame[r].todo \in Seq(Sources) /\ frame[r].todo # <<>>
  BY DEF LocalInv, Frames, Todo
<1>2. Len(Tail(frame[r].todo)) = Len(frame[r].todo) - 1
  BY <1>1
<1>3. frame'[r].todo = Tail(frame[r].todo)
  BY DEF LocalInv, Frames, NextDecision
<1>4. QED
  BY <1>2, <1>3 DEF LocalInv, NextDecision, Goto, Todo

\* A step of one request leaves the others where they are and forgets nothing.
LEMMA OthersKeep ==
    ASSUME TypeOK, LocalInv, NEW r \in Requests, Step(r), NEW q \in Requests, q # r
    PROVE  /\ pc'[q] = pc[q] /\ frame'[q] = frame[q]
           /\ op'[q] = op[q] /\ errors'[q] = errors[q]
<1>t. /\ pc \in [Requests -> Labels] /\ frame \in [Requests -> Frames]
      /\ op \in [Requests -> Kinds] /\ errors \in [Requests -> SUBSET Sources]
  BY DEF TypeOK, Kinds
<1> USE <1>t DEF Goto, Finish
<1>1. CASE StartLoad(r)
  BY <1>1 DEF StartLoad
<1>2. CASE Resolve(r)
  BY <1>2 DEF Resolve
<1>3. CASE WriteItem(r)
  BY <1>3 DEF WriteItem
<1>4. CASE EndLoad(r)
  BY <1>4 DEF EndLoad
<1>5. CASE StartApply(r)
  BY <1>5 DEF StartApply
<1>6. CASE MatchExisting(r)
  BY <1>6 DEF MatchExisting
<1>7. CASE EnrichExisting(r)
  BY <1>7 DEF EnrichExisting
<1>8. CASE SaveAthlete(r)
  BY <1>8 DEF SaveAthlete
<1>9. CASE CreateNew(r)
  BY <1>9 DEF CreateNew
<1>10. CASE SkipOrDefer(r)
  BY <1>10 DEF SkipOrDefer
<1>11. CASE SaveItem(r)
  BY <1>11 DEF SaveItem
<1>12. CASE LogDecision(r)
  BY <1>12 DEF LogDecision, NextDecision
<1>13. CASE DecisionError(r)
  BY <1>13 DEF DecisionError, NextDecision
<1>14. CASE Count(r) \/ Complete(r)
  BY <1>14 DEF Count, Complete
<1>15. CASE StartUpload(r)
  BY <1>15 DEF StartUpload
<1>16. CASE CheckRows(r)
  BY <1>16 DEF CheckRows
<1>17. CASE ReadAthletes(r)
  BY <1>17 DEF ReadAthletes
<1>18. CASE InsertResults(r)
  BY <1>18 DEF InsertResults
<1>19. CASE DeleteAthlete(r)
  BY <1>19 DEF DeleteAthlete
<1>20. CASE EditAthlete(r) \/ Fail(r)
  BY <1>20 DEF EditAthlete, Fail
<1>21. QED
  BY <1>1, <1>2, <1>3, <1>4, <1>5, <1>6, <1>7, <1>8, <1>9, <1>10, <1>11, <1>12, <1>13,
     <1>14, <1>15, <1>16, <1>17, <1>18, <1>19, <1>20
  DEF Step, Load, Apply, Decide, Upload

\* Where a step takes the request itself.  Nothing starts twice, and nobody but
\* an application of decisions decides.
Deciders == {"decision", "enrich", "save", "log"}

LEMMA OwnStep ==
    ASSUME TypeOK, LocalInv, NEW r \in Requests, Step(r)
    PROVE  /\ pc'[r] # "idle"
           /\ pc[r] \notin Final
           /\ pc'[r] \in Deciders => op'[r] = "apply" \/ (pc[r] \in Deciders /\ op'[r] = op[r])
           /\ pc[r] \in Deciders => op'[r] = op[r]
<1>t. /\ pc \in [Requests -> Labels] /\ op \in [Requests -> Kinds]
  BY DEF TypeOK, Kinds
<1> USE <1>t DEF Goto, Finish, Final, Deciders
<1>1. CASE StartLoad(r) \/ StartApply(r) \/ StartUpload(r)
  BY <1>1 DEF StartLoad, StartApply, StartUpload
<1>2. CASE Resolve(r) \/ WriteItem(r)
  BY <1>2 DEF Resolve, WriteItem
<1>3. CASE EndLoad(r)
  BY <1>3 DEF EndLoad
<1>4. CASE MatchExisting(r) \/ EnrichExisting(r) \/ SkipOrDefer(r)
  BY <1>4 DEF MatchExisting, EnrichExisting, SkipOrDefer, Deciding
<1>5. CASE SaveAthlete(r) \/ CreateNew(r)
  BY <1>5 DEF SaveAthlete, CreateNew, Deciding
<1>6. CASE SaveItem(r) \/ LogDecision(r) \/ DecisionError(r)
  BY <1>6 DEF SaveItem, LogDecision, DecisionError, NextDecision
<1>7. CASE Count(r) \/ Complete(r)
  BY <1>7 DEF Count, Complete
<1>8. CASE CheckRows(r)
  BY <1>8 DEF CheckRows
<1>9. CASE ReadAthletes(r) \/ InsertResults(r)
  BY <1>9 DEF ReadAthletes, InsertResults
<1>10. CASE DeleteAthlete(r)
  <2>1. pc[r] = "idle" /\ Goto(r, "done")
    BY <1>10 DEF DeleteAthlete
  <2>2. QED
    BY <2>1
<1>11. CASE EditAthlete(r) \/ Fail(r)
  BY <1>11 DEF EditAthlete, Fail
<1>12. QED
  BY <1>1, <1>2, <1>3, <1>4, <1>5, <1>6, <1>7, <1>8, <1>9, <1>10, <1>11
  DEF Step, Load, Apply, Decide, Upload

\* A request creates athletes while it decides, each under a number it has not
\* reached before.
FreshInv ==
    \A r \in Requests, n \in 1 .. MaxItems :
        <<r, n>> \in athletes =>
            /\ pc[r] # "idle"
            /\ pc[r] = "decision" => n > Len(Todo(r))
            /\ pc[r] \in {"enrich", "save", "log"} => n >= Len(Todo(r))

LEMMA FreshStep ==
    ASSUME TypeOK, LocalInv, FreshInv, Next
    PROVE  FreshInv'
<1> SUFFICES ASSUME NEW q \in Requests, NEW n \in 1 .. MaxItems, <<q, n>> \in athletes'
             PROVE  /\ pc'[q] # "idle"
                    /\ pc'[q] = "decision" => n > Len(frame'[q].todo)
                    /\ pc'[q] \in {"enrich", "save", "log"} => n >= Len(frame'[q].todo)
  BY DEF FreshInv, Todo
<1>n. n \in Nat
  BY PayloadsAssumption
<1>l. ASSUME NEW r \in Requests PROVE Len(Todo(r)) \in Nat
  BY DEF LocalInv, Frames, Todo
<1>f. frame \in [Requests -> Frames] /\ pc \in [Requests -> Labels]
  BY DEF LocalInv
<1>p. PICK r \in Requests : Step(r)
  BY DEF Next, Step
<1>1. CASE q # r
  <2>1. <<q, n>> \in athletes
    <3>1. CASE CreateNew(r) \/ DeleteAthlete(r)
      BY <1>1, <3>1 DEF CreateNew, DeleteAthlete
    <3>2. CASE Load(r) \/ Upload(r) \/ EditAthlete(r) \/ Fail(r)
      BY <3>2 DEF Load, Upload, StartLoad, Resolve, WriteItem, EndLoad, StartUpload, CheckRows,
         ReadAthletes, InsertResults, EditAthlete, Fail, tables
    <3>3. CASE StartApply(r) \/ MatchExisting(r) \/ EnrichExisting(r) \/ SaveAthlete(r) \/ SkipOrDefer(r)
      BY <3>3 DEF StartApply, MatchExisting, EnrichExisting, SaveAthlete, SkipOrDefer, tables
    <3>4. CASE SaveItem(r) \/ LogDecision(r) \/ DecisionError(r) \/ Count(r) \/ Complete(r)
      BY <3>4 DEF SaveItem, LogDecision, DecisionError, Count, Complete, tables
    <3>5. QED
      BY <1>p, <3>1, <3>2, <3>3, <3>4 DEF Step, Apply, Decide
  <2>2. QED
    BY <1>1, <1>p, <2>1, OthersKeep DEF FreshInv, Todo
<1>2. CASE q = r
  <2>0. pc'[r] # "idle"
    BY <1>p, OwnStep
  <2>1. CASE StartLoad(r) \/ StartApply(r) \/ StartUpload(r)
    <3>1. <<q, n>> \in athletes /\ pc[r] = "idle"
      BY <2>1 DEF StartLoad, StartApply, StartUpload, tables
    <3>2. QED
      BY <1>2, <3>1 DEF FreshInv
  <2>2. CASE Resolve(r)
    BY <1>2, <1>f, <2>0, <2>2 DEF Resolve, Goto
  <2>3. CASE WriteItem(r) \/ EndLoad(r) \/ Count(r) \/ Complete(r)
    BY <1>2, <1>f, <2>0, <2>3 DEF WriteItem, EndLoad, Count, Complete, Goto, Finish
  <2>4. CASE CheckRows(r) \/ ReadAthletes(r) \/ InsertResults(r)
    BY <1>2, <1>f, <2>0, <2>4 DEF CheckRows, ReadAthletes, InsertResults, Goto, Finish
  <2>5. CASE EditAthlete(r) \/ Fail(r)
    BY <1>2, <1>f, <2>0, <2>5 DEF EditAthlete, Fail, Goto, Finish, Final
  <2>6. CASE DeleteAthlete(r)
    <3>1. pc' = [pc EXCEPT ![r] = "done"]
      BY <2>6 DEF DeleteAthlete, Goto
    <3>2. QED
      BY <1>2, <1>f, <2>0, <3>1
  <2>7. CASE MatchExisting(r)
    <3>1. UNCHANGED athletes /\ pc[r] = "decision" /\ frame'[r].todo = Todo(r)
      BY <2>7, <1>f DEF MatchExisting, Deciding, tables, Todo, Frames
    <3>2. QED
      BY <1>2, <1>n, <1>l, <1>f, <2>0, <2>7, <3>1 DEF FreshInv, MatchExisting, Goto
  <2>8. CASE EnrichExisting(r)
    <3>1. UNCHANGED athletes /\ pc[r] = "decision" /\ frame'[r].todo = Todo(r)
      <4>1. PICK row, c, P : frame' = [frame EXCEPT ![r].chosen = row, ![r].candidate = c,
                                                   ![r].patch = P]
        BY <2>8 DEF EnrichExisting
      <4>2. QED
        <5>1. frame'[r].todo = frame[r].todo
          BY <1>f, <4>1 DEF Frames
        <5>2. QED
          BY <2>8, <5>1 DEF EnrichExisting, Deciding, tables, Todo
    <3>2. pc'[r] \in {"enrich", "save"}
      BY <2>8, <1>f DEF EnrichExisting, Goto
    <3>3. QED
      BY <1>2, <1>n, <1>l, <2>0, <3>1, <3>2 DEF FreshInv
  <2>9. CASE SkipOrDefer(r)
    <3>1. UNCHANGED athletes /\ pc[r] = "decision" /\ frame'[r].todo = Todo(r)
      BY <2>9, <1>f DEF SkipOrDefer, Deciding, tables, Todo, Frames
    <3>2. QED
      BY <1>2, <1>n, <1>l, <1>f, <2>0, <2>9, <3>1 DEF FreshInv, SkipOrDefer, Goto
  <2>10. CASE SaveAthlete(r)
    <3>1. UNCHANGED athletes /\ pc[r] = "enrich" /\ frame'[r].todo = Todo(r)
      BY <2>10, <1>f DEF SaveAthlete, Todo, Frames
    <3>2. QED
      BY <1>2, <1>f, <2>0, <2>10, <3>1 DEF FreshInv, SaveAthlete, Goto
  <2>11. CASE CreateNew(r)
    <3>1. pc[r] = "decision" /\ frame'[r].todo = Todo(r) /\ pc'[r] = "save"
      BY <2>11, <1>f DEF CreateNew, Deciding, Todo, Frames, Goto
    <3>2. <<q, n>> \in athletes \/ n = Len(Todo(r))
      BY <1>2, <2>11 DEF CreateNew
    <3>3. QED
      BY <1>2, <1>n, <1>l, <2>0, <3>1, <3>2 DEF FreshInv
  <2>12. CASE SaveItem(r)
    <3>1. UNCHANGED <<athletes, frame>> /\ pc[r] = "save" /\ pc'[r] = "log"
      BY <2>12, <1>f DEF SaveItem, Goto
    <3>2. QED
      BY <1>2, <2>0, <3>1 DEF FreshInv, Todo
  <2>13. CASE LogDecision(r) \/ DecisionError(r)
    <3>1. UNCHANGED athletes /\ pc[r] \in Deciders /\ NextDecision(r)
      BY <2>13 DEF LogDecision, DecisionError, tables, Deciders
    <3>2. Todo(r) # <<>>
      BY <2>13, ChosenRow DEF LogDecision, DecisionError
    <3>3. pc'[r] = "decision" /\ Len(frame'[r].todo) = Len(Todo(r)) - 1
      BY <3>1, <3>2, Advance
    <3>4. n >= Len(Todo(r))
      BY <1>2, <1>n, <1>l, <3>1 DEF FreshInv, Deciders
    <3>5. QED
      BY <1>2, <1>n, <1>l, <2>0, <3>3, <3>4
  <2>14. QED
    BY <1>p, <2>1, <2>2, <2>3, <2>4, <2>5, <2>6, <2>7, <2>8, <2>9, <2>10, <2>11, <2>12, <2>13
    DEF Step, Load, Apply, Decide, Upload
<1>3. QED
  BY <1>1, <1>2

\* What a step leaves of the histories and of the errors.
LEMMA StepGrows ==
    ASSUME TypeOK, LocalInv, NEW r \in Requests, Step(r)
    PROVE  /\ sanctioned \subseteq sanctioned'
           /\ errors[r] \subseteq errors'[r]
           /\ ~CreateNew(r) => athletes' \subseteq athletes
<1>t. errors \in [Requests -> SUBSET Sources]
  BY DEF TypeOK
<1>1. CASE Reading(r)
  BY <1>1, ReadingKeeps DEF tables, history
<1>2. CASE WriteItem(r) \/ EndLoad(r) \/ SaveAthlete(r) \/ LogDecision(r) \/ Complete(r)
  BY <1>2 DEF WriteItem, EndLoad, SaveAthlete, LogDecision, Complete, history
<1>3. CASE CreateNew(r)
  BY <1>3 DEF CreateNew, history
<1>4. CASE SaveItem(r)
  BY <1>4 DEF SaveItem, Record
<1>5. CASE DecisionError(r)
  BY <1>5, <1>t DEF DecisionError, tables, history
<1>6. CASE InsertResults(r) \/ EditAthlete(r)
  BY <1>6 DEF InsertResults, EditAthlete, history
<1>7. CASE DeleteAthlete(r)
  BY <1>7 DEF DeleteAthlete, history
<1>8. QED
  BY <1>1, <1>2, <1>3, <1>4, <1>5, <1>6, <1>7
  DEF Step, Load, Apply, Decide, Upload, Reading

\* How a request leaves the statement that saves an item.
LEMMA LeaveSave ==
    ASSUME TypeOK, LocalInv, NEW r \in Requests, Step(r), pc[r] = "save"
    PROVE  \/ SaveItem(r)
           \/ DecisionError(r) /\ errors'[r] # {}
           \/ Fail(r) /\ pc'[r] = "failed"
<1>1. SaveItem(r) \/ DecisionError(r) \/ Fail(r)
  BY DEF Step, Load, Apply, Decide, Upload, StartLoad, Resolve, WriteItem, EndLoad,
     StartApply, MatchExisting, EnrichExisting, SaveAthlete, CreateNew, SkipOrDefer,
     LogDecision, Count, Complete, StartUpload, CheckRows, ReadAthletes,
     InsertResults, DeleteAthlete, EditAthlete, Deciding
<1>2. ASSUME DecisionError(r) PROVE errors'[r] # {}
  BY <1>2 DEF DecisionError, TypeOK
<1>3. ASSUME Fail(r) PROVE pc'[r] = "failed"
  BY <1>3 DEF Fail, Finish, Goto, TypeOK
<1>4. QED
  BY <1>1, <1>2, <1>3

LEMMA OrphanStep ==
    ASSUME TypeOK, LocalInv, NoSilentOrphan, Next
    PROVE  NoSilentOrphan'
<1> SUFFICES ASSUME NEW q \in Requests, NEW n \in 1 .. MaxItems, <<q, n>> \in athletes'
             PROVE  \/ \E s \in Sources : <<s, <<q, n>>>> \in sanctioned'
                    \/ pc'[q] = "save" /\ frame'[q].chosen.selected = <<q, n>>
                    \/ errors'[q] # {} \/ pc'[q] = "failed"
  BY DEF NoSilentOrphan, Chosen
<1>f. frame \in [Requests -> Frames] /\ pc \in [Requests -> Labels]
  BY DEF LocalInv
<1>p. PICK r \in Requests : Step(r)
  BY DEF Next, Step
<1>1. CASE <<q, n>> \notin athletes
  <2>1. CreateNew(r)
    BY <1>1, <1>p, StepGrows
  <2>2. <<q, n>> = <<r, Len(Todo(r))>>
    BY <1>1, <2>1 DEF CreateNew
  <2>3. pc'[r] = "save" /\ frame'[r].chosen = Item("created_new", <<r, Len(Todo(r))>>)
    BY <2>1, <1>f DEF CreateNew, Goto, Frames
  <2>4. QED
    BY <2>2, <2>3 DEF Item
<1>2. CASE <<q, n>> \in athletes
  <2>1. sanctioned \subseteq sanctioned' /\ errors[q] \subseteq errors'[q]
    BY <1>p, StepGrows, OthersKeep
  <2>2. CASE \E s \in Sources : <<s, <<q, n>>>> \in sanctioned
    BY <2>1, <2>2
  <2>3. CASE errors[q] # {}
    BY <2>1, <2>3
  <2>4. CASE pc[q] = "failed"
    BY <1>p, <2>4, OthersKeep, OwnStep DEF Final
  <2>5. CASE pc[q] = "save" /\ Chosen(q).selected = <<q, n>>
    <3>1. CASE q # r
      BY <1>p, <2>5, <3>1, OthersKeep DEF Chosen
    <3>2. CASE q = r
      <4>1. CASE SaveItem(r)
        <5>1. <<q, n>> # None
          BY NamesAssumption
        <5>2. Chosen(r).status \in Resolved /\ Current(r) \in Sources
          BY <2>5, <3>2, <5>1, ChosenRow
        <5>3. <<Current(r), <<q, n>>>> \in sanctioned'
          BY <2>5, <3>2, <4>1, <5>2 DEF SaveItem, Record
        <5>4. QED
          BY <5>2, <5>3
      <4>2. QED
        BY <1>p, <2>5, <3>2, <4>1, LeaveSave
    <3>3. QED
      BY <3>1, <3>2
  <2>6. QED
    BY <1>2, <2>2, <2>3, <2>4, <2>5 DEF NoSilentOrphan
<1>3. QED
  BY <1>1, <1>2

\* Only applications of decisions decide.
DeciderInv == \A r \in Requests : pc[r] \in Deciders => op[r] = "apply"

LEMMA DeciderStep ==
    ASSUME TypeOK, LocalInv, DeciderInv, Next
    PROVE  DeciderInv'
<1>1. PICK r \in Requests : Step(r)
  BY DEF Next, Step
<1>2. ASSUME NEW q \in Requests, pc'[q] \in Deciders PROVE op'[q] = "apply"
  <2>1. CASE q # r
    BY <1>1, <1>2, <2>1, OthersKeep DEF DeciderInv
  <2>2. CASE q = r
    BY <1>1, <1>2, <2>2, OwnStep DEF DeciderInv
  <2>3. QED
    BY <2>1, <2>2
<1>3. QED
  BY <1>2 DEF DeciderInv

\* Why a resolved item may not be in the log.
Explained(s, a) ==
    \/ <<s, a>> \in log
    \/ \E r \in Requests : \/ /\ pc[r] = "log"
                              /\ Current(r) = s /\ Chosen(r).selected = a
                           \/ s \in errors[r]
                           \/ op[r] = "apply" /\ pc[r] = "failed"

LEMMA ExplainedStep ==
    ASSUME TypeOK, LocalInv, DeciderInv, NEW r \in Requests, Step(r), ~DeleteAthlete(r),
           NEW s \in Sources, NEW a, a # None, Explained(s, a)
    PROVE  Explained(s, a)'
<1>f. frame \in [Requests -> Frames] /\ pc \in [Requests -> Labels]
  BY DEF LocalInv
<1>1. log \subseteq log'
  <2>1. CASE Reading(r)
    BY <2>1, ReadingKeeps DEF tables
  <2>2. CASE ~Reading(r)
    BY <2>2 DEF Step, Load, Apply, Decide, Upload, Reading, WriteItem, EndLoad, SaveAthlete,
       CreateNew, SaveItem, LogDecision, DecisionError, Complete, InsertResults, EditAthlete, tables
  <2>3. QED
    BY <2>1, <2>2
<1>2. CASE <<s, a>> \in log
  BY <1>1, <1>2 DEF Explained
<1>3. ASSUME NEW q \in Requests, s \in errors[q] PROVE Explained(s, a)'
  BY <1>3, OthersKeep, StepGrows DEF Explained
<1>4. ASSUME NEW q \in Requests, op[q] = "apply", pc[q] = "failed" PROVE Explained(s, a)'
  BY <1>4, OthersKeep, OwnStep DEF Explained, Final
<1>5. ASSUME NEW q \in Requests, pc[q] = "log", Current(q) = s, Chosen(q).selected = a
      PROVE  Explained(s, a)'
  <2>1. CASE q # r
    <3>1. pc'[q] = "log" /\ frame'[q] = frame[q]
      BY <1>5, <2>1, OthersKeep
    <3>2. QED
      BY <1>5, <3>1 DEF Explained, Current, Chosen, Todo
  <2>2. CASE q = r
    <3>1. LogDecision(r) \/ DecisionError(r) \/ Fail(r)
      BY <1>5, <2>2 DEF Step, Load, Apply, Decide, Upload, StartLoad, Resolve, WriteItem, EndLoad,
         StartApply, MatchExisting, EnrichExisting, SaveAthlete, CreateNew, SkipOrDefer,
         SaveItem, Count, Complete, StartUpload, CheckRows, ReadAthletes,
         InsertResults, DeleteAthlete, EditAthlete, Deciding
    <3>2. CASE LogDecision(r)
      <4>1. <<s, a>> \notin Sources \X {None}
        OBVIOUS
      <4>2. <<s, a>> \in log'
        BY <1>5, <2>2, <3>2, <4>1 DEF LogDecision
      <4>3. QED
        BY <4>2 DEF Explained
    <3>3. CASE DecisionError(r)
      <4>1. s \in errors'[r]
        BY <1>5, <2>2, <3>3 DEF DecisionError, TypeOK
      <4>2. QED
        BY <4>1 DEF Explained
    <3>4. CASE Fail(r)
      <4>1. op'[r] = "apply" /\ pc'[r] = "failed"
        BY <1>5, <2>2, <3>4, <1>f DEF Fail, Finish, Goto, DeciderInv, Deciders
      <4>2. QED
        BY <4>1 DEF Explained
    <3>5. QED
      BY <3>1, <3>2, <3>3, <3>4
  <2>3. QED
    BY <2>1, <2>2
<1>6. QED
  BY <1>2, <1>3, <1>4, <1>5 DEF Explained

LEMMA LoggedStep ==
    ASSUME TypeOK, LocalInv, DeciderInv, ResolutionLogged, Next
    PROVE  ResolutionLogged'
<1> SUFFICES ASSUME NEW s \in ResolvedRows'
             PROVE  Explained(s, items[s].selected)'
  BY DEF ResolutionLogged, Explained
<1>i. items \in [Sources -> Items \cup {None}] /\ s \in Sources
  BY DEF TypeOK, ResolvedRows
<1>f. frame \in [Requests -> Frames] /\ pc \in [Requests -> Labels]
  BY DEF LocalInv
<1>e. ASSUME s \in ResolvedRows PROVE Explained(s, items[s].selected)
  BY <1>e DEF ResolutionLogged, Explained
<1>p. PICK r \in Requests : Step(r)
  BY DEF Next, Step
<1>k. ASSUME items'[s] = items[s], ~DeleteAthlete(r) PROVE Explained(s, items[s].selected)'
  <2>1. s \in ResolvedRows /\ items[s].selected # None
    BY <1>k DEF ResolvedRows
  <2>2. PICK a : a = items[s].selected
    OBVIOUS
  <2>3. Explained(s, a) /\ a # None
    BY <2>1, <2>2, <1>e
  <2>4. Explained(s, a)'
    BY <1>p, <1>k, <1>i, <2>3, ExplainedStep
  <2>5. items'[s].selected = a
    BY <1>k, <2>2
  <2>6. QED
    BY <2>4, <2>5 DEF Explained
<1>1. CASE DeleteAthlete(r)
  <2>1. PICK a \in athletes :
          /\ items' = [t \in Sources |-> IF items[t] # None /\ items[t].selected = a
                                           THEN Item(items[t].status, None) ELSE items[t]]
          /\ log' = {row \in log : row[2] # a}
    BY <1>1 DEF DeleteAthlete
  <2>2. items'[s] = items[s] /\ items[s].selected # a /\ s \in ResolvedRows
    BY <2>1, <1>i DEF ResolvedRows, Item
  <2>3. pc[r] = "idle" /\ pc' = [pc EXCEPT ![r] = "done"] /\ op' = [op EXCEPT ![r] = "delete"]
        /\ UNCHANGED <<frame, errors>>
    BY <1>1 DEF DeleteAthlete, Goto
  <2>4. QED
    BY <1>f, <1>e, <2>1, <2>2, <2>3 DEF Explained, Current, Chosen, Todo, TypeOK
<1>2. CASE WriteItem(r)
  <2>1. items' = [items EXCEPT ![Current(r)] = Chosen(r)] /\ pc[r] = "write"
    BY <1>2 DEF WriteItem
  <2>2. Current(r) # s
    BY <2>1, <1>i, ChosenRow DEF ResolvedRows, Closed
  <2>3. items'[s] = items[s] /\ ~DeleteAthlete(r)
    BY <2>1, <2>2, <1>i DEF DeleteAthlete
  <2>4. QED
    BY <2>3, <1>k
<1>3. CASE SaveItem(r)
  <2>1. /\ items' = [items EXCEPT ![Current(r)] = Chosen(r)]
        /\ pc[r] = "save" /\ pc'[r] = "log" /\ UNCHANGED frame
    BY <1>3, <1>f DEF SaveItem, Goto
  <2>2. CASE Current(r) = s
    <3>1. items'[s] = Chosen(r)
      BY <2>1, <2>2, <1>i
    <3>2. QED
      BY <2>1, <2>2, <3>1 DEF Explained, Current, Chosen, Todo
  <2>3. CASE Current(r) # s
    <3>1. items'[s] = items[s] /\ ~DeleteAthlete(r)
      BY <2>1, <2>3, <1>i DEF DeleteAthlete
    <3>2. QED
      BY <3>1, <1>k
  <2>4. QED
    BY <2>2, <2>3
<1>4. CASE ~DeleteAthlete(r) /\ ~WriteItem(r) /\ ~SaveItem(r)
  <2>1. UNCHANGED items
    <3>1. CASE Reading(r)
      BY <3>1, ReadingKeeps DEF tables
    <3>2. CASE ~Reading(r)
      BY <1>p, <1>4, <3>2 DEF Step, Load, Apply, Decide, Upload, Reading, EndLoad, SaveAthlete,
         CreateNew, LogDecision, DecisionError, Complete, InsertResults, EditAthlete, tables
    <3>3. QED
      BY <3>1, <3>2
  <2>2. QED
    BY <2>1, <1>4, <1>k
<1>5. QED
  BY <1>1, <1>2, <1>3, <1>4

-----------------------------------------------------------------------------
(* Why the last count is not lost.                                         *)

\* Whoever closes the last open item has still to count, unless it dies, and the
\* count completes the session; from there only a load that began earlier takes it back.
Excused ==
    \/ session = "completed"
    \/ \E r \in Requests : \/ op[r] = "apply" /\ pc[r] \in Deciders \cup {"complete", "failed"}
                           \/ pc[r] = "reverted"

NotLostInv == (\E s \in Sources : items[s] # None) /\ NothingOpen => Excused

\* An excuse lasts while nothing is open.
LEMMA ExcuseStep ==
    ASSUME TypeOK, LocalInv, NothingOpen, Excused, NEW r \in Requests, Step(r)
    PROVE  Excused'
<1>t. pc \in [Requests -> Labels] /\ op \in [Requests -> Kinds]
  BY DEF TypeOK, Kinds
<1>1. CASE session = "completed"
  <2>1. CASE EndLoad(r)
    <3>1. session' = "completed" \/ pc'[r] = "reverted"
      BY <1>1, <1>t, <2>1 DEF EndLoad, Finish, Goto
    <3>2. QED
      BY <3>1 DEF Excused
  <2>2. CASE ~EndLoad(r)
    <3>1. session' = "completed"
      <4>1. CASE Reading(r)
        BY <1>1, <4>1, ReadingKeeps DEF tables
      <4>2. CASE ~Reading(r)
        BY <1>1, <2>2, <4>2 DEF Step, Load, Apply, Decide, Upload, Reading, WriteItem, SaveAthlete,
           CreateNew, SaveItem, LogDecision, DecisionError, Complete, InsertResults, DeleteAthlete,
           EditAthlete, tables
      <4>3. QED
        BY <4>1, <4>2
    <3>2. QED
      BY <3>1 DEF Excused
  <2>3. QED
    BY <2>1, <2>2
<1>2. ASSUME NEW q \in Requests,
             \/ op[q] = "apply" /\ pc[q] \in Deciders \cup {"complete", "failed"}
             \/ pc[q] = "reverted"
      PROVE  Excused'
  <2>1. CASE q # r
    <3>1. pc'[q] = pc[q] /\ op'[q] = op[q]
      BY <2>1, OthersKeep
    <3>2. QED
      BY <1>2, <3>1 DEF Excused
  <2>2. CASE q = r
    <3>1. pc[r] \notin Final
      BY OwnStep
    <3>2. op[r] = "apply" /\ pc[r] \in Deciders \cup {"complete"}
      BY <1>2, <2>2, <3>1 DEF Final
    <3>3. CASE pc[r] = "complete"
      <4>1. Complete(r) \/ Fail(r)
        BY <3>3 DEF Step, Load, Apply, Decide, Upload, StartLoad, Resolve, WriteItem, EndLoad,
           StartApply, MatchExisting, EnrichExisting, SaveAthlete, CreateNew, SkipOrDefer,
           SaveItem, LogDecision, DecisionError, Count, StartUpload, CheckRows, ReadAthletes,
           InsertResults, DeleteAthlete, EditAthlete, Deciding
      <4>2. session' = "completed" \/ (op'[r] = "apply" /\ pc'[r] = "failed")
        BY <1>t, <3>2, <4>1 DEF Complete, Fail, Finish, Goto
      <4>3. QED
        BY <4>2 DEF Excused
    <3>4. CASE pc[r] \in Deciders
      <4>1. op'[r] = "apply"
        BY <3>2, <3>4, OwnStep
      <4>2. pc'[r] \in Deciders \cup {"complete", "failed"}
        <5>1. \/ Decide(r) \/ SaveItem(r) \/ LogDecision(r) \/ DecisionError(r)
              \/ Count(r) \/ Fail(r)
          BY <3>4 DEF Step, Load, Apply, Upload, StartLoad, Resolve, WriteItem, EndLoad,
             StartApply, Complete, StartUpload, CheckRows, ReadAthletes,
             InsertResults, DeleteAthlete, EditAthlete, Deciders
        <5>2. CASE Decide(r)
          BY <1>t, <5>2 DEF Decide, MatchExisting, EnrichExisting, SaveAthlete, CreateNew,
             SkipOrDefer, Goto, Deciders
        <5>3. CASE ~Decide(r)
          BY <1>t, <5>1, <5>3 DEF SaveItem, LogDecision, DecisionError, NextDecision, Count, Fail,
             Finish, Goto, Deciders
        <5>4. QED
          BY <5>2, <5>3
      <4>3. QED
        BY <4>1, <4>2 DEF Excused
    <3>5. QED
      BY <3>2, <3>3, <3>4
  <2>3. QED
    BY <2>1, <2>2
<1>3. QED
  BY <1>1, <1>2 DEF Excused

LEMMA NotLostStep ==
    ASSUME TypeOK, LocalInv, DeciderInv, NotLostInv, Next
    PROVE  NotLostInv'
<1> SUFFICES ASSUME NEW s \in Sources, items'[s] # None, NothingOpen'
             PROVE  Excused'
  BY DEF NotLostInv
<1>t. /\ pc \in [Requests -> Labels] /\ op \in [Requests -> Kinds]
      /\ items \in [Sources -> Items \cup {None}]
  BY DEF TypeOK, Kinds
<1>p. PICK r \in Requests : Step(r)
  BY DEF Next, Step
<1>k. ASSUME \E t \in Sources : items[t] # None, NothingOpen PROVE Excused'
  BY <1>k, <1>p, ExcuseStep DEF NotLostInv
<1>1. CASE SaveItem(r)
  <2>1. op'[r] = "apply" /\ pc'[r] = "log"
    BY <1>1, <1>t DEF SaveItem, Goto, DeciderInv, Deciders
  <2>2. QED
    BY <2>1 DEF Excused, Deciders
<1>2. CASE WriteItem(r)
  <2>1. /\ items' = [items EXCEPT ![Current(r)] = Chosen(r)] /\ pc[r] = "write"
    BY <1>2 DEF WriteItem
  <2>2. Current(r) \in Sources /\ Chosen(r) # None /\ Chosen(r).status \notin Closed
    BY <2>1, ChosenRow, NoneAssumption
  <2>3. QED
    BY <1>t, <2>1, <2>2 DEF NothingOpen
<1>3. CASE DeleteAthlete(r)
  <2>1. PICK a \in athletes :
          items' = [t \in Sources |-> IF items[t] # None /\ items[t].selected = a
                                         THEN Item(items[t].status, None) ELSE items[t]]
    BY <1>3 DEF DeleteAthlete
  <2>2. ASSUME NEW t \in Sources, items[t] # None
        PROVE  items'[t] # None /\ items'[t].status = items[t].status
    <3>1. items[t] \in Items
      BY <1>t, <2>2
    <3>2. Item(items[t].status, None) \in Items
      BY <3>1 DEF Items, Item
    <3>3. QED
      BY <2>1, <2>2, <3>2, NoneAssumption DEF Item
  <2>3. items[s] # None
    BY <2>1
  <2>4. QED
    BY <1>k, <2>2, <2>3 DEF NothingOpen
<1>4. CASE ~SaveItem(r) /\ ~WriteItem(r) /\ ~DeleteAthlete(r)
  <2>1. UNCHANGED items
    <3>1. CASE Reading(r)
      BY <3>1, ReadingKeeps DEF tables
    <3>2. CASE ~Reading(r)
      BY <1>p, <1>4, <3>2 DEF Step, Load, Apply, Decide, Upload, Reading, EndLoad, SaveAthlete,
         CreateNew, LogDecision, DecisionError, Complete, InsertResults, EditAthlete, tables
    <3>3. QED
      BY <3>1, <3>2
  <2>2. QED
    BY <1>k, <2>1 DEF NothingOpen
<1>5. QED
  BY <1>1, <1>2, <1>3, <1>4

-----------------------------------------------------------------------------
(* The invariant of all reachable states.                                  *)

IInv ==
    /\ TypeOK /\ LocalInv
    /\ ReviewedInv
    /\ ClosedInv
    /\ FreshInv /\ NoSilentOrphan
    /\ DeciderInv /\ ResolutionLogged
    /\ NotLostInv

LEMMA InitIInv == Init => IInv
<1> SUFFICES ASSUME Init PROVE IInv
  OBVIOUS
<1>1. EmptyFrame \in Frames /\ EmptyFrame.todo = <<>> /\ EmptyFrame.rows = {}
  BY DEF EmptyFrame, Frames, Blank, Filling
<1>2. TypeOK
  BY <1>1, PayloadsAssumption DEF Init, TypeOK, AthleteIds, Labels, Final, Blank, Filling
<1>3. LocalInv
  BY <1>1, PayloadsAssumption DEF Init, LocalInv, LocalOK, Labels, Final
<1>4. ReviewedInv
  BY <1>1 DEF Init, ReviewedInv, ResolvedRows
<1>5. ClosedInv
  BY DEF Init, ClosedInv, Counted
<1>6. FreshInv /\ NoSilentOrphan
  BY NamesAssumption DEF Init, FreshInv, NoSilentOrphan
<1>7. DeciderInv /\ ResolutionLogged
  BY DEF Init, DeciderInv, Deciders, ResolutionLogged, ResolvedRows
<1>8. NotLostInv
  BY DEF Init, NotLostInv
<1>9. QED
  BY <1>2, <1>3, <1>4, <1>5, <1>6, <1>7, <1>8 DEF IInv

LEMMA NextIInv == IInv /\ [Next]_vars => IInv'
<1> SUFFICES ASSUME IInv, [Next]_vars PROVE IInv'
  OBVIOUS
<1>i. /\ TypeOK /\ LocalInv /\ ReviewedInv /\ ClosedInv /\ FreshInv /\ NoSilentOrphan
      /\ DeciderInv /\ ResolutionLogged /\ NotLostInv
  BY DEF IInv
<1>1. CASE Next
  <2>1. LocalInv'
    BY <1>1, <1>i, LocalStep
  <2>2. TypeOK'
    BY <1>1, <1>i, <2>1, TypeStep
  <2>3. ReviewedInv' /\ ClosedInv'
    BY <1>1, <1>i, <2>1, ReviewedStep, ClosedStep
  <2>4. FreshInv' /\ NoSilentOrphan'
    BY <1>1, <1>i, FreshStep, OrphanStep
  <2>5. DeciderInv' /\ ResolutionLogged' /\ NotLostInv'
    BY <1>1, <1>i, DeciderStep, LoggedStep, NotLostStep
  <2>6. QED
    BY <2>1, <2>2, <2>3, <2>4, <2>5 DEF IInv
<1>2. CASE UNCHANGED vars
  <2> USE <1>2 DEF vars, tables, history
  <2>1. TypeOK'
    BY <1>i DEF TypeOK, Exists
  <2>2. LocalInv'
    BY <1>i DEF LocalInv
  <2>3. ReviewedInv'
    BY <1>i DEF ReviewedInv, ResolvedRows
  <2>4. ClosedInv'
    BY <1>i DEF ClosedInv, Counted, Completed
  <2>5. FreshInv'
    BY <1>i DEF FreshInv, Todo
  <2>6. NoSilentOrphan'
    BY <1>i DEF NoSilentOrphan, Chosen
  <2>7. DeciderInv'
    BY <1>i DEF DeciderInv
  <2>8. ResolutionLogged'
    BY <1>i DEF ResolutionLogged, ResolvedRows, Current, Chosen, Todo
  <2>9. NotLostInv'
    BY <1>i DEF NotLostInv, NothingOpen, Excused
  <2>10. QED
    BY <2>1, <2>2, <2>3, <2>4, <2>5, <2>6, <2>7, <2>8, <2>9 DEF IInv
<1>3. QED
  BY <1>1, <1>2

\* The invariant holds of every behaviour.
THEOREM Invariance == Spec => []IInv
BY InitIInv, NextIInv, PTL DEF Spec

\* The rows of a review session stay well-formed, and no item or result refers to
\* an athlete that is gone.
THEOREM TypeCorrectness == Spec => []TypeOK
<1>1. IInv => TypeOK
  BY DEF IInv
<1>2. QED
  BY <1>1, Invariance, PTL

\* Every result uploaded under the session is for an athlete that a decision
\* chose for its source (validate_result_upload_resolution, bulk_create_results).
THEOREM UploadTheorem == Spec => []ResultsReviewed
<1>1. IInv => ResultsReviewed
  BY DEF IInv, ReviewedInv, ResultsReviewed
<1>2. QED
  BY <1>1, Invariance, PTL

\* maybe_complete_session: whatever is open in a completed session was opened
\* after a request had counted that nothing was.
THEOREM CompletionTheorem == Spec => []CompletedWasClosed
<1>1. IInv => CompletedWasClosed
  BY DEF IInv, ClosedInv, Counted, Completed, CompletedWasClosed
<1>2. QED
  BY <1>1, Invariance, PTL

\* maybe_complete_session, of whatever number of requests that decide different items of
\* a session at a time: the count of the last of them is not lost.
THEOREM NotLostTheorem == Spec => []CompletionNotLost
<1>1. IInv => CompletionNotLost
  BY DEF IInv, NotLostInv, Excused, CompletionNotLost, Deciders, Final
<1>2. QED
  BY <1>1, Invariance, PTL

\* apply_review_decision leaves no athlete behind that no item was saved with, and
\* no resolved item without a ReviewDecision that names its athlete, but for an
\* error that was reported or a request that died or is not through.
THEOREM AccountedTheorem == Spec => []DecisionsAccounted
<1>1. IInv => DecisionsAccounted
  BY DEF IInv, DecisionsAccounted
<1>2. QED
  BY <1>1, Invariance, PTL

\* apply_safe_enrich works on an athlete read before and saves only the columns that it
\* patches: for any number of requests and fields, nothing but an edit makes way for a
\* blank, and an enrichment replaces only what came after its read.
THEOREM FilledTheorem == Spec => FilledKept
<1> DEFINE Allowed(a, f) ==
              \E r \in Requests :
                 \/ pc[r] = "idle" /\ op'[r] = "edit"
                 \/ /\ pc[r] = "enrich" /\ filled'[a][f] = r /\ f \in frame[r].patch
                    /\ filled[a][f] # frame[r].candidate[f]
           Kept == \A a \in athletes \cap athletes', f \in Fields :
                      filled[a][f] # None /\ filled'[a][f] # filled[a][f] => Allowed(a, f)
<1>1. ASSUME IInv, Next PROVE Kept
  <2> SUFFICES ASSUME NEW a \in athletes, a \in athletes', NEW f \in Fields,
                      filled[a][f] # None, filled'[a][f] # filled[a][f]
               PROVE  Allowed(a, f)
    OBVIOUS
  <2>t. /\ filled \in [AthleteIds -> Filling] /\ op \in [Requests -> Kinds]
        /\ a \in AthleteIds
    BY <1>1 DEF IInv, TypeOK, Kinds
  <2>p. PICK r \in Requests : Step(r)
    BY <1>1 DEF Next, Step
  <2>1. CASE SaveAthlete(r)
    <3>1. filled'[a] # filled[a]
      OBVIOUS
    <3>2. filled' = [filled EXCEPT ![a] = Enriched(r, @)] /\ pc[r] = "enrich"
      BY <2>1, <3>1, <2>t DEF SaveAthlete
    <3>3. filled'[a] = Enriched(r, filled[a])
      BY <2>t, <3>2
    <3>4. f \in SafePatch(r) /\ filled'[a][f] = r
      BY <3>3 DEF Enriched
    <3>5. f \in frame[r].patch /\ frame[r].candidate[f] = None
      BY <3>4 DEF SafePatch
    <3>6. QED
      BY <3>2, <3>4, <3>5
  <2>2. CASE EditAthlete(r)
    <3>1. pc[r] = "idle" /\ op'[r] = "edit"
      BY <2>2, <2>t DEF EditAthlete
    <3>2. QED
      BY <3>1
  <2>3. CASE CreateNew(r)
    <3>1. a = <<r, Len(Todo(r))>>
      <4>1. PICK given \in Given :
               filled' = [filled EXCEPT ![<<r, Len(Todo(r))>>] = FilledBy(r, given)]
        BY <2>3 DEF CreateNew
      <4>2. QED
        BY <2>t, <4>1
    <3>2. Len(Todo(r)) \in 1 .. MaxItems /\ pc[r] = "decision"
      BY <1>1, <2>3, NewAthlete DEF IInv, CreateNew, Deciding
    <3>3. Len(Todo(r)) > Len(Todo(r))
      BY <1>1, <3>1, <3>2 DEF IInv, FreshInv
    <3>4. QED
      BY <3>2, <3>3
  <2>4. CASE DeleteAthlete(r)
    <3>1. PICK b \in athletes : athletes' = athletes \ {b} /\ filled' = [filled EXCEPT ![b] = Blank]
      BY <2>4 DEF DeleteAthlete
    <3>2. QED
      BY <3>1, <2>t
  <2>5. CASE ~SaveAthlete(r) /\ ~EditAthlete(r) /\ ~CreateNew(r) /\ ~DeleteAthlete(r)
    <3>1. UNCHANGED filled
      <4>1. CASE Reading(r)
        BY <1>1, <4>1, ReadingKeeps DEF tables, IInv
      <4>2. CASE ~Reading(r)
        BY <2>p, <2>5, <4>2 DEF Step, Load, Apply, Decide, Upload, Reading, WriteItem, EndLoad,
           SaveItem, LogDecision, DecisionError, Complete, InsertResults, tables
      <4>3. QED
        BY <4>1, <4>2
    <3>2. QED
      BY <3>1
  <2>6. QED
    BY <2>1, <2>2, <2>3, <2>4, <2>5
<1>2. IInv /\ [Next]_vars => [Kept]_vars
  BY <1>1
<1>3. QED
  BY <1>2, Invariance, PTL DEF Spec, FilledKept
=============================================================================

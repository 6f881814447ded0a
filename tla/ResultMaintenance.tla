-------------------------- MODULE ResultMaintenance --------------------------
(***************************************************************************)
(* The rows of results, their athletes and competitions: uploads, deletion *)
(* of each of them, and the maintenance operations that move results from  *)
(* one athlete to another and clear what seems to be empty.                *)
(*                                                                         *)
(* The operations run statement by statement with no transaction.  The     *)
(* database refuses a result without its athlete or competition, and       *)
(* deleting either deletes their results.                                  *)
(***************************************************************************)
EXTENDS Naturals, FiniteSets

CONSTANTS
    Requests,       \* handler executions, each used once
    Athletes, Competitions,
    Initial,        \* results that are there before any request
    None

Row == [athlete : Athletes, competition : Competitions]

ASSUME NamesAssumption ==
    /\ None \notin Athletes \cup Competitions \cup Row
    /\ Initial \cap (Requests \X Athletes) = {}

VARIABLES
    athletes, competitions,     \* rows that exist
    results,                    \* each result's row, None where there is none
    pc, op,                     \* where a request is and what it runs
    job,                        \* the athletes and the competition it was given
    todo,                       \* athletes it still has to read or delete
    rows,                       \* results it has read, or is about to insert
    arrived,                    \* history: came to an athlete that was found empty
    strayed                     \* history: read for a transfer, then moved by another

tables  == <<athletes, competitions, results>>
local   == <<job, todo, rows>>
history == <<arrived, strayed>>
vars == <<tables, pc, op, local, history>>

\* An upload inserts at most one result of an athlete.
ResultIds == Initial \cup (Requests \X Athletes)

Present == {x \in ResultIds : results[x] # None}

Of(a) == {x \in Present : results[x].athlete = a}

Jobs == [from : Athletes \cup {None}, to : Athletes \cup {None},
         competition : Competitions \cup {None}, drop : BOOLEAN]

NoJob == [from |-> None, to |-> None, competition |-> None, drop |-> FALSE]

Labels == {"idle", "row", "target", "read", "move", "count", "drop", "done", "refused", "failed"}

\* With the references that the database keeps.
TypeOK ==
    /\ athletes \subseteq Athletes
    /\ competitions \subseteq Competitions
    /\ results \in [ResultIds -> Row \cup {None}]
    /\ \A x \in Present : /\ results[x].athlete \in athletes
                          /\ results[x].competition \in competitions
    /\ pc \in [Requests -> Labels]
    /\ op \in [Requests -> {"none", "upload", "transfer", "clear_results", "clear_empty",
                            "result", "athlete", "competition"}]
    /\ job \in [Requests -> Jobs]
    /\ todo \in [Requests -> SUBSET Athletes]
    /\ rows \in [Requests -> SUBSET ResultIds]
    /\ arrived \in [Requests -> SUBSET ResultIds]
    /\ strayed \in [Requests -> SUBSET ResultIds]

Init ==
    /\ athletes = Athletes
    /\ competitions = Competitions
    /\ results \in {f \in [ResultIds -> Row \cup {None}] :
                       \A x \in ResultIds : f[x] = None <=> x \notin Initial}
    /\ pc = [r \in Requests |-> "idle"]
    /\ op = [r \in Requests |-> "none"]
    /\ job = [r \in Requests |-> NoJob]
    /\ todo = [r \in Requests |-> {}]
    /\ rows = [r \in Requests |-> {}]
    /\ arrived = [r \in Requests |-> {}]
    /\ strayed = [r \in Requests |-> {}]

-----------------------------------------------------------------------------

Goto(r, label) == pc' = [pc EXCEPT ![r] = label]

Begin(r, handler, label) ==
    /\ pc[r] = "idle"
    /\ op' = [op EXCEPT ![r] = handler]
    /\ Goto(r, label)

\* Rows X take the values of new; whoever found their athlete empty does not know.
Put(X, new) ==
    /\ results' = [x \in ResultIds |-> IF x \in X THEN new[x] ELSE results[x]]
    /\ arrived' = [q \in Requests |->
                      arrived[q] \cup {x \in X : new[x].athlete \in todo[q] /\ pc[q] = "drop"}]

\* Rows X go, with a row they refer to or alone.
Remove(X) == results' = [x \in ResultIds |-> IF x \in X THEN None ELSE results[x]]

RemoveAthlete(a) ==
    /\ athletes' = athletes \ {a}
    /\ Remove(Of(a))

\* The rows of one competition are read one after the other.
StartUpload(r) ==
    /\ Begin(r, "upload", "row")
    /\ \E c \in Competitions, S \in SUBSET Athletes \ {{}} :
          /\ job' = [job EXCEPT ![r] = [NoJob EXCEPT !.competition = c]]
          /\ todo' = [todo EXCEPT ![r] = S]
    /\ UNCHANGED <<tables, rows, history>>

\* What is not found is skipped, or the whole upload refused.
ReadRow(r) ==
    /\ pc[r] = "row"
    /\ \E a \in todo[r] :
          LET found == a \in athletes /\ job[r].competition \in competitions IN
          /\ todo' = [todo EXCEPT ![r] = @ \ {a}]
          /\ rows' = [rows EXCEPT ![r] = IF found THEN @ \cup {<<r, a>>} ELSE @]
          /\ \/ UNCHANGED pc
             \/ ~found /\ Goto(r, "refused")
    /\ UNCHANGED <<tables, op, job, history>>

\* One statement inserts all of them or none.
Insert(r) ==
    /\ pc[r] = "row" /\ todo[r] = {}
    /\ IF \A x \in rows[r] : x[2] \in athletes /\ job[r].competition \in competitions
       THEN /\ Put(rows[r], [x \in rows[r] |->
                                [athlete |-> x[2], competition |-> job[r].competition]])
            /\ Goto(r, "done")
       ELSE Goto(r, "failed") /\ UNCHANGED <<results, arrived>>
    /\ UNCHANGED <<athletes, competitions, op, local, strayed>>

StartTransfer(r) ==
    /\ pc[r] = "idle"
    /\ op' = [op EXCEPT ![r] = "transfer"]
    /\ \E a, b \in Athletes, c \in Competitions \cup {None}, d \in BOOLEAN :
          /\ a # b
          /\ job' = [job EXCEPT ![r] = [from |-> a, to |-> b, competition |-> c, drop |-> d]]
          /\ Goto(r, IF a \in athletes THEN "target" ELSE "refused")
    /\ UNCHANGED <<tables, todo, rows, history>>

ReadTarget(r) ==
    /\ pc[r] = "target"
    /\ Goto(r, IF job[r].to \in athletes THEN "read" ELSE "refused")
    /\ UNCHANGED <<tables, op, local, history>>

\* Mutated: the filtered query is not assigned.
SelectedEverywhere(j) == Of(j.from)

\* The results of a transfer: of its source, and its competition if it has one.
Selected(j) == {x \in Of(j.from) : j.competition \in {None, results[x].competition}}

\* A dry run ends here, and so does one that finds nothing.
ReadResults(r) ==
    /\ pc[r] = "read"
    /\ LET found == Selected(job[r]) IN
       \/ /\ found # {}
          /\ rows' = [rows EXCEPT ![r] = found]
          /\ Goto(r, "move")
       \/ Goto(r, "done") /\ UNCHANGED rows
    /\ UNCHANGED <<tables, op, job, todo, history>>

\* One statement writes the target into those of the results that are left.
Move(r) ==
    /\ pc[r] = "move"
    /\ LET left == rows[r] \cap Present IN
       IF left = {} \/ job[r].to \in athletes
       THEN /\ Put(left, [x \in left |-> [results[x] EXCEPT !.athlete = job[r].to]])
            /\ strayed' = [q \in Requests |->
                              strayed[q] \cup IF q # r THEN left \cap rows[q] ELSE {}]
            /\ Goto(r, "count")
       ELSE Goto(r, "failed") /\ UNCHANGED <<results, history>>
    /\ UNCHANGED <<athletes, competitions, op, local>>

\* Mutated: only the competition that was transferred is counted.
CountOfCompetition(r) ==
    /\ pc[r] = "count"
    /\ IF job[r].drop /\ Selected(job[r]) = {}
       THEN Goto(r, "drop") /\ todo' = [todo EXCEPT ![r] = {job[r].from}]
       ELSE Goto(r, "done") /\ UNCHANGED todo
    /\ UNCHANGED <<tables, op, job, rows, history>>

Count(r) ==
    /\ pc[r] = "count"
    /\ IF job[r].drop /\ Of(job[r].from) = {}
       THEN Goto(r, "drop") /\ todo' = [todo EXCEPT ![r] = {job[r].from}]
       ELSE Goto(r, "done") /\ UNCHANGED todo
    /\ UNCHANGED <<tables, op, job, rows, history>>

ClearEmpty(r) ==
    /\ pc[r] = "idle"
    /\ op' = [op EXCEPT ![r] = "clear_empty"]
    /\ LET empty == {a \in athletes : Of(a) = {}} IN
       \/ /\ empty # {}
          /\ todo' = [todo EXCEPT ![r] = empty]
          /\ Goto(r, "drop")
       \/ Goto(r, "done") /\ UNCHANGED todo
    /\ UNCHANGED <<tables, job, rows, history>>

\* Those that were found empty are deleted one after the other.
Drop(r) ==
    /\ pc[r] = "drop"
    /\ \E a \in todo[r] :
          /\ RemoveAthlete(a)
          /\ todo' = [todo EXCEPT ![r] = @ \ {a}]
    /\ IF todo'[r] = {} THEN Goto(r, "done") ELSE UNCHANGED pc
    /\ UNCHANGED <<competitions, op, job, rows, history>>

-----------------------------------------------------------------------------
(* Handlers with one statement that changes something.                     *)

ClearResults(r) ==
    /\ Begin(r, "clear_results", "done")
    /\ \E c \in Competitions : Remove({x \in Present : results[x].competition = c})
    /\ UNCHANGED <<athletes, competitions, local, history>>

DeleteResult(r) ==
    /\ Begin(r, "result", "done")
    /\ \E x \in Present : Remove({x})
    /\ UNCHANGED <<athletes, competitions, local, history>>

DeleteAthlete(r) ==
    /\ Begin(r, "athlete", "done")
    /\ \E a \in athletes : RemoveAthlete(a)
    /\ UNCHANGED <<competitions, local, history>>

DeleteCompetition(r) ==
    /\ Begin(r, "competition", "done")
    /\ \E c \in competitions :
          /\ competitions' = competitions \ {c}
          /\ Remove({x \in Present : results[x].competition = c})
    /\ UNCHANGED <<athletes, local, history>>

\* A statement fails, or the process dies.
Fail(r) ==
    /\ pc[r] \in {"row", "target", "read", "move", "count", "drop"}
    /\ Goto(r, "failed")
    /\ UNCHANGED <<tables, op, local, history>>

Next == \E r \in Requests :
    \/ StartUpload(r) \/ ReadRow(r) \/ Insert(r)
    \/ StartTransfer(r) \/ ReadTarget(r) \/ ReadResults(r) \/ Move(r) \/ Count(r)
    \/ ClearEmpty(r) \/ Drop(r)
    \/ ClearResults(r) \/ DeleteResult(r) \/ DeleteAthlete(r) \/ DeleteCompetition(r)
    \/ Fail(r)

Spec == Init /\ [][Next]_vars

-----------------------------------------------------------------------------
(* Properties.                                                             *)

Deletes == {"clear_results", "result", "athlete", "competition"}

\* A result is never lost to tidying up, unless it came to an athlete after that
\* athlete was found empty: only what is told to delete results deletes others
\* (transfer_results, clear_empty_athletes).
ResultsLostForCause ==
    [][\A x \in Present : results'[x] = None =>
          \E r \in Requests :
              \/ pc[r] = "idle" /\ op'[r] \in Deletes
              \/ pc[r] = "drop" /\ x \in arrived[r]]_vars

\* A transfer takes results of its source only, and of its competition, unless
\* another transfer has taken them on since they were read.
MovedFromSource ==
    [][\A x \in Present : results'[x] # None /\ results'[x] # results[x] =>
          \E r \in Requests :
              /\ pc[r] = "move"
              /\ results'[x] = [results[x] EXCEPT !.athlete = job[r].to]
              /\ job[r].competition \in {None, results[x].competition}
              /\ results[x].athlete = job[r].from \/ x \in strayed[r]]_vars
=============================================================================

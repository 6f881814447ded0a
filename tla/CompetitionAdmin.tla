-------------------------- MODULE CompetitionAdmin --------------------------
(***************************************************************************)
(* The administration of competitions: their rows, which everybody saves   *)
(* whole, their distances with the order they are shown in, and the        *)
(* standards, of which one of each kind is to be active.  It goes on       *)
(* beside the requests of ResultMaintenance, which delete competitions.    *)
(***************************************************************************)
EXTENDS ResultMaintenance

CONSTANTS
    Clerks,         \* handler executions, each used once
    Kinds,          \* of standards: code, stroke, distance, gender and type
    First           \* distances that are there before any request

\* The order is a number that a client sends; here, who sent it.
Distance == [competition : Competitions, order : Clerks \cup {None}]

Standard == [kind : Kinds, active : BOOLEAN]

ASSUME ClerksAssumption ==
    /\ First \cap Clerks = {}
    /\ None \notin Clerks \cup Distance \cup Standard

VARIABLES
    details,        \* the row of a competition: by whom each column was written
    distances,      \* each distance, named by the clerk that created it
    standards,      \* each standard, named by the clerk that created it
    desk,           \* where a clerk is
    task,           \* what it is to do
    seen,           \* the row of a competition, or the distances, as it read them
    rivals          \* history: standards of the kind created since it retired the old

adminVars == <<details, distances, standards, desk, task, seen, rivals>>
allVars   == <<vars, adminVars>>

Distances == First \cup Clerks

Columns == {"text", "processed"}

Details == [Columns -> Clerks \cup {None}]

Listed == {d \in Distances : distances[d] # None}

\* The database keeps the references of distances.
Cascade ==
    distances' = [d \in Distances |-> IF d \in Listed /\ distances[d].competition \in competitions'
                                      THEN distances[d] ELSE None]

AdminInit ==
    /\ details = [c \in Competitions |-> [f \in Columns |-> None]]
    /\ \E at \in [First -> Competitions] :
          distances = [d \in Distances |-> IF d \in First THEN [competition |-> at[d], order |-> None]
                                           ELSE None]
    /\ standards = [m \in Clerks |-> None]
    /\ desk = [m \in Clerks |-> "idle"]
    /\ task = [m \in Clerks |-> None]
    /\ seen = [m \in Clerks |-> None]
    /\ rivals = [m \in Clerks |-> {}]

-----------------------------------------------------------------------------

At(m, label) == desk' = [desk EXCEPT ![m] = label]

\* A handler begins with what it was given and goes on at label.
Take(m, work, label) ==
    /\ desk[m] = "idle"
    /\ task' = [task EXCEPT ![m] = work]
    /\ At(m, label)

Work(name, c) == [does |-> name, competition |-> c, distances |-> {}, kind |-> None, active |-> FALSE]

-----------------------------------------------------------------------------
(* Rows of competitions.                                                   *)

\* The columns a handler is there to change: an edit gives them all, the mark among them.
Own(does) == IF does = "edit" THEN Columns ELSE {"processed"}

ReadCompetition(m) ==
    /\ \E does \in {"edit", "mark", "unmark"}, c \in Competitions :
          /\ Take(m, Work(does, c), IF c \in competitions THEN "save" ELSE "refused")
          /\ seen' = [seen EXCEPT ![m] = details[c]]
    /\ UNCHANGED <<details, distances, standards, rivals>>

\* Mutated: the row is built from the request alone.
SavedAnew(m) ==
    [f \in Columns |-> IF f \in Own(task[m].does) THEN m ELSE None]

\* What it writes: its own columns, and the others as it read them.
Saved(m) ==
    [f \in Columns |-> IF f \notin Own(task[m].does) THEN seen[m][f]
                       ELSE IF task[m].does = "unmark" THEN None ELSE m]

\* A row that is gone is not written; an edit may leave the mark out, which is none.
SaveCompetition(m) ==
    /\ desk[m] = "save"
    /\ LET c == task[m].competition IN
       IF c \notin competitions THEN UNCHANGED details
       ELSE \/ details' = [details EXCEPT ![c] = Saved(m)]
            \/ /\ task[m].does = "edit"
               /\ details' = [details EXCEPT ![c] = [Saved(m) EXCEPT !["processed"] = None]]
    /\ At(m, "done")
    /\ UNCHANGED <<distances, standards, task, seen, rivals>>

-----------------------------------------------------------------------------
(* Distances.                                                              *)

StartDistance(m) ==
    /\ \E c \in Competitions :
          Take(m, Work("create", c), IF c \in competitions THEN "insert" ELSE "refused")
    /\ UNCHANGED <<details, distances, standards, seen, rivals>>

InsertDistance(m) ==
    /\ desk[m] = "insert"
    /\ IF task[m].competition \in competitions
       THEN /\ distances' = [distances EXCEPT ![m] = [competition |-> task[m].competition, order |-> m]]
            /\ At(m, "done")
       ELSE At(m, "failed") /\ UNCHANGED distances
    /\ UNCHANGED <<details, standards, task, seen, rivals>>

\* All that the request names, in its competition, or none.
ReadDistances(m) ==
    /\ \/ \E c \in Competitions : \E D \in SUBSET {d \in Listed : distances[d].competition = c} :
             /\ Take(m, [Work("reorder", c) EXCEPT !.distances = D], "reorder")
             /\ seen' = [seen EXCEPT ![m] = D]
       \/ Take(m, Work("reorder", None), "refused") /\ UNCHANGED seen
    /\ UNCHANGED <<details, distances, standards, rivals>>

Placed(m, D) ==
    distances' = [d \in Distances |-> IF d \in D \cap Listed THEN [distances[d] EXCEPT !.order = m]
                                      ELSE distances[d]]

\* Mutated: the rows are saved one after the other.
ReorderOneByOne(m) ==
    /\ desk[m] = "reorder"
    /\ \E d \in seen[m] : Placed(m, {d}) /\ seen' = [seen EXCEPT ![m] = @ \ {d}]
    /\ At(m, IF seen'[m] = {} THEN "done" ELSE "reorder")
    /\ UNCHANGED <<details, standards, task, rivals>>

\* One statement writes the order of those that are left.
Reorder(m) ==
    /\ desk[m] = "reorder"
    /\ Placed(m, seen[m])
    /\ At(m, "done")
    /\ UNCHANGED <<details, standards, task, seen, rivals>>

\* An update of a distance awaits what cannot be awaited, and fails; a deletion looks for
\* the distance, deletes it, and answers in any case that there is none.
ReadDistance(m) ==
    /\ \/ \E d \in Listed : Take(m, [Work("delete", None) EXCEPT !.distances = {d}], "remove")
       \/ Listed # {} /\ Take(m, Work("update", None), "failed")
       \/ Listed # Distances /\ Take(m, Work("delete", None), "refused")
    /\ UNCHANGED <<details, distances, standards, seen, rivals>>

RemoveDistance(m) ==
    /\ desk[m] = "remove"
    /\ distances' = [d \in Distances |-> IF d \in task[m].distances THEN None ELSE distances[d]]
    /\ At(m, "refused")
    /\ UNCHANGED <<details, standards, task, seen, rivals>>

\* What is counted first is told to the client only.
ClearDistances(m) ==
    /\ \E c \in Competitions :
          /\ Take(m, Work("clear", c), "done")
          /\ distances' = [d \in Distances |-> IF d \in Listed /\ distances[d].competition = c
                                               THEN None ELSE distances[d]]
    /\ UNCHANGED <<details, standards, seen, rivals>>

-----------------------------------------------------------------------------
(* Standards.                                                              *)

Active(k) == {m \in Clerks : standards[m] # None /\ standards[m] = [kind |-> k, active |-> TRUE]}

RetireStandards(m) ==
    /\ \E k \in Kinds, active \in BOOLEAN :
          /\ Take(m, [Work("standard", None) EXCEPT !.kind = k, !.active = active], "standard")
          /\ standards' = [n \in Clerks |-> IF n \in Active(k)
                                            THEN [standards[n] EXCEPT !.active = FALSE] ELSE standards[n]]
    /\ UNCHANGED <<details, distances, seen, rivals>>

CreateStandard(m) ==
    /\ desk[m] = "standard"
    /\ standards' = [standards EXCEPT ![m] = [kind |-> task[m].kind, active |-> task[m].active]]
    /\ rivals' = [n \in Clerks |-> IF n # m /\ desk[n] = "standard" /\ task[n].kind = task[m].kind
                                   THEN rivals[n] \cup {m} ELSE rivals[n]]
    /\ At(m, "done")
    /\ UNCHANGED <<details, distances, task, seen>>

-----------------------------------------------------------------------------

\* A statement fails, or the process dies.
FailClerk(m) ==
    /\ desk[m] \in {"save", "insert", "reorder", "remove", "standard"}
    /\ At(m, "failed")
    /\ UNCHANGED <<details, distances, standards, task, seen, rivals>>

ClerkNext == \E m \in Clerks :
    \/ ReadCompetition(m) \/ SaveCompetition(m)
    \/ StartDistance(m) \/ InsertDistance(m)
    \/ ReadDistances(m) \/ Reorder(m)
    \/ ReadDistance(m) \/ RemoveDistance(m) \/ ClearDistances(m)
    \/ RetireStandards(m) \/ CreateStandard(m)
    \/ FailClerk(m)

AllInit == Init /\ AdminInit

\* The distances of a competition go with it.
AllNext ==
    \/ Next /\ Cascade /\ UNCHANGED <<details, standards, desk, task, seen, rivals>>
    \/ ClerkNext /\ UNCHANGED vars

AllSpec == AllInit /\ [][AllNext]_allVars

-----------------------------------------------------------------------------
(* Properties.                                                             *)

AdminTypeOK ==
    /\ details \in [Competitions -> Details]
    /\ distances \in [Distances -> Distance \cup {None}]
    /\ \A d \in Listed : distances[d].competition \in competitions
    /\ standards \in [Clerks -> Standard \cup {None}]
    /\ desk \in [Clerks -> {"idle", "save", "insert", "reorder", "remove", "standard",
                            "done", "refused", "failed"}]
    /\ rivals \in [Clerks -> SUBSET Clerks]

\* Two orders of the same distances never mix: of two distances that two requests name,
\* both stand where the same one put them (bulk_update_distances).
OrdersTogether ==
    \A d, e \in Listed :
        LET q == distances[d].order
            r == distances[e].order
        IN q # None /\ r # None /\ q # r =>
               ~({d, e} \subseteq task[q].distances /\ {d, e} \subseteq task[r].distances)

\* Two standards of a kind are active only if each was asked for before the other was
\* created; a kind that has been given an active one has none only by a request that
\* died, or is, between its two statements, or was for an inactive one (create_standard).
StandardsExplained ==
    /\ \A k \in Kinds : \A m, n \in Active(k) : m # n => m \in rivals[n] \/ n \in rivals[m]
    /\ \A m \in Clerks : standards[m] # None /\ task[m].active /\ Active(task[m].kind) = {} =>
          \E n \in Clerks \ {m} :
             /\ desk[n] # "idle" /\ task[n].does = "standard" /\ task[n].kind = task[m].kind
             /\ desk[n] \in {"standard", "failed"} \/ ~task[n].active

\* What several statements, or one statement over several rows, must leave in order.
RowsAgree == TypeOK /\ AdminTypeOK /\ OrdersTogether /\ StandardsExplained

\* A column of a competition changes by a handler that is there to change it, or because
\* a whole-row save brings back what was read before somebody else changed it.
EditsKept ==
    [][\A c \in Competitions, f \in Columns : details'[c][f] # details[c][f] =>
          \E m \in Clerks :
             /\ desk[m] = "save" /\ task[m].competition = c
             /\ f \in Own(task[m].does) \/ seen[m][f] # details[c][f]]_allVars
=============================================================================

---------------------------- MODULE ReviewWorkflow ----------------------------
(***************************************************************************)
(* One review session: source rows of a results file are loaded as items,  *)
(* reviewers decide which athlete each is, enriching or creating athletes  *)
(* as they go, the session is completed when nothing is open, and results  *)
(* are then uploaded for the athletes that were chosen.  Athletes may be   *)
(* edited and deleted meanwhile.                                           *)
(*                                                                         *)
(* Loads and applications of decisions read the session or the items at    *)
(* their start and write them in later statements; nothing is locked.      *)
(*                                                                         *)
(* The columns nobody decides upon (the payload, the snapshot of the       *)
(* candidates, notes) are left out, and of an athlete only which of the    *)
(* fields that enrichment may fill are filled, and by which request. A     *)
(* club that says little counts as blank.                                  *)
(***************************************************************************)
EXTENDS Integers, Sequences

CONSTANTS
    Requests,       \* handler executions, each used once
    Sources,        \* external ids of the source rows
    Athletes,       \* athletes that exist from the start
    Payloads,       \* lists of sources a request may carry
    MaxItems,       \* the length of the longest
    Fields,         \* of an athlete: city, club, license
    Given,          \* the sets of fields that a source row, a patch or a body has
    None

ASSUME PayloadsAssumption ==
    /\ MaxItems \in Nat
    /\ \A p \in Payloads : p \in Seq(Sources) /\ Len(p) <= MaxItems
ASSUME GivenAssumption == Given \subseteq SUBSET Fields
ASSUME NamesAssumption ==
    /\ None \notin Requests \cup Athletes \cup (Requests \X (1 .. MaxItems))
    /\ Athletes \cap (Requests \X (1 .. MaxItems)) = {}

VARIABLES
    session,        \* status of the review session
    items,          \* rows of review_item by external id, None if there is none
    athletes,       \* rows of athletes
    filled,         \* who filled a field of an athlete, None while it is blank
    log,            \* rows of review_decision that name an athlete
    results,        \* rows of results that were uploaded under the session
    pc, op,         \* where a request is and which handler it runs
    frame,          \* its locals
    errors,         \* the errors an application of decisions answers with
    sanctioned,     \* history: the athletes decisions have saved for a source
    late            \* history: items reopened after a count that found none open

tables  == <<session, items, athletes, filled, log, results>>
history == <<sanctioned, late>>
vars == <<tables, pc, op, frame, errors, history>>

\* An athlete that a decision creates is named after the request and the number
\* of decisions it still has to take.
AthleteIds == Athletes \cup (Requests \X (1 .. MaxItems))

Resolved == {"matched_existing", "enrich_pending", "created_new"}
Closed   == Resolved \cup {"skipped"}
Statuses == Closed \cup {"auto_match_candidate", "needs_manual_review"}

Item(status, athlete) == [status |-> status, selected |-> athlete]

Items == [status : Statuses, selected : AthleteIds \cup {None}]

ASSUME NoneAssumption == None \notin Items

\* An athlete's fields, each with the request that filled it.
Filling == [Fields -> Requests \cup {None}]
Blank   == [f \in Fields |-> None]
FilledBy(r, given) == [f \in Fields |-> IF f \in given THEN r ELSE None]

\* saw: the session status that was read; todo: the sources still to handle;
\* known: the sources whose item was found; chosen: the item to be written;
\* candidate: the fields of the athlete as they were read; patch: those that the
\* decision fills; rows: results to insert.
Frames == [saw : {"new", "active", "completed"}, todo : Seq(Sources),
           known : SUBSET Sources, chosen : Items \cup {None},
           candidate : Filling, patch : SUBSET Fields, rows : SUBSET (Sources \X AthleteIds)]

EmptyFrame == [saw |-> "new", todo |-> <<>>, known |-> {}, chosen |-> None,
               candidate |-> Blank, patch |-> {}, rows |-> {}]

Final == {"done", "completed", "reverted", "refused", "failed"}

Labels == Final \cup {"idle", "source", "write", "decision", "enrich", "save",
                      "log", "complete", "rows", "athletes", "insert"}

\* The foreign key of review_item and of review_decision.
Exists(row) == row.selected = None \/ row.selected \in athletes

\* With the references that the database keeps.
TypeOK ==
    /\ session \in {"new", "active", "completed"}
    /\ items \in [Sources -> Items \cup {None}]
    /\ athletes \subseteq AthleteIds
    /\ filled \in [AthleteIds -> Filling]
    /\ log \subseteq Sources \X AthleteIds
    /\ results \subseteq Requests \X (Sources \X AthleteIds)
    /\ pc \in [Requests -> Labels]
    /\ op \in [Requests -> {"none", "load", "apply", "upload", "delete", "edit"}]
    /\ frame \in [Requests -> Frames]
    /\ \A r \in Requests : Len(frame[r].todo) <= MaxItems
    /\ errors \in [Requests -> SUBSET Sources]
    /\ sanctioned \subseteq Sources \X AthleteIds
    /\ late \subseteq Sources
    /\ \A s \in Sources : items[s] # None => Exists(items[s])
    /\ \A row \in results : row[2][2] \in athletes

\* A session that POST /admin/athlete/review-sessions has created.
Init ==
    /\ session = "new"
    /\ items = [s \in Sources |-> None]
    /\ athletes = Athletes
    /\ filled = [a \in AthleteIds |-> Blank]
    /\ log = {}
    /\ results = {}
    /\ pc = [r \in Requests |-> "idle"]
    /\ op = [r \in Requests |-> "none"]
    /\ frame = [r \in Requests |-> EmptyFrame]
    /\ errors = [r \in Requests |-> {}]
    /\ sanctioned = {}
    /\ late = {}

-----------------------------------------------------------------------------

Goto(r, label) == pc' = [pc EXCEPT ![r] = label]

\* A handler that has ended has no locals.
Finish(r, label) ==
    /\ Goto(r, label)
    /\ frame' = [frame EXCEPT ![r] = EmptyFrame]

Todo(r)    == frame[r].todo
Current(r) == Head(frame[r].todo)
Chosen(r)  == frame[r].chosen

\* The count of maybe_complete_session, which a session without items passes.
NothingOpen == \A s \in Sources : items[s] # None => items[s].status \in Closed

\* A request has counted no open item.
Counted == \E r \in Requests : pc[r] \in {"complete", "completed"}

\* What writing a row does to the history of its source.
Record(s, row) ==
    /\ late' = IF row.status \in Closed THEN late \ {s}
               ELSE IF Counted THEN late \cup {s} ELSE late
    /\ sanctioned' = IF row.status \in Resolved
                       THEN sanctioned \cup {<<s, row.selected>>} ELSE sanctioned

-----------------------------------------------------------------------------
(* Loading source rows: POST review-sessions/{id}/items.                   *)

StartLoad(r) ==
    /\ pc[r] = "idle"
    /\ op' = [op EXCEPT ![r] = "load"]
    /\ Goto(r, "source")
    /\ \E p \in Payloads :
          frame' = [frame EXCEPT ![r].todo = p, ![r].saw = session]
    /\ UNCHANGED <<tables, errors, history>>

\* The candidates are looked up and a source with one clear match is matched to
\* it, then the item is looked for.
Resolve(r) ==
    /\ pc[r] = "source" /\ Todo(r) # <<>>
    /\ \E row \in {Item("auto_match_candidate", a) : a \in athletes}
                    \cup {Item("needs_manual_review", None)} :
          frame' = [frame EXCEPT ![r].chosen = row,
                                 ![r].known = {s \in {Current(r)} : items[s] # None}]
    /\ Goto(r, "write")
    /\ UNCHANGED <<tables, op, errors, history>>

\* The item is inserted, or overwritten whatever was decided about it before.
\* The athlete may be gone, and another load may have inserted the item.
WriteItem(r) ==
    /\ pc[r] = "write"
    /\ LET s == Current(r) IN
       /\ Exists(Chosen(r))
       /\ s \in frame[r].known \/ items[s] = None
       /\ items' = [items EXCEPT ![s] = Chosen(r)]
       /\ late' = IF Counted THEN late \cup {s} ELSE late
    /\ frame' = [frame EXCEPT ![r].todo = Tail(@), ![r].chosen = None, ![r].known = {}]
    /\ Goto(r, "source")
    /\ UNCHANGED <<session, athletes, filled, log, results, op, errors, sanctioned>>

\* A session that was new when the load began becomes active, even where it has
\* been completed since.
EndLoad(r) ==
    /\ pc[r] = "source" /\ Todo(r) = <<>>
    /\ \/ /\ frame[r].saw = "new"
          /\ session' = "active"
          /\ Finish(r, IF session = "completed" THEN "reverted" ELSE "done")
       \/ /\ frame[r].saw # "new"
          /\ Finish(r, "done")
          /\ UNCHANGED session
    /\ UNCHANGED <<items, athletes, filled, log, results, op, errors, history>>

-----------------------------------------------------------------------------
(* Applying decisions: POST review-sessions/{id}/apply.                    *)

\* The items are read once, before the first decision.
StartApply(r) ==
    /\ pc[r] = "idle"
    /\ op' = [op EXCEPT ![r] = "apply"]
    /\ Goto(r, "decision")
    /\ \E p \in Payloads :
          frame' = [frame EXCEPT ![r].todo = p,
                                 ![r].known = {s \in Sources : items[s] # None}]
    /\ UNCHANGED <<tables, errors, history>>

Deciding(r) == pc[r] = "decision" /\ Todo(r) # <<>> /\ Current(r) \in frame[r].known

\* On to the next decision.
NextDecision(r) ==
    /\ Goto(r, "decision")
    /\ frame' = [frame EXCEPT ![r].todo = Tail(@), ![r].chosen = None,
                              ![r].candidate = Blank, ![r].patch = {}]

\* Mutated: an error is not reported.
DecisionErrorSilent(r) ==
    /\ pc[r] \in {"decision", "enrich", "save", "log"} /\ Todo(r) # <<>>
    /\ NextDecision(r)
    /\ UNCHANGED <<tables, op, errors, history>>

\* A decision ends in an error: the item or the athlete is not found, or a
\* statement fails.  What it has written stays; the loop goes on.
DecisionError(r) ==
    /\ pc[r] \in {"decision", "enrich", "save", "log"} /\ Todo(r) # <<>>
    /\ errors' = [errors EXCEPT ![r] = @ \cup {Current(r)}]
    /\ NextDecision(r)
    /\ UNCHANGED <<tables, op, history>>

MatchExisting(r) ==
    /\ Deciding(r)
    /\ \E a \in athletes :
          frame' = [frame EXCEPT ![r].chosen = Item("matched_existing", a)]
    /\ Goto(r, "save")
    /\ UNCHANGED <<tables, op, errors, history>>

\* The athlete is read; a decision may come without a patch, or with one of some fields.
EnrichExisting(r) ==
    /\ Deciding(r)
    /\ \E a \in athletes, P \in Given \cup {{}} :
          /\ frame' = [frame EXCEPT ![r].chosen = Item("enrich_pending", a),
                                    ![r].candidate = IF P = {} THEN Blank ELSE filled[a],
                                    ![r].patch = P]
          /\ Goto(r, IF P = {} THEN "save" ELSE "enrich")
    /\ UNCHANGED <<tables, op, errors, history>>

\* safe_patch_payload: only what is empty or weak in the object is patched.
SafePatch(r) == {f \in frame[r].patch : frame[r].candidate[f] = None}

\* The fields of r's object once it is updated.
Enriched(r, old) == [f \in Fields |-> IF f \in SafePatch(r) THEN r ELSE old[f]]

\* Mutated: the whole object is saved.
SaveAthleteWhole(r) ==
    /\ pc[r] = "enrich"
    /\ LET a == Chosen(r).selected IN
       filled' = IF SafePatch(r) # {} /\ a \in athletes
                   THEN [filled EXCEPT ![a] = Enriched(r, frame[r].candidate)] ELSE filled
    /\ frame' = [frame EXCEPT ![r].candidate = Blank, ![r].patch = {}]
    /\ Goto(r, "save")
    /\ UNCHANGED <<session, items, athletes, log, results, op, errors, history>>

\* Only the patched columns are saved; the row may be gone.
SaveAthlete(r) ==
    /\ pc[r] = "enrich"
    /\ LET a == Chosen(r).selected IN
       filled' = IF a \in athletes THEN [filled EXCEPT ![a] = Enriched(r, @)] ELSE filled
    /\ frame' = [frame EXCEPT ![r].candidate = Blank, ![r].patch = {}]
    /\ Goto(r, "save")
    /\ UNCHANGED <<session, items, athletes, log, results, op, errors, history>>

\* Nothing looks at what was decided before: each such decision creates one more.
\* The row may leave any of the fields blank.
CreateNew(r) ==
    /\ Deciding(r)
    /\ LET a == <<r, Len(Todo(r))>> IN
       /\ athletes' = athletes \cup {a}
       /\ \E given \in Given : filled' = [filled EXCEPT ![a] = FilledBy(r, given)]
       /\ frame' = [frame EXCEPT ![r].chosen = Item("created_new", a)]
    /\ Goto(r, "save")
    /\ UNCHANGED <<session, items, log, results, op, errors, history>>

SkipOrDefer(r) ==
    /\ Deciding(r)
    /\ \E status \in {"skipped", "needs_manual_review"} :
          frame' = [frame EXCEPT ![r].chosen = Item(status, None)]
    /\ Goto(r, "save")
    /\ UNCHANGED <<tables, op, errors, history>>

SaveItem(r) ==
    /\ pc[r] = "save"
    /\ Exists(Chosen(r))
    /\ items' = [items EXCEPT ![Current(r)] = Chosen(r)]
    /\ Record(Current(r), Chosen(r))
    /\ Goto(r, "log")
    /\ UNCHANGED <<session, athletes, filled, log, results, op, frame, errors>>

LogDecision(r) ==
    /\ pc[r] = "log"
    /\ Exists(Chosen(r))
    /\ log' = log \cup ({<<Current(r), Chosen(r).selected>>} \ (Sources \X {None}))
    /\ NextDecision(r)
    /\ UNCHANGED <<session, items, athletes, filled, results, op, errors, history>>

\* Mutated: skipped items count as open.
CountResolved(r) ==
    /\ pc[r] = "decision" /\ Todo(r) = <<>>
    /\ IF \A s \in Sources : items[s] # None => items[s].status \in Resolved
         THEN Finish(r, "complete") ELSE Finish(r, "done")
    /\ UNCHANGED <<tables, op, errors, history>>

\* Mutated: any item that is no longer to be reviewed by hand will do.
CountMatched(r) ==
    /\ pc[r] = "decision" /\ Todo(r) = <<>>
    /\ IF \A s \in Sources : items[s] # None => items[s].status # "needs_manual_review"
         THEN Finish(r, "complete") ELSE Finish(r, "done")
    /\ UNCHANGED <<tables, op, errors, history>>

\* The items are counted after the last decision ...
Count(r) ==
    /\ pc[r] = "decision" /\ Todo(r) = <<>>
    /\ IF NothingOpen THEN Finish(r, "complete") ELSE Finish(r, "done")
    /\ UNCHANGED <<tables, op, errors, history>>

\* ... and the session is completed in a statement of its own.
Complete(r) ==
    /\ pc[r] = "complete"
    /\ session' = "completed"
    /\ Goto(r, "completed")
    /\ UNCHANGED <<items, athletes, filled, log, results, op, frame, errors, history>>

-----------------------------------------------------------------------------
(* Uploading results: POST /admin/result/bulk-create with require_resolution. *)

StartUpload(r) ==
    /\ pc[r] = "idle"
    /\ op' = [op EXCEPT ![r] = "upload"]
    /\ Goto(r, IF session = "completed" THEN "rows" ELSE "refused")
    /\ UNCHANGED <<tables, frame, errors, history>>

\* Mutated: items whose athlete was only matched automatically pass.
ResolvedRowsLoose == {s \in Sources : items[s] # None /\ items[s].selected # None}

\* The rows an upload may bring results for.
ResolvedRows ==
    {s \in Sources : /\ items[s] # None
                     /\ items[s].status \in Resolved
                     /\ items[s].selected # None}

\* Each source of the upload must be resolved, to the athlete the upload names.
\* An upload that names another, or a source that is not resolved, is refused.
CheckRows(r) ==
    /\ pc[r] = "rows"
    /\ \/ /\ \E S \in SUBSET ResolvedRows \ {{}} :
                frame' = [frame EXCEPT ![r].rows = {<<s, items[s].selected>> : s \in S}]
          /\ Goto(r, "athletes")
       \/ Finish(r, "refused")
    /\ UNCHANGED <<tables, op, errors, history>>

\* The athletes are read.  Rows of a missing one are reported and left out, or
\* end the request if it does not ignore exceptions.
ReadAthletes(r) ==
    /\ pc[r] = "athletes"
    /\ \/ /\ frame' = [frame EXCEPT ![r].rows = {row \in @ : row[2] \in athletes}]
          /\ Goto(r, "insert")
       \/ /\ \E row \in frame[r].rows : row[2] \notin athletes
          /\ Finish(r, "refused")
    /\ UNCHANGED <<tables, op, errors, history>>

\* All results are inserted at once.
InsertResults(r) ==
    /\ pc[r] = "insert"
    /\ \A row \in frame[r].rows : row[2] \in athletes
    /\ results' = results \cup ({r} \X frame[r].rows)
    /\ Finish(r, "done")
    /\ UNCHANGED <<session, items, athletes, filled, log, op, errors, history>>

-----------------------------------------------------------------------------
(* The rest of the administration.                                         *)

\* DELETE /admin/athlete/{id}: items that chose the athlete keep their status.
DeleteAthlete(r) ==
    /\ pc[r] = "idle"
    /\ \E a \in athletes :
          /\ athletes' = athletes \ {a}
          /\ filled' = [filled EXCEPT ![a] = Blank]
          /\ items' = [s \in Sources |-> IF items[s] # None /\ items[s].selected = a
                                           THEN Item(items[s].status, None) ELSE items[s]]
          /\ log' = {row \in log : row[2] # a}
          /\ results' = {row \in results : row[2][2] # a}
    /\ op' = [op EXCEPT ![r] = "delete"]
    /\ Goto(r, "done")
    /\ UNCHANGED <<session, frame, errors, history>>

\* PUT /admin/athlete/{id} writes every field, whatever it held; the body may leave
\* some of them blank.
EditAthlete(r) ==
    /\ pc[r] = "idle"
    /\ \E a \in athletes, given \in Given :
          filled' = [filled EXCEPT ![a] = FilledBy(r, given)]
    /\ op' = [op EXCEPT ![r] = "edit"]
    /\ Goto(r, "done")
    /\ UNCHANGED <<session, items, athletes, log, results, frame, errors, history>>

\* An error that nothing catches, or the end of the process.
Fail(r) ==
    /\ pc[r] \notin Final \cup {"idle"}
    /\ Finish(r, "failed")
    /\ UNCHANGED <<tables, op, errors, history>>

-----------------------------------------------------------------------------

Load(r)   == StartLoad(r) \/ Resolve(r) \/ WriteItem(r) \/ EndLoad(r)
Decide(r) == \/ MatchExisting(r) \/ EnrichExisting(r) \/ SaveAthlete(r)
             \/ CreateNew(r) \/ SkipOrDefer(r)
Apply(r)  == \/ StartApply(r) \/ Decide(r) \/ SaveItem(r) \/ LogDecision(r)
             \/ DecisionError(r) \/ Count(r) \/ Complete(r)
Upload(r) == StartUpload(r) \/ CheckRows(r) \/ ReadAthletes(r) \/ InsertResults(r)

Next ==
    \E r \in Requests : \/ Load(r) \/ Apply(r) \/ Upload(r)
                        \/ DeleteAthlete(r) \/ EditAthlete(r) \/ Fail(r)

Spec == Init /\ [][Next]_vars

-----------------------------------------------------------------------------
(* Properties.                                                             *)

\* Results reach only athletes that a decision chose for their source, however
\* loads, decisions and deletions come between the checks of the upload: a match
\* that only the scoring made never gets through.
ResultsReviewed ==
    \A row \in results : row[2] \in sanctioned

\* An open item in a completed session was reopened, by a load or a decision,
\* after a request had counted no open item.
CompletedWasClosed ==
    session = "completed" =>
        \A s \in Sources : items[s] # None /\ items[s].status \notin Closed => s \in late

\* Requests that decide different items each count after their own last write,
\* so one of them sees that nothing is open: when all have ended and nothing is
\* open the session is completed, unless one of them died or a load put
\* the session back.
CompletionNotLost ==
    /\ \A r \in Requests : pc[r] \in Final \cup {"idle"}
    /\ \E s \in Sources : items[s] # None
    /\ NothingOpen
    => \/ session = "completed"
       \/ \E r \in Requests : \/ op[r] = "apply" /\ pc[r] = "failed"
                              \/ pc[r] = "reverted"

\* An athlete that a decision created and no item was ever saved with is behind
\* an error that the reviewer is told of, unless the request died.
NoSilentOrphan ==
    \A r \in Requests, n \in 1 .. MaxItems :
        <<r, n>> \in athletes =>
            \/ \E s \in Sources : <<s, <<r, n>>>> \in sanctioned
            \/ pc[r] = "save" /\ Chosen(r).selected = <<r, n>>
            \/ errors[r] # {} \/ pc[r] = "failed"

\* A resolved item has its decision in the log, unless the decision is being
\* taken or the reviewer was told of an error.
ResolutionLogged ==
    \A s \in ResolvedRows :
        \/ <<s, items[s].selected>> \in log
        \/ \E r \in Requests :
              \/ /\ pc[r] = "log"
                 /\ Current(r) = s /\ Chosen(r).selected = items[s].selected
              \/ s \in errors[r]
              \/ op[r] = "apply" /\ pc[r] = "failed"

\* Whatever a decision leaves half done, the reviewer is told, or the request died.
DecisionsAccounted == NoSilentOrphan /\ ResolutionLogged

\* Decisions work on athletes they have read before, and save them while others do.
\* Still, but for an edit, no value of an athlete gives way to a blank, and none to
\* an enrichment that had the chance to see it: what an enrichment replaces came
\* after its read, in a field that it fills itself.
FilledKept ==
    [][\A a \in athletes \cap athletes', f \in Fields :
          filled[a][f] # None /\ filled'[a][f] # filled[a][f] =>
              \E r \in Requests :
                 \/ pc[r] = "idle" /\ op'[r] = "edit"
                 \/ /\ pc[r] = "enrich" /\ filled'[a][f] = r /\ f \in frame[r].patch
                    /\ filled[a][f] # frame[r].candidate[f]]_vars

\* A session cannot complete with an unresolved item (test_athlete_identity.py,
\* test_session_cannot_complete_with_unresolved_manual_review_item).
CompletesClosed ==
    [][session # "completed" /\ session' = "completed" => NothingOpen]_vars
=============================================================================

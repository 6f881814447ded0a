---------------------------- MODULE AthleteImport ----------------------------
(***************************************************************************)
(* Importing protocols: a client has its rows resolved, has a preview made *)
(* of what it will do, and sends what the preview answered to bulk-create  *)
(* and bulk-update.  Nothing ties these calls together, and athletes may   *)
(* be edited and deleted meanwhile.                                        *)
(***************************************************************************)
EXTENDS AthleteIdentity, Sequences, FiniteSets

CONSTANTS
    Requests,       \* clients, each used once
    Batches,        \* lists of rows a client may import
    MaxRows,        \* the length of the longest
    Existing,       \* what the table may hold at the start: functions to athletes
    Edits           \* athletes as an administrator may write them

ASSUME BatchesAssumption ==
    /\ MaxRows \in Nat
    /\ \A b \in Batches : b \in Seq(SourceRow) /\ Len(b) <= MaxRows
    /\ Edits \subseteq Athlete

\* An athlete is named after the client that created it and the row it is from,
\* those of the start are not from a client.
AthleteIds == (Requests \cup {None}) \X (1 .. MaxRows)

ASSUME ExistingAssumption ==
    /\ None \notin Requests /\ None \notin Athlete
    /\ Existing \subseteq [AthleteIds -> Athlete \cup {None}]
    /\ \A table \in Existing, r \in Requests, n \in 1 .. MaxRows : table[<<r, n>>] = None

VARIABLES
    athletes,       \* the table athletes, None where there is no row
    pc, frame,      \* where a client is and what it knows
    imported,       \* history: rows that were taken to be an athlete
    disturbed,      \* history: athletes that have lost a value
    written,        \* history: athletes others wrote since the client's preview
    sound           \* history: athletes created on advice that knew all the others

history == <<imported, disturbed, written, sound>>
vars == <<athletes, pc, frame, history>>

Actions == {"match_existing", "enrich_existing", "create_new", "manual_review"}

Reply  == [row : SourceRow, action : Actions, seen : SUBSET AthleteIds]
Update == [at : 1 .. MaxRows, row : SourceRow, athlete : AthleteIds, patch : Patch]

\* todo: the rows still to resolve; replies: the answers so far; creates: the places
\* of the rows to create; updates: the patches to send, with the places of their
\* rows; read: the table as bulk-update has read it.
Frames == [todo : Seq(SourceRow), replies : Seq(Reply),
           creates : SUBSET (1 .. MaxRows), updates : SUBSET Update,
           read : [AthleteIds -> Athlete \cup {None}]]

Nobody == [a \in AthleteIds |-> None]

EmptyFrame == [todo |-> <<>>, replies |-> <<>>, creates |-> {}, updates |-> {},
               read |-> Nobody]

Labels == {"idle", "resolve", "preview", "create", "update", "write",
           "done", "refused", "failed"}

TypeOK ==
    /\ athletes \in [AthleteIds -> Athlete \cup {None}]
    /\ pc \in [Requests -> Labels]
    /\ frame \in [Requests -> Frames]
    /\ imported \subseteq SourceRow \X AthleteIds
    /\ disturbed \subseteq AthleteIds
    /\ written \in [Requests -> SUBSET AthleteIds]
    /\ sound \subseteq AthleteIds

Init ==
    /\ athletes \in Existing
    /\ pc = [r \in Requests |-> "idle"]
    /\ frame = [r \in Requests |-> EmptyFrame]
    /\ imported = {}
    /\ disturbed = {}
    /\ written = [r \in Requests |-> {}]
    /\ sound = {}

-----------------------------------------------------------------------------

Goto(r, label) == pc' = [pc EXCEPT ![r] = label]

Finish(r, label) ==
    /\ Goto(r, label)
    /\ frame' = [frame EXCEPT ![r] = EmptyFrame]

Replies(r) == frame[r].replies
Updates(r) == frame[r].updates

Present == {a \in AthleteIds : athletes[a] # None}

Candidates(s) == {a \in Present : Listed(s, athletes[a]) /\ SameCandidate(s, athletes[a])}

\* An athlete loses a city, a club that says something, or who it is.
Loses(old, new) ==
    \/ old.who # new.who \/ old.gender # new.gender
    \/ old.city # None /\ new.city # old.city
    \/ Meaningful(old.club) /\ new.club # old.club

\* The table is written; the other clients learn which athletes have changed.
Write(r, table) ==
    LET W == {a \in AthleteIds : athletes[a] # table[a]} IN
    /\ athletes' = table
    /\ written' = [q \in Requests |-> IF q = r THEN written[q] ELSE written[q] \cup W]

-----------------------------------------------------------------------------
(* POST /admin/athlete/resolve-candidates.                                 *)

StartResolve(r) ==
    /\ pc[r] = "idle"
    /\ \E b \in Batches :
          frame' = [frame EXCEPT ![r].todo = b]
    /\ Goto(r, "resolve")
    /\ UNCHANGED <<athletes, history>>

\* One query for a row, unless the request has answered one that differs in nothing
\* that normalisation keeps; how the name is spelt is not kept.
Resolve(r) ==
    /\ pc[r] = "resolve" /\ frame[r].todo # <<>>
    /\ LET s == Head(frame[r].todo)
           cached == {i \in DOMAIN Replies(r) : CacheKey(Replies(r)[i].row) = CacheKey(s)}
           reply == IF cached # {} THEN [Replies(r)[CHOOSE i \in cached : TRUE] EXCEPT !.row = s]
                    ELSE [row |-> s, action |-> Decide(s, athletes, Candidates(s)),
                          seen |-> Candidates(s)]
       IN frame' = [frame EXCEPT ![r].todo = Tail(@), ![r].replies = Append(@, reply)]
    /\ Goto(r, IF Tail(frame[r].todo) = <<>> THEN "preview" ELSE "resolve")
    /\ UNCHANGED <<athletes, history>>

-----------------------------------------------------------------------------
(* POST /admin/athlete/resolve-preview.                                    *)

Choices == ({"match_existing", "enrich_existing"} \X AthleteIds)
           \cup {<<"create_new", None>>, <<"skip", None>>}

\* What a client asks for a row: what was recommended, or, where that is a review,
\* what the reviewer chooses among the candidates.
Sensible(reply, choice) ==
    /\ reply.action # "manual_review" => choice[1] = reply.action
    /\ choice[2] \in reply.seen \cup {None}

\* The preview accepts what is still safe: it decides again for the one athlete.
Accepted(s, choice) ==
    \/ /\ choice[1] = "match_existing"
       /\ DecideOne(s, athletes[choice[2]]) \in {"match_existing", "enrich_existing"}
    \/ /\ choice[1] = "enrich_existing"
       /\ DecideOne(s, athletes[choice[2]]) = "enrich_existing"

PatchFor(s, a) == SafePatch(SuggestedPatch(s, athletes[a]), athletes[a])

CanCreate(s) == s.gender # None

\* One query reads all the athletes that are named.
Preview(r) ==
    /\ pc[r] = "preview"
    /\ \E choice \in [DOMAIN Replies(r) -> Choices] :
          /\ \A i \in DOMAIN choice : Sensible(Replies(r)[i], choice[i])
          /\ LET Row(i) == Replies(r)[i].row
                 named   == {i \in DOMAIN choice : choice[i][2] # None}
                 taken   == {i \in named : Accepted(Row(i), choice[i])}
                 patched == {i \in taken : PatchFor(Row(i), choice[i][2]) # NoPatch}
             IN IF \E i \in named : choice[i][2] \notin Present
                THEN Finish(r, "refused") /\ UNCHANGED <<athletes, history>>
                ELSE /\ frame' = [frame EXCEPT
                           ![r].creates = {i \in DOMAIN choice : /\ choice[i][1] = "create_new"
                                                                 /\ CanCreate(Row(i))},
                           ![r].updates = {[at |-> i, row |-> Row(i), athlete |-> choice[i][2],
                                            patch |-> PatchFor(Row(i), choice[i][2])]
                                           : i \in patched}]
                     /\ imported' = imported \cup
                           {<<Row(i), choice[i][2]>> : i \in taken \ patched}
                     /\ written' = [written EXCEPT ![r] = {}]
                     /\ Goto(r, "create")
                     /\ UNCHANGED <<athletes, disturbed, sound>>

-----------------------------------------------------------------------------
(* POST /admin/athlete/bulk-create and bulk-update.                        *)

\* The name is stored as it is written, with the blanks around it.
Created(s) == [who |-> s.who, gender |-> s.gender, city |-> s.city,
               club |-> s.team, license |-> s.license]

\* One INSERT; a request knew of the others if its answer named all that the query
\* for the row would find.
BulkCreate(r) ==
    /\ pc[r] = "create"
    /\ LET Row(i) == Replies(r)[i].row
           new   == {<<r, i>> : i \in frame[r].creates}
           table == [a \in AthleteIds |-> IF a \in new THEN Created(Row(a[2])) ELSE athletes[a]]
           Knew(i) == \A a \in Present \cup (new \ {<<r, i>>}) :
                         Listed(Row(i), table[a]) => a \in Replies(r)[i].seen
       IN /\ Write(r, table)
          /\ imported' = imported \cup {<<Row(i), <<r, i>>>> : i \in frame[r].creates}
          /\ sound' = sound \cup {<<r, i>> : i \in {n \in frame[r].creates :
                                        Replies(r)[n].action = "create_new" /\ Knew(n)}}
    /\ Goto(r, "update")
    /\ UNCHANGED <<frame, disturbed>>

\* The athletes of all the items are read in one query ...
BulkUpdateRead(r) ==
    /\ pc[r] = "update"
    /\ IF Updates(r) = {} THEN Finish(r, "done")
       ELSE IF \E u \in Updates(r) : u.athlete \notin Present THEN Finish(r, "refused")
       ELSE frame' = [frame EXCEPT ![r].read = athletes] /\ Goto(r, "write")
    /\ UNCHANGED <<athletes, history>>

\* ... and the fields that any item changes are written for all of them.
Fields(r) == {f \in {"city", "club", "license"} : \E u \in Updates(r) : u.patch[f] # None}

\* Mutated: a field that is not in an item is blank.
ValueBlank(r, a, f) ==
    LET sent == {u \in Updates(r) : u.athlete = a /\ u.patch[f] # None} IN
    IF sent = {} THEN None
    ELSE (CHOOSE u \in sent : \A v \in sent : v.at <= u.at).patch[f]

\* Of several items for one athlete the last counts.
Value(r, a, f) ==
    LET sent == {u \in Updates(r) : u.athlete = a /\ u.patch[f] # None} IN
    IF sent = {} THEN frame[r].read[a][f]
    ELSE (CHOOSE u \in sent : \A v \in sent : v.at <= u.at).patch[f]

Updated(r, a) ==
    [athletes[a] EXCEPT !.city    = IF "city" \in Fields(r) THEN Value(r, a, "city") ELSE @,
                        !.club    = IF "club" \in Fields(r) THEN Value(r, a, "club") ELSE @,
                        !.license = IF "license" \in Fields(r) THEN Value(r, a, "license") ELSE @]

BulkUpdateWrite(r) ==
    /\ pc[r] = "write"
    /\ LET ids   == {u.athlete : u \in Updates(r)} \cap Present
           table == [a \in AthleteIds |-> IF a \in ids THEN Updated(r, a) ELSE athletes[a]]
       IN /\ Write(r, table)
          /\ imported' = imported \cup {<<u.row, u.athlete>> :
                                           u \in {v \in Updates(r) : v.athlete \in ids}}
          /\ disturbed' = disturbed \cup {a \in ids :
                 \/ Loses(athletes[a], table[a])
                 \/ \E u \in Updates(r) : /\ u.athlete = a
                                          /\ Loses(Patched(athletes[a], u.patch), table[a])}
    /\ Finish(r, "done")
    /\ UNCHANGED sound

-----------------------------------------------------------------------------
(* PUT and DELETE /admin/athlete/{id}.                                     *)

\* The body has every field.
EditAthlete(r) ==
    /\ pc[r] = "idle"
    /\ \E a \in Present, e \in Edits :
          /\ Write(r, [athletes EXCEPT ![a] = e])
          /\ disturbed' = IF Loses(athletes[a], e) THEN disturbed \cup {a} ELSE disturbed
          /\ sound' = sound \ {a}
    /\ Goto(r, "done")
    /\ UNCHANGED <<frame, imported>>

DeleteAthlete(r) ==
    /\ pc[r] = "idle"
    /\ \E a \in Present :
          /\ Write(r, [athletes EXCEPT ![a] = None])
          /\ sound' = sound \ {a}
    /\ Goto(r, "done")
    /\ UNCHANGED <<frame, imported, disturbed>>

\* A client goes no further, or a handler fails.
Stop(r) ==
    /\ pc[r] \in {"resolve", "preview", "create", "update", "write"}
    /\ Finish(r, "failed")
    /\ UNCHANGED <<athletes, history>>

-----------------------------------------------------------------------------

Next ==
    \E r \in Requests : \/ StartResolve(r) \/ Resolve(r) \/ Preview(r)
                        \/ BulkCreate(r) \/ BulkUpdateRead(r) \/ BulkUpdateWrite(r)
                        \/ EditAthlete(r) \/ DeleteAthlete(r) \/ Stop(r)

Spec == Init /\ [][Next]_vars

-----------------------------------------------------------------------------
(* Properties.                                                             *)

\* A row that was taken to be an athlete, matched, enriched or created, is never
\* recommended to be created again while the athlete is there, has lost nothing and
\* is spelt like the row: whatever other rows fill in, it stays recognisable. The
\* exception is real: a name stored with blanks around it is not even found by the
\* row it is from, nor one that a row of another spelling was given from the cache.
Recognised ==
    \A p \in imported :
        p[2] \in Present \ disturbed /\ SpeltAs(p[1], athletes[p[2]]) =>
            Decide(p[1], athletes, Candidates(p[1])) # "create_new"

\* Unless another request has written an athlete since the preview, bulk-update
\* takes nothing from it, and does to it exactly what the preview has answered
\* where that is one patch, whatever else the batch changes.
PatchedUnlessRaced ==
    [][\A r \in Requests : pc[r] = "write" /\ pc'[r] = "done" =>
          \A u \in Updates(r) :
             LET a == u.athlete IN
             athletes[a] # None /\ a \notin written[r] =>
                 /\ ~Loses(athletes[a], athletes'[a])
                 /\ (\A v \in Updates(r) : v.athlete = a => v = u) =>
                       athletes'[a] = Patched(athletes[a], u.patch)]_vars

\* The candidates of a row are shown by score, the best first. Whatever the points add up
\* to, one that would be matched comes before every other, and one whose club or city
\* speaks against the row after every other: no sum of small agreements outweighs either.
RankedByTrust ==
    \A r \in {q \in Requests : frame[q].todo # <<>>} :
        LET s == Head(frame[r].todo)
            C == Candidates(s)
        IN \A x, y \in C :
              \/ StrictMatch(s, athletes[x]) /\ ~StrictMatch(s, athletes[y])
              \/ ~MeaningfulConflict(s, athletes[x]) /\ MeaningfulConflict(s, athletes[y])
              => Score(s, athletes[x]) > Score(s, athletes[y])

\* Advice alone makes at most two athletes that are spelt alike and can be found:
\* beyond that somebody chose to create one, or requests or rows of one batch did not
\* know of each other. Nothing bounds how many it makes of a name with blanks around
\* it, and each spelling of a person is counted for itself.
TwoAtMost ==
    \A s \in {[who |-> n, gender |-> g] : n \in Names, g \in Genders} :
        Cardinality({a \in sound : Listed(s, athletes[a])}) <= 2
=============================================================================

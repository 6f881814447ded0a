---------------------------- MODULE ResultCaches ----------------------------
(***************************************************************************)
(* Answers that are kept: the top tables, the results of an athlete and    *)
(* the sitemap, each read through a cache in Redis, and the rankings of    *)
(* athletes that a nightly job computes from the cached tables.            *)
(*                                                                         *)
(* What a statement finds is the version of the database at that moment. A *)
(* fill is several awaits, and nothing invalidates an entry but its age.   *)
(* Time goes in ticks.                                                     *)
(***************************************************************************)
EXTENDS Integers, Sequences, FiniteSets

CONSTANTS
    Requests,               \* clients, each asking again and again
    Order,                  \* the tables of the job: seasons by categories
    Athletes,
    Pages,                  \* other keys: "performances", "sitemap"
    MaxVersion, Rows,       \* Rows[t][v]: the athletes in version v of table t
    Hour, Quarter, Day,     \* in ticks
    MaxTook,                \* bound: ticks a fill, or the job, may last
    MaxFailures,            \* bound: nights on which the job fails
    None

Tables == {Order[n] : n \in DOMAIN Order}
Keys == Tables \cup Pages
Versions == 0 .. MaxVersion
Callers == Requests \cup {"job"}

ASSUME KeysAssumption ==
    /\ Order \in Seq(Tables) /\ Order # <<>>
    /\ Pages \subseteq {"performances", "sitemap"} /\ Tables \cap {"performances", "sitemap"} = {}
    /\ "job" \notin Requests
ASSUME RowsAssumption == MaxVersion \in Nat /\ Rows \in [Tables -> [Versions -> SUBSET Athletes]]
ASSUME TimeAssumption == {Hour, Quarter, Day} \subseteq Nat \ {0} /\ {MaxTook, MaxFailures} \subseteq Nat

\* The statements of a fill: one query; the athlete, the results and, prefetched, the
\* competitions; competitions and athletes with their last results.
Statements(k) ==
    CASE k \in Tables -> 1 [] k = "performances" -> 3 [] k = "sitemap" -> 2

Lifetime(k) == IF k = "performances" THEN Quarter ELSE Hour

\* Ages are counted up to where they no longer matter.
Cap == 2 * Day + Hour + 2 * MaxTook + 1

VARIABLES
    version,    \* the newest, of results, athletes and competitions together
    past,       \* history: for how long a version is no longer the newest
    cache,      \* Redis: for every key None or [value, age], the versions by statement
    pc, key,    \* where a caller is and what it asks for
    read,       \* what its statements have found
    took,       \* ticks since it missed, for the job since it began
    clock,      \* of the day
    collected,  \* the tables the job has got so far
    rankings,   \* MongoDB: for every athlete the version by table, None where there is none
    since,      \* history: ticks since the last completed job began
    dropped,    \* history: the athletes that job found in no table
    failures    \* so far

jobVars == <<collected, rankings, since, dropped>>
vars == <<version, past, cache, pc, key, read, took, clock, failures, jobVars>>

Lesser(m, n) == IF m <= n THEN m ELSE n

\* What version v of a table says of an athlete.
Says(t, v, a) == IF a \in Rows[t][v] THEN v ELSE None

Init ==
    /\ version = 0
    /\ past = [v \in Versions |-> 0]
    /\ cache = [k \in Keys |-> None]
    /\ pc = [c \in Callers |-> "idle"]
    /\ key = [c \in Callers |-> None]
    /\ read = [c \in Callers |-> <<>>]
    /\ took = [c \in Callers |-> 0]
    /\ clock = 1
    /\ collected = <<>>
    /\ rankings = [a \in Athletes |-> [t \in Tables |-> None]]
    /\ since = Cap
    /\ dropped = {}
    /\ failures = 0

-----------------------------------------------------------------------------
(* The cache.                                                              *)

\* An empty list is stored and never served: `if cached`.
Served(k) ==
    /\ cache[k] # None
    /\ k \in Tables => Rows[k][cache[k].value[1]] # {}

Goto(c, label) == pc' = [pc EXCEPT ![c] = label]

Forget(c) == key' = [key EXCEPT ![c] = None] /\ read' = [read EXCEPT ![c] = <<>>]

\* The caller has an answer: a client goes away with it, the job goes on.
Answered(c, value) ==
    IF c = "job"
    THEN /\ collected' = Append(collected, value[1])
         /\ Goto(c, IF Len(collected) + 1 = Len(Order) THEN "save" ELSE "next")
         /\ UNCHANGED <<rankings, since, dropped>>
    ELSE Goto(c, "idle") /\ UNCHANGED jobVars

\* Mutated: an entry that is served is set again, with a new life.
LookupAgain(c, k) ==
    /\ IF Served(k)
       THEN /\ Answered(c, cache[k].value) /\ cache' = [cache EXCEPT ![k].age = 0]
            /\ UNCHANGED key
       ELSE /\ Goto(c, "query") /\ key' = [key EXCEPT ![c] = k]
            /\ UNCHANGED <<jobVars, cache>>
    /\ UNCHANGED <<version, past, read, took, clock, failures>>

Lookup(c, k) ==
    /\ IF Served(k)
       THEN Answered(c, cache[k].value) /\ UNCHANGED key
       ELSE Goto(c, "query") /\ key' = [key EXCEPT ![c] = k] /\ UNCHANGED jobVars
    /\ UNCHANGED <<version, past, cache, read, took, clock, failures>>

\* The next statement.
Query(c) ==
    /\ pc[c] = "query"
    /\ read' = [read EXCEPT ![c] = Append(@, version)]
    /\ Goto(c, IF Len(read'[c]) = Statements(key[c]) THEN "store" ELSE "query")
    /\ UNCHANGED <<version, past, cache, key, took, clock, failures, jobVars>>

\* SET with an expiry, whatever is there.
Store(c) ==
    /\ pc[c] = "store"
    /\ cache' = [cache EXCEPT ![key[c]] = [value |-> read[c], age |-> 0]]
    /\ Answered(c, read[c])
    /\ Forget(c)
    /\ took' = IF c = "job" THEN took ELSE [took EXCEPT ![c] = 0]
    /\ UNCHANGED <<version, past, clock, failures>>

Ask(r) == pc[r] = "idle" /\ \E k \in Keys : Lookup(r, k)

\* A statement, Redis or MongoDB raises: the job is over for this night.
Fail(c) ==
    /\ pc[c] # "idle"
    /\ IF c = "job" THEN failures < MaxFailures /\ failures' = failures + 1 ELSE UNCHANGED failures
    /\ Goto(c, "idle") /\ Forget(c)
    /\ took' = [took EXCEPT ![c] = 0]
    /\ collected' = IF c = "job" THEN <<>> ELSE collected
    /\ UNCHANGED <<version, past, cache, clock, rankings, since, dropped>>

-----------------------------------------------------------------------------
(* The job.                                                                *)

NextTable ==
    /\ pc["job"] = "next"
    /\ Lookup("job", Order[Len(collected) + 1])

Of(a) == [t \in Tables |->
            LET n == CHOOSE m \in DOMAIN Order : Order[m] = t IN Says(t, collected[n], a)]

Found == {a \in Athletes : \E t \in Tables : Of(a)[t] # None}

\* Mutated: the rankings an athlete has no longer are left in the document.
SavedOver(a) == [t \in Tables |-> IF Of(a)[t] = None THEN rankings[a][t] ELSE Of(a)[t]]

Saved(a) == Of(a)

\* The operations of bulk_write go one by one; without any it raises.
Save ==
    /\ pc["job"] = "save"
    /\ LET todo == {a \in Found : rankings[a] # Saved(a)} IN
       \/ /\ \E a \in todo : rankings' = [rankings EXCEPT ![a] = Saved(a)]
          /\ UNCHANGED <<collected, since, dropped, pc>>
       \/ /\ todo = {}
          /\ Goto("job", "idle")
          /\ collected' = <<>>
          /\ IF Found = {} THEN UNCHANGED <<since, dropped>>
             ELSE since' = took["job"] /\ dropped' = Athletes \ Found
          /\ UNCHANGED rankings
    /\ UNCHANGED <<version, past, cache, key, read, took, clock, failures>>

-----------------------------------------------------------------------------
(* Time and the others.                                                    *)

\* Mutated: a job that has failed is not run again.
JobUntilFailure == clock' = 0 /\ pc["job"] = "idle" /\ failures = 0

\* Cron, at midnight, unless the last job is still at it.
JobDue == clock' = 0 /\ pc["job"] = "idle"

Expired(k) == cache[k].age + 1 >= Lifetime(k)

Tick ==
    /\ \A c \in Callers : pc[c] # "idle" => took[c] < MaxTook
    /\ clock' = (clock + 1) % Day
    /\ past' = [v \in Versions |-> IF v < version THEN Lesser(past[v] + 1, Cap) ELSE 0]
    /\ cache' = [k \in Keys |-> IF cache[k] = None THEN None
                                ELSE IF Expired(k) THEN None ELSE [cache[k] EXCEPT !.age = @ + 1]]
    /\ since' = Lesser(since + 1, Cap)
    /\ pc' = [pc EXCEPT !["job"] = IF JobDue THEN "next" ELSE @]
    /\ took' = [c \in Callers |-> IF c = "job" /\ JobDue THEN 0
                                  ELSE IF pc[c] = "idle" THEN 0 ELSE took[c] + 1]
    /\ UNCHANGED <<version, key, read, collected, rankings, dropped, failures>>

\* Results, athletes or competitions are written.
Change ==
    /\ version < MaxVersion
    /\ version' = version + 1
    /\ UNCHANGED <<past, cache, pc, key, read, took, clock, failures, jobVars>>

Next ==
    \/ \E r \in Requests : Ask(r)
    \/ \E c \in Callers : Query(c) \/ Store(c) \/ Fail(c)
    \/ NextTable \/ Save \/ Tick \/ Change

Spec == Init /\ [][Next]_vars

\* Requests and the job go on, and so does time; nobody need ask or change anything.
Fairness ==
    /\ WF_vars(Tick) /\ WF_vars(NextTable) /\ WF_vars(Save)
    /\ \A c \in Callers : WF_vars(Query(c)) /\ WF_vars(Store(c))

FairSpec == Spec /\ Fairness

-----------------------------------------------------------------------------
(* Properties.                                                             *)

\* What can be answered, from the cache or after a fill, was so in the database not
\* longer ago than an entry lives and its fill lasted, although parts of one answer may
\* never have been true together (get_top_results, get_athlete_results, generate_sitemap).
ServesRecent ==
    /\ \A k \in Keys : cache[k] # None =>
          \A n \in 1 .. Statements(k) : past[cache[k].value[n]] < Lifetime(k) + MaxTook
    /\ \A c \in Callers : \A n \in DOMAIN read[c] : past[read[c][n]] <= took[c]

\* Since a job has come to its end, the rankings of an athlete show of every table what
\* it said of him when that job began or later, or not longer before than an entry of the
\* cache lives and a fill lasts; only one whom the job found in no table keeps what he had.
RankingsExplained ==
    since < Cap =>
        \A a \in Athletes \ dropped, t \in Tables :
            \E v \in 0 .. version :
                /\ rankings[a][t] = Says(t, v, a)
                /\ past[v] < since + Hour + MaxTook

\* When the results no longer change, everybody who is in a table has the rankings of
\* the tables in the end: failures, races of fills and old entries wear off.
RankingsSettle ==
    <>[](\A a \in Athletes :
            (\E t \in Tables : a \in Rows[t][version]) =>
                \A t \in Tables : rankings[a][t] = Says(t, version, a))
=============================================================================

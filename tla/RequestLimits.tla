----------------------------- MODULE RequestLimits -----------------------------
(***************************************************************************)
(* The counters in Redis that bound how often a thing is done, and the     *)
(* nonces that pay for a protection token.                                 *)
(*                                                                         *)
(* There are two ways of counting.  Sending mail and uploading avatars     *)
(* (create_ratelimit) read the counter and then create it or add to it;    *)
(* challenges and tokens add first, look at the sum, and set when the      *)
(* counter ends in a call of its own.  A counter without an end stays.     *)
(* Each command of Redis is atomic; others run in between.                 *)
(***************************************************************************)
EXTENDS Integers, FiniteSets

CONSTANTS
    Askers,       \* handler executions, each used once
    Limits,         \* counters: the kind of request each belongs to, a subset of Kinds
    Count,          \* how many requests a counter lets through
    Nothing

Kinds == {"send", "challenge", "token"}

\* Counted by create_ratelimit.
Reading == {"send"}

ASSUME LimitsAssumption ==
    /\ Limits \subseteq Kinds
    /\ Count \in Nat \ {0}
    /\ Nothing \notin Askers

VARIABLES
    counter,        \* each counter's value, 0 where there is no key
    ends,           \* counters that have a time to live
    nonces,         \* nonces that wait for their token, named by their challenge
    place,
    kind,           \* what a request asks for
    paid,           \* the nonce a token was issued for
    passed,         \* history: let through by the counter since it was last begun
    stale           \* history: the counter changed since the request read it

redis   == <<counter, ends, nonces>>
history == <<passed, stale>>
limitsVars == <<redis, place, kind, paid, history>>

LimitsTypeOK ==
    /\ counter \in [Limits -> Nat]
    /\ ends \subseteq {l \in Limits : counter[l] > 0}
    /\ nonces \subseteq Askers
    /\ place \in [Askers -> {"idle", "begin", "add", "expire", "serve",
                            "done", "refused", "died"}]
    /\ kind \in [Askers -> Limits \cup {Nothing}]
    /\ paid \in [Askers -> Askers \cup {Nothing}]
    /\ passed \in [Limits -> SUBSET Askers]
    /\ stale \subseteq Askers

LimitsInit ==
    /\ counter = [l \in Limits |-> 0]
    /\ ends = {}
    /\ nonces = {}
    /\ place = [r \in Askers |-> "idle"]
    /\ kind = [r \in Askers |-> Nothing]
    /\ paid = [r \in Askers |-> Nothing]
    /\ passed = [l \in Limits |-> {}]
    /\ stale = {}

-----------------------------------------------------------------------------

Moves(r, label) == place' = [place EXCEPT ![r] = label]

\* Askers between their read of counter l and their write.
Readers(l) == {q \in Askers : kind[q] = l /\ place[q] \in {"begin", "add"}}

\* Counter l becomes n, of which r is the last that is let through, if it is.
Counts(r, l, n, through) ==
    /\ counter' = [counter EXCEPT ![l] = n]
    /\ passed' = [passed EXCEPT ![l] =
                    (IF n = 1 THEN {} ELSE passed[l]) \cup (IF through THEN {r} ELSE {})]
    /\ stale' = stale \cup (Readers(l) \ {r})

\* Mutated: one more is let through.
RefusesLate(n) == n > Count

Refuses(n) == n >= Count

\* create_ratelimit: redis.get
ReadAttempts(r, l) ==
    /\ place[r] = "idle" /\ l \in Reading
    /\ kind' = [kind EXCEPT ![r] = l]
    /\ Moves(r, IF counter[l] = 0 THEN "begin"
               ELSE IF Refuses(counter[l]) THEN "refused" ELSE "add")
    /\ UNCHANGED <<redis, paid, history>>

\* redis.set with its time to live, whatever is there by now.
BeginCounter(r) ==
    /\ place[r] = "begin"
    /\ Counts(r, kind[r], 1, TRUE)
    /\ ends' = ends \cup {kind[r]}
    /\ Moves(r, "done")
    /\ UNCHANGED <<nonces, kind, paid>>

\* redis.incrby, which begins a counter without an end where there is none.
AddAttempt(r) ==
    /\ place[r] = "add"
    /\ Counts(r, kind[r], counter[kind[r]] + 1, TRUE)
    /\ Moves(r, "done")
    /\ UNCHANGED <<ends, nonces, kind, paid>>

\* Mutated: only the first request sets the end.
HitEndFirst(r, l) ==
    /\ place[r] = "idle" /\ l \notin Reading
    /\ kind' = [kind EXCEPT ![r] = l]
    /\ LET n == counter[l] + 1 IN
       /\ Counts(r, l, n, n <= Count)
       /\ Moves(r, IF n = 1 THEN "expire" ELSE IF n <= Count THEN "serve" ELSE "refused")
    /\ UNCHANGED <<ends, nonces, paid>>

\* client.incr and the comparison with its answer.
Hit(r, l) ==
    /\ place[r] = "idle" /\ l \notin Reading
    /\ kind' = [kind EXCEPT ![r] = l]
    /\ LET n == counter[l] + 1 IN
       /\ Counts(r, l, n, n <= Count)
       /\ Moves(r, IF n <= Count THEN "expire" ELSE "refused")
    /\ UNCHANGED <<ends, nonces, paid>>

\* client.expire, which does nothing to a counter that is gone.
SetEnd(r) ==
    /\ place[r] = "expire"
    /\ ends' = IF counter[kind[r]] > 0 THEN ends \cup {kind[r]} ELSE ends
    /\ Moves(r, "serve")
    /\ UNCHANGED <<counter, nonces, kind, paid, history>>

GiveNonce(r) ==
    /\ place[r] = "serve" /\ kind[r] = "challenge"
    /\ nonces' = nonces \cup {r}
    /\ Moves(r, "done")
    /\ UNCHANGED <<counter, ends, kind, paid, history>>

\* The nonce is deleted first; then the work and the proof of possession are good or not.
IssueToken(r) ==
    /\ place[r] = "serve" /\ kind[r] = "token"
    /\ \/ \E n \in nonces :
             /\ nonces' = nonces \ {n}
             /\ \/ paid' = [paid EXCEPT ![r] = n] /\ Moves(r, "done")
                \/ paid' = paid /\ Moves(r, "refused")
       \/ Moves(r, "refused") /\ UNCHANGED <<nonces, paid>>
    /\ UNCHANGED <<counter, ends, kind, history>>

\* Time passes in Redis.
EndCounter(l) ==
    /\ l \in ends
    /\ counter' = [counter EXCEPT ![l] = 0]
    /\ ends' = ends \ {l}
    /\ stale' = stale \cup Readers(l)
    /\ UNCHANGED <<nonces, place, kind, paid, passed>>

EndNonce(n) ==
    /\ n \in nonces
    /\ nonces' = nonces \ {n}
    /\ UNCHANGED <<counter, ends, place, kind, paid, history>>

\* A command fails, or the process dies, which is no answer either: "died" where it
\* leaves the counter without an end.
BreakOff(r) ==
    /\ place[r] \in {"begin", "add", "expire", "serve"}
    /\ Moves(r, IF place[r] = "expire" THEN "died" ELSE "refused")
    /\ UNCHANGED <<redis, kind, paid, history>>

\* A request arrives with its first command.
Arrive(r) == \E l \in Limits : ReadAttempts(r, l) \/ Hit(r, l)

Proceed(r) ==
    \/ BeginCounter(r) \/ AddAttempt(r)
    \/ SetEnd(r) \/ GiveNonce(r) \/ IssueToken(r)

LimitsNext ==
    \/ \E r \in Askers : Arrive(r) \/ Proceed(r) \/ BreakOff(r)
    \/ \E l \in Limits : EndCounter(l)
    \/ \E n \in Askers : EndNonce(n)

LimitsSpec == LimitsInit /\ [][LimitsNext]_limitsVars

\* The event loop resumes every handler, and Redis ends every counter that has an end.
FairLimitsSpec == LimitsSpec /\ \A r \in Askers : WF_limitsVars(Proceed(r))
                 /\ \A l \in Limits : WF_limitsVars(EndCounter(l))

-----------------------------------------------------------------------------
(* Properties.                                                             *)

\* From one beginning of a counter to the next no more than Count requests are let
\* through. (A set by a request that found no counter, when another has set it since, is
\* a beginning as well: it forgets the requests that were counted.) Those are left aside
\* that acted on a counter that had changed since they read it (get before set and incrby in
\* create_ratelimit; incr and its answer elsewhere).
WithinLimit == \A l \in Limits : Cardinality(passed[l] \ stale) <= Count

\* A counter has no end only while everyone it let through is about to set it or died
\* before (incr, then expire), or after an addition to a counter that had ended since
\* it was read (get, then incrby).
EndlessExplained ==
    \A l \in Limits : counter[l] > 0 /\ l \notin ends =>
        IF l \in Reading THEN passed[l] \cap stale # {}
        ELSE passed[l] # {} /\ \A r \in passed[l] : place[r] \in {"expire", "died"}

\* A token is paid for by a challenge that was given and is spent (delete before the
\* checks in issue_token): of two tokens asked for with one nonce, one at most is issued.
TokensPaid ==
    \A r \in Askers : paid[r] # Nothing =>
        /\ kind[paid[r]] = "challenge" /\ place[paid[r]] = "done" /\ paid[r] \notin nonces
        /\ \A q \in Askers : paid[q] = paid[r] => q = r

\* What a counter admits, why it may have no end, and what a token was paid with.
CountersExplained == LimitsTypeOK /\ WithinLimit /\ EndlessExplained /\ TokensPaid

\* A counter that refuses for good: it has no end, and nobody is left to give it one.
Locked(l) ==
    /\ l \notin ends
    /\ IF l \in Reading THEN passed[l] \cap stale # {}
       ELSE \A r \in passed[l] : place[r] = "died"

\* A counter at its limit comes down again, unless it is locked by those that died or
\* by a late addition.
LimitLifts == \A l \in Limits : counter[l] >= Count ~> (counter[l] < Count \/ Locked(l))
=============================================================================

---------------------------- MODULE SessionLedger ----------------------------
(***************************************************************************)
(* What the session and refresh-token tables promise to whoever reads      *)
(* them, with no word about requests, users, JWTs or time.                 *)
(***************************************************************************)
CONSTANTS Sessions, Tokens, None

VARIABLES
    family,     \* family[t]: the session of token t, None before it exists
    ended,      \* ended sessions
    spent       \* spent tokens

ledger == <<family, ended, spent>>

Init ==
    /\ family = [t \in Tokens |-> None]
    /\ ended = {}
    /\ spent = {}

\* The first token of a session.
Open(s, t) ==
    /\ family[t] = None
    /\ \A x \in Tokens : family[x] # s
    /\ family' = [family EXCEPT ![t] = s]
    /\ UNCHANGED <<ended, spent>>

\* A token is spent in the very step that puts its successor beside it.
Rotate(p, t) ==
    /\ family[p] # None
    /\ family[t] = None
    /\ family' = [family EXCEPT ![t] = family[p]]
    /\ spent' = spent \cup {p}
    /\ UNCHANGED ended

\* Sessions end for good.
End(S) ==
    /\ ended' = ended \cup S
    /\ UNCHANGED <<family, spent>>

\* Otherwise tokens are spent only when their session has ended already.
Sweep(T) ==
    /\ \A t \in T : family[t] \in ended
    /\ spent' = spent \cup T
    /\ UNCHANGED <<family, ended>>

Next ==
    \/ \E s \in Sessions, t \in Tokens : Open(s, t)
    \/ \E p, t \in Tokens : Rotate(p, t)
    \/ \E S \in SUBSET Sessions : End(S)
    \/ \E T \in SUBSET Tokens : Sweep(T)

Spec == Init /\ [][Next]_ledger
=============================================================================

---------------------------- MODULE MCRequestLimits ----------------------------
(* Small instances of RequestLimits. *)
EXTENDS RequestLimits, Sequences

CONSTANTS r1, r2, r3, r4

\* Requests differ in nothing but their names, so those that have begun may be
\* taken to be the first of the list.  Unlike a symmetry, this keeps what the
\* liveness properties look at.
Order == <<r1, r2, r3, r4>>

InOrder == \A i \in 2 .. Len(Order) :
    place'[Order[i]] # "idle" => place'[Order[i - 1]] # "idle"
=============================================================================

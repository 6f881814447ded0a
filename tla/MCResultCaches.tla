--------------------------- MODULE MCResultCaches ---------------------------
EXTENDS ResultCaches

\* Two tables, one of them empty at first: an athlete passes from one to the other.
MCOrder == <<"young", "adult">>
MCRows == [young |-> [v \in 0 .. MaxVersion |-> IF v = 0 THEN {} ELSE {"a"}],
           adult |-> [v \in 0 .. MaxVersion |-> IF v = 0 THEN {"a", "b"} ELSE {"b"}]]

\* Pages have nothing to do with each other: one at a time is in use.
OnePage ==
    \A k, l \in Pages : k # l =>
        \E p \in {k, l} : cache'[p] = None /\ \A r \in Requests : key'[r] # p
=============================================================================

------------------------- MODULE MCCompetitionAdmin -------------------------
EXTENDS CompetitionAdmin, Sequences, TLC

CONSTANTS m1, m2, m3

Symmetry == Permutations(Requests) \cup Permutations(Athletes) \cup Permutations(Competitions)
                \cup Permutations(Initial)

\* Clerks are all alike and begin in their order; two of them see to distances.
Order == <<m1, m2, m3>>

InOrder == \A n \in 2 .. Len(Order) : desk'[Order[n]] # "idle" => desk'[Order[n - 1]] # "idle"

Field(does) == CASE does \in {"edit", "mark", "unmark"} -> "competition"
                 [] does = "standard" -> "standard"
                 [] OTHER -> "distance"

Busy == {m \in Clerks : desk[m] # "idle"}

\* Clerks meet requests where a competition is deleted, whatever its results, and each
\* other where they change the same kind of row; anything else is apart.
Meeting ==
    \/ /\ IF Busy = {} THEN Next ELSE \E r \in Requests : DeleteCompetition(r)
       /\ Cascade /\ UNCHANGED <<details, standards, desk, task, seen, rivals>>
    \/ /\ \A r \in Requests : op[r] \in {"none", "competition"}
       /\ \A x, y \in Initial : results[x] = results[y]
       /\ ClerkNext /\ UNCHANGED vars
       /\ desk'[m3] # "idle" => Field(task'[m3].does) # "distance"
       /\ \A m \in Busy, n \in Clerks : desk'[n] # "idle" => Field(task'[m].does) = Field(task'[n].does)

MeetingSpec == AllInit /\ [][Meeting]_allVars
=============================================================================

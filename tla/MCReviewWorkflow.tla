--------------------------- MODULE MCReviewWorkflow ---------------------------
(* ReviewWorkflow with lists of one source and of two.                     *)
EXTENDS ReviewWorkflow, TLC

CONSTANTS s1, s2, city, club

Single == {<<s1>>}
Pairs  == {<<s1>>, <<s1, s2>>}

\* One field of an athlete, the other is blank.
OneEach == {{f} : f \in Fields}

\* Every athlete is created with a city and without a club. No step looks at two athletes'
\* fields, so it is the same which of the fields each of them has.
CityFirst == \A a \in athletes' \ athletes : filled'[a][city] # None

Symmetry == Permutations(Requests)
=============================================================================

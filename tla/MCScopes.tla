------------------------------ MODULE MCScopes ------------------------------
EXTENDS Scopes, FiniteSetsExt

CONSTANTS c1, c2, r1, r2

Text(negated, category, right) == [negated |-> negated, category |-> category, right |-> right]

\* Of all categories: masks, and a right that replaces what is below and is never found.
OfAll == {Text(FALSE, Star, Absent), Text(TRUE, Star, Absent), Text(FALSE, Star, Grant(r1))}
OfCategory == {Text(FALSE, c1, Absent), Text(TRUE, c1, Absent), Text(FALSE, c1, Deny(Star))}
OfRight == {Text(FALSE, c1, Grant(r1)), Text(TRUE, c1, Grant(r1)),
            Text(FALSE, c1, Grant(r2)), Text(FALSE, c1, Deny(r2)),
            Text(FALSE, c2, Grant(r1))}

AllTexts == OfAll \cup OfCategory \cup OfRight
UpTo(k, S) == UNION {kSubset(n, S) : n \in 0 .. k}

RoleOf(n, k, inh, P) == [name |-> n, rank |-> k, inherits |-> inh, permissions |-> P]
Layer(roles, P) == [roles |-> roles, permissions |-> P]

UserOnly == {[roles |-> <<>>, defaults |-> Layer(<<>>, {}), user |-> Layer(<<>>, P)] : P \in SUBSET AllTexts}
Pairs == {[roles |-> <<>>, defaults |-> Layer(<<>>, P), user |-> Layer(<<>>, Q)] :
             P \in UpTo(2, AllTexts), Q \in UpTo(2, AllTexts)}
Few == {{}, {Text(TRUE, c1, Grant(r1))}, {Text(FALSE, c1, Grant(r2))}}
WithRoles == {[roles |-> <<RoleOf("low", 1, <<>>, P), RoleOf("high", k, inh, Q)>>,
               defaults |-> Layer(d, {}), user |-> Layer(u, R)] :
             P \in UpTo(2, OfCategory \cup OfRight), Q \in UpTo(1, AllTexts), R \in Few,
             k \in {1, 2}, inh \in {<<>>, <<"low">>}, d \in {<<>>, <<"low">>},
             u \in {<<"low", "high">>, <<"high", "gone">>}}

MCInputs == UserOnly \cup Pairs \cup WithRoles
=============================================================================

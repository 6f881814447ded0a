------------------------------- MODULE Scopes -------------------------------
(***************************************************************************)
(* What a list of scopes permits: the scopes of the defaults, of roles and *)
(* of a user are merged by priority, simplified, written into the access   *)
(* token, and looked up there when an endpoint requires a scope.           *)
(*                                                                         *)
(* A scope is read as [negated, category, right]: `-posts` is negated and  *)
(* has no right; `posts:-read` has a right that is denied.                 *)
(***************************************************************************)
EXTENDS Integers, Sequences, Functions, Orders

CONSTANTS
    Categories, Names,      \* of scopes, and of the rights in a category
    Star,                   \* the mask "*", in either place
    Absent,
    Inputs                  \* what combine_all_scopes may be called with

Right(deny, name) == [deny |-> deny, name |-> name]

Deny(name)  == Right(TRUE, name)
Grant(name) == Right(FALSE, name)

Rights == [deny : BOOLEAN, name : Names \cup {Star}]

\* A denied right has one minus sign.
Scopes == {s \in [negated : BOOLEAN, category : Categories \cup {Star},
                  right : Rights \cup {Absent}] :
              s.negated /\ s.right # Absent => ~s.right.deny}

\* A list of scopes, the roles in it apart from the permissions.
List == [roles : Seq(STRING), permissions : SUBSET Scopes]

\* Roles in the order of their dictionary; a role inherits at most one.
Role == [name : STRING, rank : Int, inherits : {<<>>} \cup Seq(STRING), permissions : SUBSET Scopes]

ASSUME InputsAssumption ==
    /\ Star \notin Categories \cup Names
    /\ Absent \notin Rights
    /\ \A i \in Inputs :
          /\ i.defaults \in List /\ i.user \in List /\ i.roles \in Seq(Role)
          /\ \A n \in DOMAIN i.roles : Len(i.roles[n].inherits) <= 1
          /\ \A m, n \in DOMAIN i.roles : i.roles[m].name = i.roles[n].name => m = n

VARIABLES
    input,      \* of the call
    token       \* the scopes of the access token, Absent where there is none

scopeVars == <<input, token>>

\* The rights of a category; one that is not mentioned is not in the domain.
RightsOf(m, c) == IF c \in DOMAIN m THEN m[c] ELSE {}

Nothing == [c \in {} |-> {}]

-----------------------------------------------------------------------------
(* Steps of combine.py.                                                    *)

\* A category without a right is all of it.
group_scopes(scopes) ==
    LET Read(s) == IF s.right = Absent THEN Right(s.negated, Star)
                   ELSE Right(s.negated \/ s.right.deny, s.right.name)
    IN [c \in {s.category : s \in scopes} |->
           {Read(s) : s \in {t \in scopes : t.category = c}}]

\* Both masks leave nothing, "-*" leaves only what is granted.
simplify_by_masks(rights) ==
    LET all  == Grant(Star) \in rights
        none == Deny(Star) \in rights
    IN {r \in rights : /\ ~(all /\ none)
                       /\ all => r.deny \/ r.name = Star
                       /\ none => ~r.deny}

resolve_conflicts(rights) == {r \in rights : ~r.deny => Deny(r.name) \notin rights}

optimize_categories(m) == [c \in DOMAIN m |-> resolve_conflicts(simplify_by_masks(m[c]))]

merge_rights_by_category(M) ==
    [c \in UNION {DOMAIN m : m \in M} |-> UNION {RightsOf(m, c) : m \in M}]

\* Mutated: the lower rights have priority.
MergeLowFirst(low, high) ==
    IF Star \in DOMAIN high THEN high
    ELSE [c \in DOMAIN low \cup DOMAIN high |->
             resolve_conflicts(RightsOf(low, c)) \cup
             {r \in resolve_conflicts(RightsOf(high, c)) :
                 \A l \in RightsOf(low, c) : l.name # r.name}]

merge_scopes_with_priority(low, high) ==
    IF Star \in DOMAIN high THEN high
    ELSE [c \in DOMAIN low \cup DOMAIN high |->
             LET H == RightsOf(high, c)
                 L == RightsOf(low, c)
             IN IF Deny(Star) \in H \/ Grant(Star) \in H THEN H
                ELSE resolve_conflicts(H) \cup
                     {r \in resolve_conflicts(L) : \A h \in H : h.name # r.name}]

-----------------------------------------------------------------------------
(* Roles.                                                                  *)

\* Sorting by rank keeps the order of roles of one rank.
Before(roles, m, n) ==
    \/ roles[m].rank < roles[n].rank
    \/ roles[m].rank = roles[n].rank /\ m < n

Named(roles, name) == {n \in DOMAIN roles : roles[n].name = name}

\* An inherited role must be there, of no higher rank and combined already.
RolesInOrder(roles) ==
    \A n \in DOMAIN roles : \A name \in Range(roles[n].inherits) :
        \E m \in Named(roles, name) : Before(roles, m, n)

combine_roles_scopes(roles) ==
    LET combined[n \in DOMAIN roles] ==
            LET own == group_scopes(roles[n].permissions) IN
            IF roles[n].inherits = <<>> THEN own
            ELSE merge_scopes_with_priority(
                     combined[CHOOSE m \in Named(roles, Head(roles[n].inherits)) : TRUE], own)
    IN combined

\* Of a user's roles that exist, those of one rank replace each other.
OfRank(i, rank) ==
    LET held == {k \in DOMAIN i.user.roles :
                    \E n \in Named(i.roles, i.user.roles[k]) : i.roles[n].rank = rank}
        last == CHOOSE k \in held : \A l \in held : l <= k
    IN CHOOSE n \in Named(i.roles, i.user.roles[last]) : TRUE

\* The roles of the user, as many of them as there are.
Held(i) == {n \in DOMAIN i.roles : i.roles[n].name \in Range(i.user.roles)}

Ranks(i) == {i.roles[n].rank : n \in Held(i)}

\* Default roles have no rank: their rights and the default ones are one source.
Defaults(i) ==
    merge_rights_by_category(
        {group_scopes(i.defaults.permissions)} \cup
        {combine_roles_scopes(i.roles)[n] :
            n \in {m \in DOMAIN i.roles : i.roles[m].name \in Range(i.defaults.roles)}})

\* From the lowest to the highest: the defaults, the roles by rank, the user's own.
combine_all_scopes(i) ==
    LET combined == combine_roles_scopes(i.roles)
        ranks    == Sorted(Ranks(i), {p \in Ranks(i) \X Ranks(i) : p[1] < p[2]})
        merged[k \in 0 .. Cardinality(Ranks(i))] ==
            IF k = 0 THEN merge_scopes_with_priority(Nothing, Defaults(i))
            ELSE merge_scopes_with_priority(merged[k - 1], combined[OfRank(i, ranks[k])])
    IN optimize_categories(merge_scopes_with_priority(merged[Cardinality(Ranks(i))],
                                                      group_scopes(i.user.permissions)))

-----------------------------------------------------------------------------
(* The token.                                                              *)

\* A category without rights is left out, and so is "*" unless it grants all.
flatten_scopes(m) ==
    [all    |-> RightsOf(m, Star) = {Grant(Star)},
     rights |-> [c \in {d \in DOMAIN m \ {Star} : m[d] # {}} |-> m[c]]]

has_scope(t, c, r) ==
    IF c \notin DOMAIN t.rights THEN t.all
    ELSE /\ Deny(r) \notin t.rights[c]
         /\ Deny(Star) \in t.rights[c] => Grant(r) \in t.rights[c]
         /\ t.all \/ Grant(Star) \in t.rights[c] \/ Grant(r) \in t.rights[c]

ScopesInit == input \in Inputs /\ token = Absent

\* Roles that are not there, or not in order, are an exception.
Issue ==
    /\ token = Absent
    /\ RolesInOrder(input.roles)
    /\ \A name \in Range(input.defaults.roles) : Named(input.roles, name) # {}
    /\ token' = flatten_scopes(combine_all_scopes(input))
    /\ UNCHANGED input

ScopesNext == Issue

ScopesSpec == ScopesInit /\ [][ScopesNext]_scopeVars

-----------------------------------------------------------------------------
(* What the lists say, read from the highest source down.                  *)

\* A source denies a right before it grants it, and what it says of the right comes
\* before what it says of the category, and that before what it says of all.
Denies(m, c, r) ==
    \/ Deny(r) \in RightsOf(m, c)
    \/ Deny(Star) \in RightsOf(m, c) /\ Grant(r) \notin RightsOf(m, c)
    \/ Deny(Star) \in RightsOf(m, Star) /\ {Grant(r), Grant(Star)} \cap RightsOf(m, c) = {}

Grants(m, c, r) ==
    /\ ~Denies(m, c, r)
    /\ {Grant(r), Grant(Star)} \cap RightsOf(m, c) # {} \/ Grant(Star) \in RightsOf(m, Star)

\* A role and those it inherits from, each after its parent.
Lineage(roles) ==
    LET line[n \in DOMAIN roles] ==
            IF roles[n].inherits = <<>> THEN <<n>>
            ELSE Append(line[CHOOSE m \in Named(roles, Head(roles[n].inherits)) : TRUE], n)
    IN line

\* Who says something, and from how high: the defaults, the user's roles by rank, each
\* after those it inherits from, and the user's own scopes.
Voice(level, rank, place, m) == [level |-> level, rank |-> rank, place |-> place, says |-> m]

Voices(roles, n) ==
    {Voice(2, roles[n].rank, l, group_scopes(roles[Lineage(roles)[n][l]].permissions)) :
        l \in DOMAIN Lineage(roles)[n]}

Sources(i) ==
    {Voice(1, 0, 1, Defaults(i)), Voice(3, 0, 1, group_scopes(i.user.permissions))}
    \cup UNION {Voices(i.roles, n) : n \in Held(i)}

Above(x, y) ==
    \/ x.level > y.level
    \/ x.level = y.level /\ x.rank > y.rank
    \/ x.level = y.level /\ x.rank = y.rank /\ x.place > y.place

\* Some source grants it and no higher one denies it.
Granted(S, c, r) ==
    \E x \in S : /\ Grants(x.says, c, r)
                 /\ \A y \in S : Above(y, x) => ~Denies(y.says, c, r)

\* Of all categories only masks are said.
MasksOnly(m) == RightsOf(m, Star) \subseteq {Grant(Star), Deny(Star)}

\* Nobody denies a whole category or speaks of single rights in all of them, and the
\* roles differ in rank.
Plain(i) ==
    /\ \A x \in Sources(i) : /\ MasksOnly(x.says)
                             /\ \A c \in Categories : Deny(Star) \notin RightsOf(x.says, c)
    /\ \A k, l \in DOMAIN i.roles : i.roles[k].rank = i.roles[l].rank => k = l

\* The token permits what the highest source that says anything of it grants.
MeansItsLists ==
    token # Absent /\ Plain(input) =>
        \A c \in Categories, r \in Names : has_scope(token, c, r) <=> Granted(Sources(input), c, r)

\* Whatever is denied, masked or lost on the way, the token permits only what the
\* default scopes, the user's scopes or a role behind them grant.
OnlyGranted ==
    token # Absent => \A c \in Categories, r \in Names :
        has_scope(token, c, r) =>
            \E x \in Sources(input) :
                \/ Grant(Star) \in RightsOf(x.says, Star)
                \/ {Grant(r), Grant(Star)} \cap RightsOf(x.says, c) # {}

\* What is merged pair by pair, simplified, flattened and looked up again is what the
\* lists say (combine_all_scopes, flatten_scopes, has_scope).
TokenMeans == MeansItsLists /\ OnlyGranted
=============================================================================

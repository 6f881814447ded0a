--------------------------- MODULE FunctionsProofs ---------------------------
(***************************************************************************)
(* Proofs about what is computed when it is read: merging two sources of   *)
(* scopes is priority between them, and looking up what was merged,        *)
(* simplified and flattened is asking what it says; a time is read as it   *)
(* shows and printed as it reads; a top table lists everybody with his     *)
(* best time and his place; the best of an athlete's results are marked,   *)
(* and every result is shown once.  And about what is kept of the answers: *)
(* how old they can be.  For all scopes, questions, keys and times.        *)
(***************************************************************************)
EXTENDS MCFunctions, ResultCaches, FiniteSetTheorems, WellFoundedInduction, TLAPS

-----------------------------------------------------------------------------
(* What a list of scopes permits.                                          *)

\* A source, as group_scopes makes it and merging keeps it.
Source(m) ==
    /\ DOMAIN m \subseteq Categories \cup {Star}
    /\ \A c \in DOMAIN m : m[c] \subseteq Rights

\* Grants and denials are different.
LEMMA Apart ==
    ASSUME NEW x, NEW y
    PROVE  /\ Grant(x) # Deny(y)
           /\ Grant(x).name = x /\ ~Grant(x).deny /\ Deny(x).name = x /\ Deny(x).deny
           /\ Grant(x) = Grant(y) => x = y
           /\ Deny(x) = Deny(y) => x = y
BY DEF Grant, Deny, Right

\* A right is the grant or the denial of its name.
LEMMA OneOfTwo ==
    ASSUME NEW r \in Rights
    PROVE  r = Grant(r.name) \/ r = Deny(r.name)
BY DEF Rights, Grant, Deny, Right

\* What resolve_conflicts leaves.
LEMMA Resolved ==
    ASSUME NEW R, NEW x
    PROVE  /\ Deny(x) \in resolve_conflicts(R) <=> Deny(x) \in R
           /\ Grant(x) \in resolve_conflicts(R) <=> Grant(x) \in R /\ Deny(x) \notin R
BY Apart DEF resolve_conflicts

\* What merging leaves of a category that the higher source does not mask.
LEMMA MergedRights ==
    ASSUME NEW low, NEW high, Source(low), Source(high), Star \notin DOMAIN high,
           NEW c \in Categories \cup {Star}, NEW x,
           Grant(Star) \notin RightsOf(high, c), Deny(Star) \notin RightsOf(high, c)
    PROVE  LET H == RightsOf(high, c)
               L == RightsOf(low, c)
               M == RightsOf(merge_scopes_with_priority(low, high), c)
               silent == Grant(x) \notin H /\ Deny(x) \notin H
           IN /\ Deny(x) \in M <=> Deny(x) \in H \/ (silent /\ Deny(x) \in L)
              /\ Grant(x) \in M <=> \/ Grant(x) \in H /\ Deny(x) \notin H
                                    \/ silent /\ Grant(x) \in L /\ Deny(x) \notin L
<1> DEFINE H == RightsOf(high, c)
           L == RightsOf(low, c)
           M == RightsOf(merge_scopes_with_priority(low, high), c)
           silent == Grant(x) \notin H /\ Deny(x) \notin H
           kept == {r \in resolve_conflicts(L) : \A h \in H : h.name # r.name}
<1>1. H \subseteq Rights
  BY DEF Source, RightsOf
<1>2. M = resolve_conflicts(H) \cup kept
  <2>1. CASE c \in DOMAIN low \cup DOMAIN high
    BY <2>1 DEF merge_scopes_with_priority, RightsOf
  <2>2. CASE c \notin DOMAIN low \cup DOMAIN high
    <3>1. H = {} /\ L = {} /\ M = {}
      BY <2>2 DEF merge_scopes_with_priority, RightsOf
    <3>2. QED
      BY <3>1 DEF resolve_conflicts
  <2>3. QED
    BY <2>1, <2>2
<1>3. ASSUME NEW r, r.name = x PROVE (\A h \in H : h.name # r.name) <=> silent
  <2>1. (\E h \in H : h.name = x) => ~silent
    BY <1>1, OneOfTwo
  <2>2. ~silent => \E h \in H : h.name = x
    BY Apart
  <2>3. QED
    BY <1>3, <2>1, <2>2
<1>4. Deny(x) \in kept <=> silent /\ Deny(x) \in L
  <2>1. (\A h \in H : h.name # Deny(x).name) <=> silent
    BY <1>3, Apart
  <2>2. Deny(x) \in resolve_conflicts(L) <=> Deny(x) \in L
    BY Resolved
  <2>3. QED
    BY <2>1, <2>2
<1>5. Grant(x) \in kept <=> silent /\ Grant(x) \in L /\ Deny(x) \notin L
  <2>1. (\A h \in H : h.name # Grant(x).name) <=> silent
    BY <1>3, Apart
  <2>2. Grant(x) \in resolve_conflicts(L) <=> Grant(x) \in L /\ Deny(x) \notin L
    BY Resolved
  <2>3. QED
    BY <2>1, <2>2
<1>6. /\ Deny(x) \in resolve_conflicts(H) <=> Deny(x) \in H
      /\ Grant(x) \in resolve_conflicts(H) <=> Grant(x) \in H /\ Deny(x) \notin H
  BY Resolved
<1>7. QED
  BY <1>2, <1>4, <1>5, <1>6

\* Denies and Grants, without their sets.
LEMMA Meanings ==
    ASSUME NEW m, NEW c, NEW r, Deny(Star) \notin RightsOf(m, c)
    PROVE  LET given == Grant(r) \in RightsOf(m, c) \/ Grant(Star) \in RightsOf(m, c) IN
           /\ Denies(m, c, r) <=> \/ Deny(r) \in RightsOf(m, c)
                                  \/ Deny(Star) \in RightsOf(m, Star) /\ ~given
           /\ Grants(m, c, r) <=> /\ Deny(r) \notin RightsOf(m, c)
                                  /\ given \/ /\ Grant(Star) \in RightsOf(m, Star)
                                              /\ Deny(Star) \notin RightsOf(m, Star)
           /\ Denies(m, c, r) \in BOOLEAN /\ Grants(m, c, r) \in BOOLEAN
<1> DEFINE given == Grant(r) \in RightsOf(m, c) \/ Grant(Star) \in RightsOf(m, c)
           none  == {Grant(r), Grant(Star)} \cap RightsOf(m, c) = {}
<1>1. none <=> ~given
  OBVIOUS
<1>2. Denies(m, c, r) <=> Deny(r) \in RightsOf(m, c) \/ (Deny(Star) \in RightsOf(m, Star) /\ none)
  BY DEF Denies
<1>3. Grants(m, c, r) <=> ~Denies(m, c, r) /\ (~none \/ Grant(Star) \in RightsOf(m, Star))
  BY DEF Grants
<1>4. Denies(m, c, r) \in BOOLEAN /\ Grants(m, c, r) \in BOOLEAN
  BY DEF Denies, Grants
<1> HIDE DEF none
<1>5. QED
  BY <1>1, <1>2, <1>3, <1>4

\* What a merge keeps.
LEMMA MergeKeeps ==
    ASSUME NEW low, NEW high, Source(low), Source(high), MasksOnly(low), MasksOnly(high)
    PROVE  LET m == merge_scopes_with_priority(low, high) IN
           /\ Source(m) /\ MasksOnly(m)
           /\ \A c \in Categories :
                 Deny(Star) \notin RightsOf(low, c) /\ Deny(Star) \notin RightsOf(high, c)
                 => Deny(Star) \notin RightsOf(m, c)
<1> DEFINE m == merge_scopes_with_priority(low, high)
<1>1. CASE Star \in DOMAIN high
  BY <1>1 DEF merge_scopes_with_priority
<1>2. CASE Star \notin DOMAIN high
  <2>1. m = [c \in DOMAIN low \cup DOMAIN high |->
               IF Deny(Star) \in RightsOf(high, c) \/ Grant(Star) \in RightsOf(high, c)
               THEN RightsOf(high, c)
               ELSE resolve_conflicts(RightsOf(high, c)) \cup
                    {r \in resolve_conflicts(RightsOf(low, c)) :
                        \A h \in RightsOf(high, c) : h.name # r.name}]
    BY <1>2 DEF merge_scopes_with_priority
  <2>2. ASSUME NEW c PROVE RightsOf(m, c) \subseteq RightsOf(low, c) \cup RightsOf(high, c)
    BY <2>1 DEF RightsOf, resolve_conflicts
  <2>3. DOMAIN m \subseteq Categories \cup {Star}
    BY <2>1 DEF Source
  <2>4. ASSUME NEW c \in DOMAIN m PROVE m[c] \subseteq Rights
    <3>1. RightsOf(low, c) \subseteq Rights /\ RightsOf(high, c) \subseteq Rights
      BY DEF Source, RightsOf
    <3>2. m[c] = RightsOf(m, c)
      BY <2>4 DEF RightsOf
    <3>3. QED
      BY <2>2, <3>1, <3>2
  <2>5. MasksOnly(m)
    BY <2>2 DEF MasksOnly
  <2>6. QED
    BY <2>2, <2>3, <2>4, <2>5 DEF Source
<1>3. QED
  BY <1>1, <1>2

\* Merging is priority: of two sources that deny no whole category, the merged one
\* says what the higher says of a right, and what the lower says where that says
\* nothing (merge_scopes_with_priority).
THEOREM MergeIsPriority ==
    ASSUME NEW low, NEW high, Source(low), Source(high), MasksOnly(low), MasksOnly(high),
           Star \in DOMAIN high => high[Star] # {},
           NEW c \in Categories, NEW r \in Names,
           Deny(Star) \notin RightsOf(low, c), Deny(Star) \notin RightsOf(high, c)
    PROVE  LET m == merge_scopes_with_priority(low, high) IN
           /\ Grants(m, c, r) <=> \/ Grants(high, c, r)
                                  \/ ~Denies(high, c, r) /\ Grants(low, c, r)
           /\ Denies(m, c, r) <=> \/ Denies(high, c, r)
                                  \/ ~Grants(high, c, r) /\ Denies(low, c, r)
<1> DEFINE m == merge_scopes_with_priority(low, high)
           H == RightsOf(high, c)
           L == RightsOf(low, c)
           M == RightsOf(m, c)
           top(x) == RightsOf(x, Star)
<1>a. Deny(Star) \notin M
  BY MergeKeeps
<1>1. CASE Star \in DOMAIN high
  <2>1. m = high
    BY <1>1 DEF merge_scopes_with_priority
  <2>2. Grant(Star) \in top(high) \/ Deny(Star) \in top(high)
    BY <1>1 DEF MasksOnly, RightsOf
  <2>3. Grants(high, c, r) \/ Denies(high, c, r)
    BY <2>2, Meanings
  <2>4. ~ (Grants(high, c, r) /\ Denies(high, c, r))
    BY DEF Grants
  <2>5. QED
    BY <2>1, <2>3, <2>4
<1>2. CASE Star \notin DOMAIN high
  <2>1. top(high) = {}
    BY <1>2 DEF RightsOf
  <2>2. /\ Deny(Star) \in top(m) <=> Deny(Star) \in top(low)
        /\ Grant(Star) \in top(m) <=> Grant(Star) \in top(low) /\ Deny(Star) \notin top(low)
    <3>1. Grant(Star) \notin top(high) /\ Deny(Star) \notin top(high)
      BY <2>1
    <3>2. QED
      BY <1>2, <3>1, MergedRights
  <2>3. CASE Grant(Star) \in H
    <3>1. c \in DOMAIN high
      BY <2>3 DEF RightsOf
    <3>2. M = H
      BY <1>2, <2>3, <3>1 DEF merge_scopes_with_priority, RightsOf
    <3> HIDE DEF m, H, L, M, top
    <3>3. /\ Grants(high, c, r) <=> Deny(r) \notin H
          /\ Denies(high, c, r) <=> Deny(r) \in H
      BY <2>3, Meanings DEF H
    <3>4. /\ Grants(m, c, r) <=> Deny(r) \notin H
          /\ Denies(m, c, r) <=> Deny(r) \in H
      BY <1>a, <2>3, <3>2, Meanings DEF M
    <3>5. QED
      BY <3>3, <3>4 DEF m
  <2>4. CASE Grant(Star) \notin H
    <3> DEFINE silent == Grant(r) \notin H /\ Deny(r) \notin H
    <3>1. /\ Deny(r) \in M <=> Deny(r) \in H \/ (silent /\ Deny(r) \in L)
          /\ Grant(r) \in M <=> \/ Grant(r) \in H /\ Deny(r) \notin H
                                \/ silent /\ Grant(r) \in L /\ Deny(r) \notin L
          /\ Grant(Star) \in M <=> Grant(Star) \in L
      BY <1>2, <2>4, MergedRights
    <3>2. /\ Denies(high, c, r) <=> Deny(r) \in H
          /\ Grants(high, c, r) <=> Deny(r) \notin H /\ Grant(r) \in H
      BY <2>1, <2>4, Meanings
    <3>3. /\ Denies(low, c, r) <=> \/ Deny(r) \in L
                                   \/ /\ Deny(Star) \in top(low)
                                      /\ ~ (Grant(r) \in L \/ Grant(Star) \in L)
          /\ Grants(low, c, r) <=> /\ Deny(r) \notin L
                                   /\ \/ Grant(r) \in L \/ Grant(Star) \in L
                                      \/ Grant(Star) \in top(low) /\ Deny(Star) \notin top(low)
      BY Meanings
    <3>4. /\ Denies(m, c, r) <=> \/ Deny(r) \in M
                                 \/ /\ Deny(Star) \in top(m)
                                    /\ ~ (Grant(r) \in M \/ Grant(Star) \in M)
          /\ Grants(m, c, r) <=> /\ Deny(r) \notin M
                                 /\ \/ Grant(r) \in M \/ Grant(Star) \in M
                                    \/ Grant(Star) \in top(m) /\ Deny(Star) \notin top(m)
      BY <1>a, Meanings
    <3> HIDE DEF m, H, L, M, top
    <3>5. QED
      BY <2>2, <3>1, <3>2, <3>3, <3>4 DEF m
  <2>5. QED
    BY <2>3, <2>4
<1>3. QED
  BY <1>1, <1>2

\* Looking a right up in what was simplified and flattened is asking what it says,
\* unless the whole category is denied (optimize_categories, flatten_scopes,
\* has_scope).
THEOREM LookupIsMeaning ==
    ASSUME NEW m, Source(m), MasksOnly(m), NEW c \in Categories, NEW r \in Names,
           Deny(Star) \notin RightsOf(m, c)
    PROVE  has_scope(flatten_scopes(optimize_categories(m)), c, r) <=> Grants(m, c, r)
<1> DEFINE R == RightsOf(m, c)
           O == RightsOf(optimize_categories(m), c)
           t == flatten_scopes(optimize_categories(m))
           S == simplify_by_masks(R)
<1>1. c # Star /\ r # Star
  BY InputsAssumption
<1>2. O = resolve_conflicts(S)
  <2>1. CASE c \in DOMAIN m
    BY <2>1 DEF optimize_categories, RightsOf
  <2>2. CASE c \notin DOMAIN m
    <3>1. R = {} /\ O = {}
      BY <2>2 DEF optimize_categories, RightsOf
    <3>2. QED
      BY <3>1 DEF resolve_conflicts, simplify_by_masks
  <2>3. QED
    BY <2>1, <2>2
<1>3. /\ Deny(r) \in S <=> Deny(r) \in R
      /\ Deny(Star) \notin S
      /\ Grant(Star) \in S <=> Grant(Star) \in R
      /\ Grant(r) \in S <=> Grant(r) \in R /\ Grant(Star) \notin R
  BY <1>1, Apart DEF simplify_by_masks
<1>4. /\ Deny(r) \in O <=> Deny(r) \in R
      /\ Deny(Star) \notin O
      /\ Grant(Star) \in O <=> Grant(Star) \in R
      /\ Grant(r) \in O <=> Grant(r) \in R /\ Deny(r) \notin R /\ Grant(Star) \notin R
  BY <1>2, <1>3, Resolved
<1>5. t.all <=> /\ Grant(Star) \in RightsOf(m, Star)
                /\ Deny(Star) \notin RightsOf(m, Star)
  <2> DEFINE T == RightsOf(m, Star)
             U == RightsOf(optimize_categories(m), Star)
  <2>1. U = resolve_conflicts(simplify_by_masks(T))
    <3>1. CASE Star \in DOMAIN m
      BY <3>1 DEF optimize_categories, RightsOf
    <3>2. CASE Star \notin DOMAIN m
      <4>1. T = {} /\ U = {}
        BY <3>2 DEF optimize_categories, RightsOf
      <4>2. QED
        BY <4>1 DEF resolve_conflicts, simplify_by_masks
    <3>3. QED
      BY <3>1, <3>2
  <2>2. U \subseteq {Grant(Star), Deny(Star)}
    BY <2>1 DEF MasksOnly, resolve_conflicts, simplify_by_masks
  <2>3. /\ Deny(Star) \notin U
        /\ Grant(Star) \in U <=> Grant(Star) \in T /\ Deny(Star) \notin T
    <3>1. /\ Deny(Star) \notin simplify_by_masks(T)
          /\ Grant(Star) \in simplify_by_masks(T) <=> Grant(Star) \in T /\ Deny(Star) \notin T
      BY Apart DEF simplify_by_masks
    <3>2. QED
      BY <2>1, <3>1, Resolved
  <2>4. t.all <=> U = {Grant(Star)}
    BY DEF flatten_scopes
  <2>5. QED
    BY <2>2, <2>3, <2>4
<1>6. /\ c \in DOMAIN t.rights <=> O # {}
      /\ O # {} => t.rights[c] = O
  <2>1. t.rights = [d \in {e \in DOMAIN optimize_categories(m) \ {Star} :
                             optimize_categories(m)[e] # {}} |-> optimize_categories(m)[d]]
    BY DEF flatten_scopes
  <2>2. QED
    BY <1>1, <2>1 DEF RightsOf
<1>7. Grants(m, c, r) <=>
        /\ Deny(r) \notin R
        /\ \/ Grant(r) \in R \/ Grant(Star) \in R
           \/ Grant(Star) \in RightsOf(m, Star) /\ Deny(Star) \notin RightsOf(m, Star)
  BY Meanings
<1>8. CASE O = {}
  <2>1. has_scope(t, c, r) <=> t.all
    BY <1>6, <1>8 DEF has_scope
  <2>2. Deny(r) \notin R /\ Grant(r) \notin R /\ Grant(Star) \notin R
    BY <1>4, <1>8
  <2>3. QED
    BY <1>5, <1>7, <2>1, <2>2
<1>9. CASE O # {}
  <2>1. has_scope(t, c, r) <=>
          /\ Deny(r) \notin O /\ (Deny(Star) \in O => Grant(r) \in O)
          /\ t.all \/ Grant(Star) \in O \/ Grant(r) \in O
    BY <1>6, <1>9 DEF has_scope
  <2> HIDE DEF O, R, t
  <2>2. has_scope(t, c, r) <=> Grants(m, c, r)
    BY <1>4, <1>5, <1>7, <2>1
  <2>3. QED
    BY <2>2 DEF t
<1>10. QED
  BY <1>8, <1>9

-----------------------------------------------------------------------------
(* Times, top tables and the pick of the front page.                       *)

\* An answer is one to its question.
TablesInv ==
    /\ question # Null => question \in Questions
    /\ answer # Null =>
          /\ question \in Questions
          /\ question.about = "time" =>
                answer = LET t == validate(question.value) IN
                         IF t = Failed THEN Failed ELSE [time |-> t, again |-> validate(str(t))]
          /\ question.about = "top" => answer \in build_top_results_query(question)
          /\ question.about = "athlete" =>
                answer = [groups |-> ByCompetition(question.rows), best |-> Range(best_results(question.rows))]
          /\ question.about = "random" /\ answer # Failed => Cardinality(Counted(question, answer)) >= 3

LEMMA TablesInvariance == AllSpec => []TablesInv
<1>1. AllInit => TablesInv
  BY DEF AllInit, TablesInit, TablesInv
<1>2. TablesInv /\ [AllNext]_AllVars => TablesInv'
  <2> SUFFICES ASSUME TablesInv, [AllNext]_AllVars
               PROVE  TablesInv'
    OBVIOUS
  <2>1. CASE UNCHANGED tableVars
    BY <2>1 DEF TablesInv, tableVars
  <2>2. CASE question # Null /\ TablesNext
    <3>1. question' = question /\ question \in Questions
      BY <2>2 DEF TablesInv, TablesNext, ReadTime, GetTop, GetTopForServers, get_athlete_results, get_random_top
    <3>2. CASE ReadTime
      BY <3>1, <3>2 DEF TablesInv, ReadTime
    <3>3. CASE GetTop
      BY <3>1, <3>3 DEF TablesInv, GetTop
    <3>4. CASE GetTopForServers
      <4>1. question.about = "server"
        BY <3>4 DEF GetTopForServers
      <4>2. QED
        BY <3>1, <4>1 DEF TablesInv
    <3>5. CASE get_athlete_results
      <4>1. /\ question.about = "athlete"
            /\ answer' = [groups |-> ByCompetition(question.rows), best |-> Range(best_results(question.rows))]
        BY <3>5 DEF get_athlete_results
      <4>2. QED
        BY <3>1, <4>1 DEF TablesInv
    <3>6. CASE get_random_top
      <4>1. /\ question.about = "random"
            /\ answer' # Failed => Cardinality(Counted(question, answer')) >= 3
        BY <3>6 DEF get_random_top
      <4>2. QED
        BY <3>1, <4>1 DEF TablesInv
    <3>7. QED
      BY <2>2, <3>2, <3>3, <3>4, <3>5, <3>6 DEF TablesNext
  <2>3. QED
    BY <2>1, <2>2 DEF AllNext, AllVars, tableVars
<1>3. QED
  BY <1>1, <1>2, PTL DEF AllSpec

\* A text within the clock is the time it shows.
LEMMA ClockTime ==
    ASSUME NEW h, NEW m, NEW s, NEW u
    PROVE  /\ Clock(h, m, s, u) = IF h \in 0 .. 23 /\ m \in 0 .. 59 /\ s \in 0 .. 59 /\ u \in 0 .. Million - 1
                                  THEN Time(h, m, s, u) ELSE Failed
           /\ Clock(h, m, s, u) = Failed \/ Clock(h, m, s, u) \in Times
           /\ Time(h, m, s, u) \in Times => Time(h, m, s, u) # Failed
<1>1. Time(h, m, s, u) \in Times <=> h \in 0 .. 23 /\ m \in 0 .. 59 /\ s \in 0 .. 59 /\ u \in 0 .. Million - 1
  BY DEF Time, Times
<1>2. Failed \notin Times
  BY QuestionsAssumption
<1>3. QED
  BY <1>1, <1>2 DEF Clock

\* As two bounds: of an equation the provers would make the set of a million numbers.
LEMMA MillionIs == Million \in Nat /\ 100 * 10000 <= Million /\ Million <= 100 * 10000
BY SMT DEF Million

LEMMA Hundredths ==
    ASSUME NEW u \in 0 .. Million - 1
    PROVE  /\ u \in Nat /\ u = 10000 * (u \div 10000) + (u % 10000) /\ u \div 10000 \in Nat /\ u % 10000 \in Nat
           /\ u % 10000 < 10000 /\ u \div 10000 < 100
<1>1. u \in Nat /\ u < 100 * 10000
  BY MillionIs
<1>2. u = 10000 * (u \div 10000) + (u % 10000) /\ u \div 10000 \in Nat /\ u % 10000 \in Nat /\ u % 10000 < 10000
  BY <1>1
<1>3. QED
  BY <1>1, <1>2

\* Hundredths are two digits, read back as what they were.
LEMMA TwoDigits ==
    ASSUME NEW u \in 0 .. Million - 1
    PROVE  LET h == u \div 10000 IN
           /\ h \in 0 .. 99 /\ 10000 * h \in 0 .. Million - 1
           /\ Number(<<h \div 10, h % 10>>) = h
<1> DEFINE h == u \div 10000
<1>0. h \in Nat /\ h < 100
  BY Hundredths
<1> HIDE DEF h
<1>1. h \in 0 .. 99
  BY <1>0
<1>2. 10000 * h \in 0 .. Million - 1
  BY <1>0, MillionIs
<1>3. 10 * (h \div 10) + (h % 10) = h
  BY <1>1
<1>4. Number(<<h \div 10, h % 10>>) = h
  BY <1>3 DEF Number
<1>5. QED
  BY <1>1, <1>2, <1>4 DEF h

\* A time that is printed is read back to the hundredth, for an hour.
LEMMA PrintedTime ==
    ASSUME NEW t \in Times
    PROVE  IF t.hour = 0 THEN validate(str(t)) = [t EXCEPT !.microsecond = (@ \div 10000) * 10000]
           ELSE validate(str(t)) = Failed
<1> DEFINE h == t.microsecond \div 10000
<1>1. CASE t.hour # 0
  BY <1>1 DEF str, validate
<1>2. CASE t.hour = 0
  <2>1. str(t) = [kind |-> "text", minutes |-> t.minute, seconds |-> t.second, digits |-> <<h \div 10, h % 10>>]
    BY <1>2 DEF str
  <2>2. /\ t.minute \in 0 .. 59 /\ t.second \in 0 .. 59 /\ t.microsecond \in 0 .. Million - 1
        /\ t = [hour |-> t.hour, minute |-> t.minute, second |-> t.second, microsecond |-> t.microsecond]
    BY DEF Times
  <2>3. 10000 * h \in 0 .. Million - 1 /\ Number(<<h \div 10, h % 10>>) = h /\ h \in 0 .. 99
    BY <2>2, TwoDigits
  <2> HIDE DEF h
  <2>4. validate(str(t)) = Clock(0, t.minute, t.second, 10000 * h)
    BY <2>1, <2>3 DEF validate
  <2>5. Clock(0, t.minute, t.second, 10000 * h) = Time(0, t.minute, t.second, 10000 * h)
    BY <2>2, <2>3, ClockTime
  <2>6. Time(0, t.minute, t.second, 10000 * h) = [t EXCEPT !.microsecond = h * 10000]
    <3>1. 10000 * h = h * 10000
      BY <2>3
    <3>2. QED
      BY <1>2, <2>2, <3>1 DEF Time
  <2>7. QED
    BY <1>2, <2>4, <2>5, <2>6 DEF h
<1>3. QED
  BY <1>1, <1>2

\* Rounding moves by half a hundredth at most.
LEMMA Rounded ==
    ASSUME NEW n \in 0 .. Million - 1
    PROVE  /\ Round(n, 10000) \in 0 .. 100
           /\ n - 5000 <= 10000 * Round(n, 10000) /\ 10000 * Round(n, 10000) <= n + 5000
           /\ Round(n, 10000) = 100 <=> n >= Million - 5000
<1> DEFINE q == n \div 10000
           r == n % 10000
<1>1. n = 10000 * q + r /\ q \in Nat /\ q < 100 /\ r \in Nat /\ r < 10000 /\ n \in Nat
  BY Hundredths
<1>2. Round(n, 10000) = IF 2 * r > 10000 \/ (2 * r = 10000 /\ q % 2 = 1) THEN q + 1 ELSE q
  BY DEF Round
<1> HIDE DEF q, r
<1>3. q = 99 => q % 2 = 1
  OBVIOUS
<1>4. Round(n, 10000) = q + 1 \/ Round(n, 10000) = q
  BY <1>2
<1>5. Round(n, 10000) \in 0 .. 100
  BY <1>1, <1>4
<1>6. n - 5000 <= 10000 * Round(n, 10000) /\ 10000 * Round(n, 10000) <= n + 5000
  BY <1>1, <1>2
<1>7. Round(n, 10000) = 100 <=> n >= Million - 5000
  BY <1>1, <1>2, <1>3, MillionIs
<1>8. QED
  BY <1>5, <1>6, <1>7

\* What a value is read as.
LEMMA ReadValue ==
    ASSUME NEW v, Readable(v)
    PROVE  /\ validate(v) # Failed => validate(v) \in Times
           /\ validate(v) = Failed => v.kind \in {"text", "delta"}
           /\ v.kind = "text" =>
                IF v.minutes > 59 \/ v.seconds > 59 THEN validate(v) = Failed
                ELSE /\ validate(v) # Failed
                     /\ validate(v) = Time(0, v.minutes, v.seconds,
                                           10000 * (IF Len(v.digits) = 2 THEN 10 * v.digits[1] + v.digits[2] ELSE v.digits[1]))
           /\ v.kind = "delta" =>
                IF v.seconds >= 3600 \/ v.micro >= Million - 5000 THEN validate(v) = Failed
                ELSE /\ validate(v) # Failed /\ validate(v).hour = 0
                     /\ 60 * validate(v).minute + validate(v).second = v.seconds
                     /\ v.micro - 5000 <= validate(v).microsecond /\ validate(v).microsecond <= v.micro + 5000
<1>1. CASE v.kind = "blank"
  <2>1. validate(v) = Clock(0, 0, 0, 0)
    BY <1>1 DEF validate
  <2>2. validate(v) = Time(0, 0, 0, 0) /\ Time(0, 0, 0, 0) \in Times
    <3>1. 0 \in 0 .. Million - 1
      BY MillionIs
    <3>2. Time(0, 0, 0, 0) \in Times
      BY <3>1 DEF Time, Times
    <3>3. QED
      BY <2>1, <3>2 DEF Clock
  <2>3. validate(v) # Failed
    BY <2>2, ClockTime
  <2>4. QED
    BY <1>1, <2>2, <2>3
<1>2. CASE v.kind = "clock" /\ v.time \in Times
  BY <1>2, QuestionsAssumption DEF validate
<1>3. CASE v.kind = "delta" /\ v.seconds \in Nat /\ v.micro \in 0 .. Million - 1
  <2> DEFINE m == v.seconds \div 60
             s == v.seconds % 60
             u == 10000 * Round(v.micro, 10000)
  <2>0. v.seconds \in Nat /\ v.micro \in Nat /\ v.micro < Million
    BY <1>3, MillionIs
  <2>1. validate(v) = Clock(0, m, s, u)
    BY <1>3 DEF validate
  <2>2. v.seconds = 60 * m + s /\ m \in Nat /\ s \in 0 .. 59
    BY <1>3
  <2>3. Round(v.micro, 10000) \in 0 .. 100 /\ v.micro - 5000 <= u /\ u <= v.micro + 5000 /\ (Round(v.micro, 10000) = 100 <=> v.micro >= Million - 5000)
    BY <1>3, Rounded
  <2>r. u = 10000 * Round(v.micro, 10000)
    OBVIOUS
  <2> HIDE DEF m, s, u
  <2>4. u \in 0 .. Million - 1 <=> v.micro < Million - 5000
    BY <2>0, <2>3, <2>r, MillionIs
  <2>5. m \in 0 .. 59 <=> v.seconds < 3600
    BY <1>3, <2>2
  <2>6. CASE v.seconds >= 3600 \/ v.micro >= Million - 5000
    <3>1. ~ (m \in 0 .. 59 /\ u \in 0 .. Million - 1)
      BY <2>0, <2>4, <2>5, <2>6, MillionIs
    <3>2. validate(v) = Failed
      BY <2>1, <3>1, ClockTime
    <3>3. QED
      BY <1>3, <2>6, <3>2
  <2>7. CASE ~ (v.seconds >= 3600 \/ v.micro >= Million - 5000)
    <3>1. m \in 0 .. 59 /\ u \in 0 .. Million - 1
      BY <2>0, <2>4, <2>5, <2>7, MillionIs
    <3>2. validate(v) = Time(0, m, s, u)
      BY <2>1, <2>2, <3>1, ClockTime
    <3>3. Time(0, m, s, u) \in Times
      BY <2>2, <3>1 DEF Time, Times
    <3>4. Time(0, m, s, u) # Failed
      BY <3>3, ClockTime
    <3>5. Time(0, m, s, u).hour = 0 /\ Time(0, m, s, u).minute = m /\ Time(0, m, s, u).second = s /\ Time(0, m, s, u).microsecond = u
      BY DEF Time
    <3>6. QED
      BY <1>3, <2>2, <2>3, <2>7, <3>2, <3>3, <3>4, <3>5
  <2>8. QED
    BY <2>6, <2>7
<1>4. CASE /\ v.kind = "text" /\ v.minutes \in Nat /\ v.seconds \in Nat
           /\ v.digits \in Seq(0 .. 9) /\ Len(v.digits) \in {1, 2}
  <2> DEFINE d == v.digits
             u == 10000 * (IF Len(d) = 2 THEN 10 * d[1] + d[2] ELSE d[1])
  <2>0. v.minutes \in Nat /\ v.seconds \in Nat
    BY <1>4
  <2>1. validate(v) = Clock(0, v.minutes, v.seconds, 10000 * Number(d))
    BY <1>4 DEF validate
  <2>2. d[1] \in 0 .. 9 /\ (Len(d) = 2 => d[2] \in 0 .. 9)
    BY <1>4
  <2>l. Len(d) = 1 \/ Len(d) = 2
    BY <1>4
  <2>n. Number(d) = IF Len(d) = 2 THEN 10 * d[1] + d[2] ELSE d[1]
    BY <2>l DEF Number
  <2>3. 10000 * Number(d) = u /\ u \in 0 .. Million - 1
    <3>1. Number(d) \in Nat /\ Number(d) < 100
      BY <2>2, <2>n
    <3>2. 10000 * Number(d) = u
      BY <2>n
    <3> HIDE DEF u
    <3>3. QED
      BY <3>1, <3>2, MillionIs
  <2>u. u = 10000 * (IF Len(v.digits) = 2 THEN 10 * v.digits[1] + v.digits[2] ELSE v.digits[1])
    OBVIOUS
  <2> HIDE DEF d, u
  <2>4. CASE v.minutes > 59 \/ v.seconds > 59
    <3>1. ~ (v.minutes \in 0 .. 59 /\ v.seconds \in 0 .. 59)
      BY <2>0, <2>4
    <3>2. validate(v) = Failed
      BY <2>1, <3>1, ClockTime
    <3>3. QED
      BY <1>4, <2>4, <3>2
  <2>5. CASE ~ (v.minutes > 59 \/ v.seconds > 59)
    <3>1. v.minutes \in 0 .. 59 /\ v.seconds \in 0 .. 59
      BY <2>0, <2>5
    <3>2. validate(v) = Time(0, v.minutes, v.seconds, u)
      BY <2>1, <2>3, <3>1, ClockTime
    <3>3. Time(0, v.minutes, v.seconds, u) \in Times
      BY <2>3, <3>1 DEF Time, Times
    <3>4. Time(0, v.minutes, v.seconds, u) # Failed
      BY <3>3, ClockTime
    <3>5. QED
      BY <1>4, <2>5, <2>u, <3>2, <3>3, <3>4
  <2>6. QED
    BY <2>4, <2>5
<1>5. QED
  BY <1>1, <1>2, <1>3, <1>4 DEF Readable

LEMMA WholeHundredths ==
    ASSUME NEW n \in 0 .. Million - 1
    PROVE  10000 * (n \div 10000) \in 0 .. Million - 1
<1> DEFINE h == n \div 10000
<1>1. h \in Nat /\ h < 100
  BY Hundredths
<1> HIDE DEF h
<1>2. 10000 * h \in 0 .. Million - 1
  BY <1>1, MillionIs
<1>3. QED
  BY <1>2 DEF h

\* What is printed is refused when it is read back, or read as a time.
LEMMA PrintedBack ==
    ASSUME NEW t \in Times
    PROVE  validate(str(t)) = Failed \/ validate(str(t)) \in Times
<1> DEFINE u == (t.microsecond \div 10000) * 10000
<1>1. t.microsecond \in 0 .. Million - 1
  BY DEF Times
<1>2. u = 10000 * (t.microsecond \div 10000)
  BY <1>1, Hundredths
<1>3. 10000 * (t.microsecond \div 10000) \in 0 .. Million - 1
  BY <1>1, WholeHundredths
<1>4. u \in 0 .. Million - 1
  BY <1>2, <1>3
<1> HIDE DEF u
<1>5. [t EXCEPT !.microsecond = u] \in Times
  BY <1>4 DEF Times
<1>6. QED
  BY <1>5, PrintedTime DEF u

\* What is printed is read back as the same time to the hundredth, but for an hour.
LEMMA PrintedShows ==
    ASSUME NEW t \in Times
    PROVE  LET back == validate(str(t)) IN
           IF back = Failed THEN t.hour # 0
           ELSE SecondOf(back) = SecondOf(t) /\ back.microsecond = 10000 * (t.microsecond \div 10000)
<1> DEFINE back == validate(str(t))
           u == (t.microsecond \div 10000) * 10000
<1>1. CASE t.hour # 0
  <2>1. back = Failed
    BY <1>1, PrintedTime
  <2>2. QED
    BY <1>1, <2>1
<1>2. CASE t.hour = 0
  <2>1. back = [t EXCEPT !.microsecond = u]
    BY <1>2, PrintedTime
  <2>2. t = [hour |-> t.hour, minute |-> t.minute, second |-> t.second, microsecond |-> t.microsecond]
        /\ t.microsecond \in 0 .. Million - 1
    BY DEF Times
  <2>3. u = 10000 * (t.microsecond \div 10000)
    BY <2>2, Hundredths
  <2> HIDE DEF back, u
  <2>4. back.hour = t.hour /\ back.minute = t.minute /\ back.second = t.second /\ back.microsecond = u
    BY <2>1, <2>2
  <2>5. SecondOf(back) = SecondOf(t)
    BY <2>4 DEF SecondOf
  <2>6. back # Failed
    <3>1. 10000 * (t.microsecond \div 10000) \in 0 .. Million - 1
      BY <2>2, WholeHundredths
    <3>2. back \in Times
      BY <2>1, <2>2, <2>3, <3>1 DEF Times
    <3>3. QED
      BY <3>2, QuestionsAssumption
  <2>7. QED
    BY <2>3, <2>4, <2>5, <2>6 DEF back
<1>3. QED
  BY <1>1, <1>2

\* A text that is read is in the second it shows, and with two digits at the hundredth.
LEMMA TextShows ==
    ASSUME NEW v, Readable(v), v.kind = "text", validate(v) # Failed
    PROVE  /\ SecondOf(validate(v)) = 60 * v.minutes + v.seconds
           /\ validate(v).microsecond <= Fraction(v.digits)
           /\ Len(v.digits) = 2 => validate(v).microsecond = Fraction(v.digits)
<1> DEFINE t == validate(v)
           d == v.digits
           u == 10000 * (IF Len(d) = 2 THEN 10 * d[1] + d[2] ELSE d[1])
<1>1. v.minutes \in Nat /\ v.seconds \in Nat /\ d \in Seq(0 .. 9) /\ Len(d) \in {1, 2}
  BY DEF Readable
<1>2. t = Time(0, v.minutes, v.seconds, u)
  BY ReadValue
<1>3. t.hour = 0 /\ t.minute = v.minutes /\ t.second = v.seconds /\ t.microsecond = u
  BY <1>2 DEF Time
<1>4. SecondOf(t) = 60 * v.minutes + v.seconds
  BY <1>1, <1>3 DEF SecondOf
<1>5. d[1] \in 0 .. 9 /\ (Len(d) = 2 => d[2] \in 0 .. 9)
  BY <1>1
<1>6. u <= Fraction(d) /\ (Len(d) = 2 => u = Fraction(d))
  BY <1>5 DEF Fraction
<1>7. QED
  BY <1>3, <1>4, <1>6

\* A duration that is read is off by half a hundredth at most.
LEMMA DurationShows ==
    ASSUME NEW v, Readable(v), v.kind = "delta", validate(v) # Failed
    PROVE  LET t == validate(v)
               later == SecondOf(t) - v.seconds
               off == Million * later + t.microsecond - v.micro
           IN later \in {0, 1} /\ -5000 <= off /\ off <= 5000
<1> DEFINE t == validate(v)
           later == SecondOf(t) - v.seconds
<1>1. v.seconds \in Nat /\ v.micro \in Nat
  BY MillionIs DEF Readable
<1>2. /\ t \in Times /\ t.hour = 0 /\ 60 * t.minute + t.second = v.seconds
      /\ v.micro - 5000 <= t.microsecond /\ t.microsecond <= v.micro + 5000
  BY ReadValue
<1>3. t.minute \in 0 .. 59 /\ t.second \in 0 .. 59 /\ t.microsecond \in 0 .. Million - 1
  BY <1>2 DEF Times
<1>4. later = 0
  BY <1>1, <1>2, <1>3 DEF SecondOf
<1>5. t.microsecond \in Int
  BY <1>3, MillionIs
<1> HIDE DEF t, later
<1>6. Million * later = 0
  BY <1>4, MillionIs
<1>7. QED
  BY <1>1, <1>2, <1>4, <1>5, <1>6 DEF t, later

\* What is read is the time that is shown, and what is printed is read again as the same
\* (FlexibleTime).
THEOREM TimesTheorem == AllSpec => []TimesRead
<1>1. ASSUME TablesInv, Asked("time")
      PROVE  TimesRead
  <2> DEFINE v == question.value
             t == validate(v)
             back == validate(str(t))
  <2>1. Readable(v)
    BY <1>1, QuestionsAssumption DEF TablesInv, Asked
  <2>2. answer = IF t = Failed THEN Failed ELSE [time |-> t, again |-> back]
    BY <1>1 DEF TablesInv, Asked
  <2>3. CASE t = Failed
    <3>1. /\ answer = Failed
          /\ v.kind \in {"text", "delta"}
          /\ v.kind = "text" => v.minutes > 59 \/ v.seconds > 59
          /\ v.kind = "delta" => v.seconds >= 3600 \/ v.micro >= Million - 5000
      BY <2>1, <2>2, <2>3, ReadValue
    <3> HIDE DEF t, back
    <3>2. QED
      BY <3>1 DEF TimesRead
  <2>4. CASE t # Failed
    <3>1. t \in Times
      BY <2>1, <2>4, ReadValue
    <3>2. back = Failed \/ back \in Times
      BY <3>1, PrintedBack
    <3>3. answer = [time |-> t, again |-> back] /\ answer.time = t /\ answer.again = back
      BY <2>2, <2>4
    <3>4. answer # Failed
      BY <3>1, <3>2, <3>3, QuestionsAssumption
    <3>5. IF back = Failed THEN t.hour # 0
          ELSE SecondOf(back) = SecondOf(t) /\ back.microsecond = 10000 * (t.microsecond \div 10000)
      BY <3>1, PrintedShows
    <3>6. v.kind = "text" => /\ SecondOf(t) = 60 * v.minutes + v.seconds
                             /\ t.microsecond <= Fraction(v.digits)
                             /\ Len(v.digits) = 2 => t.microsecond = Fraction(v.digits)
      BY <2>1, <2>4, TextShows
    <3>7. v.kind = "delta" =>
             LET later == SecondOf(t) - v.seconds
                 off == Million * later + t.microsecond - v.micro
             IN later \in {0, 1} /\ -5000 <= off /\ off <= 5000
      BY <2>1, <2>4, DurationShows
    <3>v. v = question.value
      OBVIOUS
    <3> HIDE DEF v, t, back
    <3>8. QED
      BY <3>3, <3>4, <3>5, <3>6, <3>7, <3>v DEF TimesRead
  <2>5. QED
    BY <2>3, <2>4
<1>2. QED
  BY <1>1, TablesInvariance, PTL DEF TimesRead

\* The least of some numbers.
LEMMA LeastOf ==
    ASSUME NEW S \in SUBSET Nat, S # {}
    PROVE  Least(S) \in S /\ \A n \in S : Least(S) <= n
<1> DEFINE R == OpToRel(<, Nat)
<1>1. PICK x \in S : \A y \in S : ~ (<<y, x>> \in R)
  BY NatLessThanWellFounded, WFMin
<1>2. ASSUME NEW y \in S
      PROVE  x <= y
  <2>1. ~ (y < x) /\ x \in Nat /\ y \in Nat
    BY <1>1 DEF OpToRel
  <2>2. QED
    BY <2>1
<1>3. \E n \in S : \A m \in S : n <= m
  BY <1>2
<1>4. QED
  BY <1>3 DEF Least

\* A number that is not more than the others, of those it is one of.
LEMMA LeastIs ==
    ASSUME NEW S \in SUBSET Nat, NEW n \in S, \A m \in S : n <= m
    PROVE  Least(S) = n
<1>1. Least(S) \in S /\ Least(S) <= n /\ n <= Least(S)
  BY LeastOf
<1>2. Least(S) \in Nat /\ n \in Nat
  BY <1>1
<1>3. QED
  BY <1>1, <1>2

LEMMA ResolvedTime ==
    ASSUME NEW R, Joined(R), NEW r \in R
    PROVE  resolved_time(r) \in Nat \cup {Null} /\ Null \notin Nat
<1>1. {r.result, r.final} \ {Null} \in SUBSET Nat
  BY DEF Joined
<1>2. Null \notin Nat
  BY QuestionsAssumption
<1>3. QED
  BY <1>1, <1>2, LeastOf DEF resolved_time

\* The rows the best are looked for in, those of an age that is asked for, and what an
\* athlete has in a style among them.
Swam(q) == {r \in Dated(q) : OfAge(q, r)}
Tries(q, a, s) == {r \in Swam(q) : r.athlete = a /\ r.style = s}
BestOf(q, a, s) == Least({resolved_time(r) : r \in Tries(q, a, s)})
PlaceOf(q, r) ==
    1 + Cardinality({t \in {BestOf(q, x.athlete, x.style) :
                               x \in {y \in Swam(q) : y.style = r.style /\ y.gender = r.gender}} :
                        t < BestOf(q, r.athlete, r.style)})

LEMMA SwamRows ==
    ASSUME NEW q, Joined(q.rows)
    PROVE  /\ Swam(q) \subseteq Dated(q) /\ Dated(q) \subseteq Base(q) /\ Base(q) \subseteq q.rows
           /\ Listed(q) \subseteq Base(q)
           /\ \A r \in Base(q) : resolved_time(r) \in Nat
           /\ \A r, s \in q.rows : r.athlete = s.athlete => r.born = s.born /\ r.gender = s.gender
<1>1. Swam(q) \subseteq Dated(q) /\ Dated(q) \subseteq Base(q) /\ Base(q) \subseteq q.rows /\ Listed(q) \subseteq Base(q)
  BY DEF Swam, Dated, Base, Listed
<1>2. ASSUME NEW r \in Base(q)
      PROVE  resolved_time(r) \in Nat
  <2>1. r \in q.rows /\ resolved_time(r) # Null
    BY DEF Base
  <2>2. QED
    BY <2>1, ResolvedTime
<1>3. \A r, s \in q.rows : r.athlete = s.athlete => r.born = s.born /\ r.gender = s.gender
  BY DEF Joined
<1>4. QED
  BY <1>1, <1>2, <1>3

\* The ages of the query are those of the question.
LEMMA AgesAsked ==
    ASSUME NEW q, NEW r, q.today.year \in Int, r.born \in Int, {q.min_age, q.max_age} \subseteq Int \cup {Null}
    PROVE  InCategories(q, r) /\ Aged(q, r, Category(q.min_age, q.max_age)) <=> OfAge(q, r)
<1> DEFINE age == q.today.year - r.born
           In(c) == (c.min # Null => age >= c.min) /\ (c.max # Null => age <= c.max)
           known == q.categories \cap DOMAIN categories
<1>1. ASSUME NEW c, {c.min, c.max} \subseteq Int \cup {Null}
      PROVE  Aged(q, r, c) <=> In(c)
  <2>1. c.min # Null => (r.born <= q.today.year - c.min <=> age >= c.min)
    BY <1>1
  <2>2. c.max # Null => (r.born >= q.today.year - c.max <=> age <= c.max)
    BY <1>1
  <2>3. QED
    BY <2>1, <2>2 DEF Aged
<1>2. Aged(q, r, Category(q.min_age, q.max_age)) <=> In(Category(q.min_age, q.max_age))
  BY <1>1 DEF Category
<1>3. \A c \in DOMAIN categories : {categories[c].min, categories[c].max} \subseteq Int \cup {Null}
  BY DEF categories, Category
<1>4. "absolute" \in DOMAIN categories /\ categories["absolute"].min = Null /\ categories["absolute"].max = Null
  BY DEF categories, Category
<1>5. InCategories(q, r) <=> (known # {} => \E c \in known : In(categories[c]))
  <2>1. InCategories(q, r) <=> (known = {} \/ "absolute" \in known \/ \E c \in known : Aged(q, r, categories[c]))
    BY DEF InCategories
  <2>2. \A c \in known : Aged(q, r, categories[c]) <=> In(categories[c])
    BY <1>1, <1>3
  <2>3. In(categories["absolute"])
    BY <1>4
  <2> HIDE DEF known, In
  <2>4. QED
    BY <2>1, <2>2, <2>3
<1>6. OfAge(q, r) <=> In(Category(q.min_age, q.max_age)) /\ (known # {} => \E c \in known : In(categories[c]))
  BY DEF OfAge
<1> HIDE DEF In, known
<1>7. QED
  BY <1>2, <1>5, <1>6

\* A question for a table, of its own or opened from the front page.
ForTable(q) ==
    /\ Joined(q.rows) /\ q.today.year \in Int
    /\ {q.min_age, q.max_age} \subseteq Int \cup {Null}

\* A row is listed when it has the best time of its athlete.
LEMMA ListedRow ==
    ASSUME NEW q, ForTable(q), NEW r \in Base(q)
    PROVE  r \in Listed(q) <=> /\ Tries(q, r.athlete, r.style) # {}
                               /\ resolved_time(r) = BestOf(q, r.athlete, r.style)
<1> DEFINE D == {d \in Dated(q) : d.athlete = r.athlete /\ d.style = r.style}
<1>1. Joined(q.rows) /\ q.today.year \in Int /\ {q.min_age, q.max_age} \subseteq Int \cup {Null}
  BY DEF ForTable
<1>2. r \in q.rows /\ Swam(q) \subseteq Dated(q) /\ Dated(q) \subseteq q.rows
      /\ \A s \in q.rows : s.athlete = r.athlete => s.born = r.born
  BY <1>1, SwamRows
<1>3. r.born \in Int
  BY <1>1, <1>2 DEF Joined
<1>4. r \in Listed(q) <=> /\ \E b \in Dated(q) : b.athlete = r.athlete /\ b.style = r.style
                          /\ resolved_time(r) = Least({resolved_time(b) : b \in D})
                          /\ InCategories(q, r)
                          /\ Aged(q, r, Category(q.min_age, q.max_age))
  BY DEF Listed
<1>5. InCategories(q, r) /\ Aged(q, r, Category(q.min_age, q.max_age)) <=> OfAge(q, r)
  BY <1>1, <1>3, AgesAsked
<1>6. \A d \in D : OfAge(q, d) <=> OfAge(q, r)
  BY <1>2 DEF OfAge
<1>7. OfAge(q, r) => Tries(q, r.athlete, r.style) = D
  BY <1>6 DEF Tries, Swam
<1>8. ~ OfAge(q, r) => Tries(q, r.athlete, r.style) = {}
  BY <1>6 DEF Tries, Swam
<1>9. (\E b \in Dated(q) : b.athlete = r.athlete /\ b.style = r.style) <=> D # {}
  OBVIOUS
<1> HIDE DEF D
<1>10. CASE OfAge(q, r)
  BY <1>4, <1>5, <1>7, <1>9, <1>10 DEF BestOf
<1>11. CASE ~ OfAge(q, r)
  BY <1>4, <1>5, <1>8, <1>11
<1>12. QED
  BY <1>10, <1>11

\* Whoever swam in the period and is of the age is listed with his best.
LEMMA Somebody ==
    ASSUME NEW q, ForTable(q), NEW r \in Swam(q)
    PROVE  \E z \in Listed(q) :
               /\ z.athlete = r.athlete /\ z.style = r.style /\ z.gender = r.gender
               /\ resolved_time(z) = BestOf(q, r.athlete, r.style)
<1> DEFINE T == Tries(q, r.athlete, r.style)
<1>1. Joined(q.rows)
  BY DEF ForTable
<1>2. r \in T /\ T \subseteq Swam(q)
  BY DEF Tries
<1>3. /\ Swam(q) \subseteq Base(q) /\ Base(q) \subseteq q.rows
      /\ \A x \in Base(q) : resolved_time(x) \in Nat
      /\ \A x, y \in q.rows : x.athlete = y.athlete => x.gender = y.gender
  BY <1>1, SwamRows
<1>4. {resolved_time(x) : x \in T} \in SUBSET Nat /\ {resolved_time(x) : x \in T} # {}
  BY <1>2, <1>3
<1>5. BestOf(q, r.athlete, r.style) \in {resolved_time(x) : x \in T}
  BY <1>4, LeastOf DEF BestOf
<1>6. PICK z \in T : resolved_time(z) = BestOf(q, r.athlete, r.style)
  BY <1>5
<1>7. z \in Swam(q) /\ z.athlete = r.athlete /\ z.style = r.style
  BY DEF Tries
<1>8. z \in Base(q) /\ z.gender = r.gender
  BY <1>3, <1>7
<1>9. z \in Listed(q)
  BY <1>2, <1>6, <1>7, <1>8, ListedRow
<1>10. QED
  BY <1>6, <1>7, <1>8, <1>9

\* Whoever is listed swam in the period, is of the age and has his best time.
LEMMA WhoIsListed ==
    ASSUME NEW q, ForTable(q), NEW z \in Listed(q)
    PROVE  /\ resolved_time(z) = BestOf(q, z.athlete, z.style)
           /\ \E r \in Swam(q) : r.athlete = z.athlete /\ r.style = z.style /\ r.gender = z.gender
<1>1. Joined(q.rows)
  BY DEF ForTable
<1>2. /\ Swam(q) \subseteq q.rows /\ Base(q) \subseteq q.rows /\ z \in Base(q)
      /\ \A x, y \in q.rows : x.athlete = y.athlete => x.gender = y.gender
  BY <1>1, SwamRows
<1>3. Tries(q, z.athlete, z.style) # {} /\ resolved_time(z) = BestOf(q, z.athlete, z.style)
  BY <1>2, ListedRow
<1>4. PICK r \in Swam(q) : r.athlete = z.athlete /\ r.style = z.style
  BY <1>3 DEF Tries
<1>5. r.gender = z.gender
  BY <1>2, <1>4
<1>6. QED
  BY <1>3, <1>4, <1>5

\* The rank among the rows is the place among those who swam.
LEMMA RankIsPlace ==
    ASSUME NEW q, ForTable(q), NEW z \in Listed(q)
    PROVE  row_num(Listed(q), z) = PlaceOf(q, z)
<1> DEFINE faster == {resolved_time(x) : x \in {y \in Listed(q) :
                         y.style = z.style /\ y.gender = z.gender /\ resolved_time(y) < resolved_time(z)}}
           bests == {BestOf(q, x.athlete, x.style) : x \in {y \in Swam(q) : y.style = z.style /\ y.gender = z.gender}}
           better == {t \in bests : t < BestOf(q, z.athlete, z.style)}
<1>1. resolved_time(z) = BestOf(q, z.athlete, z.style)
  BY WhoIsListed
<1>2. ASSUME NEW t \in faster
      PROVE  t \in better
  <2>1. PICK y \in Listed(q) : y.style = z.style /\ y.gender = z.gender /\ resolved_time(y) < resolved_time(z)
                               /\ t = resolved_time(y)
    BY <1>2
  <2>2. PICK r \in Swam(q) : r.athlete = y.athlete /\ r.style = y.style /\ r.gender = y.gender
    BY WhoIsListed
  <2>3. resolved_time(y) = BestOf(q, y.athlete, y.style)
    BY WhoIsListed
  <2>4. t \in bests
    BY <2>1, <2>2, <2>3
  <2>5. QED
    BY <1>1, <2>1, <2>4
<1>3. ASSUME NEW t \in better
      PROVE  t \in faster
  <2>1. PICK r \in Swam(q) : r.style = z.style /\ r.gender = z.gender /\ t = BestOf(q, r.athlete, r.style)
    BY <1>3
  <2>2. PICK y \in Listed(q) : /\ y.athlete = r.athlete /\ y.style = r.style /\ y.gender = r.gender
                               /\ resolved_time(y) = BestOf(q, r.athlete, r.style)
    BY Somebody
  <2>3. t < resolved_time(z)
    BY <1>1, <1>3
  <2>4. QED
    BY <2>1, <2>2, <2>3
<1>4. faster = better
  BY <1>2, <1>3
<1>5. row_num(Listed(q), z) = 1 + Cardinality(faster)
  BY DEF row_num
<1>6. PlaceOf(q, z) = 1 + Cardinality(better)
  BY DEF PlaceOf
<1>7. QED
  BY <1>4, <1>5, <1>6

LEMMA RankNat ==
    ASSUME NEW R, IsFiniteSet(R), NEW r
    PROVE  row_num(R, r) \in Nat
<1> DEFINE F == {y \in R : y.style = r.style /\ y.gender = r.gender /\ resolved_time(y) < resolved_time(r)}
           T == {resolved_time(x) : x \in F}
           f == [x \in F |-> resolved_time(x)]
<1>1. IsFiniteSet(F)
  BY FS_Subset
<1>2. f \in Surjection(F, T)
  BY DEF Surjection
<1> HIDE DEF f
<1>3. IsFiniteSet(T)
  BY <1>1, <1>2, FS_Surjection
<1>4. Cardinality(T) \in Nat
  BY <1>3, FS_CardinalityType
<1>5. row_num(R, r) = 1 + Cardinality(T)
  BY DEF row_num
<1>6. QED
  BY <1>4, <1>5

\* The first page: all rows where there is no limit, and nobody left out for a worse one.
LEMMA FirstPage ==
    ASSUME NEW R, IsFiniteSet(R), NEW limit \in Nat, NEW P \in PagesOf(R, 0, limit)
    PROVE  /\ limit = 0 => P = R
           /\ \A p \in P, r \in R \ P : row_num(R, p) <= row_num(R, r)
<1> DEFINE n == Cardinality(R)
<1>1. n \in Nat
  BY FS_CardinalityType
<1>2. PICK S \in SUBSET (R \ P) :
          /\ Cardinality(S) = Least({0, n})
          /\ Cardinality(P) = IF limit = 0 THEN n - Cardinality(S) ELSE Least({limit, n - Cardinality(S)})
          /\ \A p \in P, r \in R \ (S \cup P) : row_num(R, p) <= row_num(R, r)
  BY DEF PagesOf
<1>3. Least({0, n}) = 0
  <2>1. {0, n} \in SUBSET Nat /\ \A m \in {0, n} : 0 <= m
    BY <1>1
  <2>2. QED
    BY <2>1, LeastIs
<1>4. S = {}
  <2>1. IsFiniteSet(S)
    BY FS_Subset
  <2>2. QED
    BY <1>2, <1>3, <2>1, FS_EmptySet
<1>5. P \in SUBSET R
  BY DEF PagesOf
<1>6. limit = 0 => P = R
  <2>1. limit = 0 => Cardinality(P) = n
    BY <1>1, <1>2, <1>3
  <2>2. QED
    BY <1>5, <2>1, FS_Subset
<1>7. QED
  BY <1>2, <1>4, <1>6

LEMMA TopAnswer ==
    ASSUME TablesInv, Asked("top")
    PROVE  BestAndPlace
<1> DEFINE q == question
           R == Listed(q)
<1>1. question \in Questions /\ question.about = "top" /\ answer \in build_top_results_query(question)
  BY DEF TablesInv, Asked
<1>2. ForTable(question) /\ question.offset \in Nat /\ question.limit \in Nat
  BY <1>1, QuestionsAssumption DEF ForTable
<1>q. q = question /\ ForTable(q)
  BY <1>2
<1>r. IsFiniteSet(R)
  <2>1. R \subseteq q.rows /\ IsFiniteSet(q.rows)
    BY <1>q, SwamRows DEF ForTable, Joined
  <2>2. QED
    BY <2>1, FS_Subset
<1>3. PICK P \in PagesOf(R, q.offset, q.limit) : answer = {[row |-> r, rank |-> row_num(R, r)] : r \in P}
  BY <1>1 DEF build_top_results_query
<1>4. P \subseteq R
  BY DEF PagesOf
<1>R. R = Listed(q)
  OBVIOUS
<1> HIDE DEF q, R
<1>5. \A e \in answer : e.row \in P /\ e.rank = row_num(R, e.row) /\ e.row \in R
  BY <1>3, <1>4
<1>6. ASSUME NEW e \in answer
      PROVE  /\ \E r \in Swam(q) : r.athlete = e.row.athlete /\ r.style = e.row.style
             /\ resolved_time(e.row) = BestOf(q, e.row.athlete, e.row.style)
             /\ e.rank = PlaceOf(q, e.row)
  <2>1. e.row \in Listed(q) /\ e.rank = row_num(Listed(q), e.row)
    BY <1>5, <1>R
  <2>2. QED
    BY <1>q, <2>1, WhoIsListed, RankIsPlace
<1>7. ASSUME q.limit = 0, q.offset = 0, NEW r \in Swam(q)
      PROVE  \E e \in answer : e.row.athlete = r.athlete /\ e.row.style = r.style
  <2>1. PICK z \in R : z.athlete = r.athlete /\ z.style = r.style
    BY <1>q, <1>R, Somebody
  <2>2. P = R
    BY <1>2, <1>q, <1>r, <1>7, FirstPage
  <2>3. [row |-> z, rank |-> row_num(R, z)] \in answer
    BY <1>3, <2>2
  <2>4. QED
    BY <2>1, <2>3
<1>8. ASSUME q.offset = 0, NEW r \in Swam(q), NEW e \in answer, PlaceOf(q, r) < e.rank
      PROVE  \E f \in answer : f.row.athlete = r.athlete /\ f.row.style = r.style
  <2>1. PICK z \in R : z.athlete = r.athlete /\ z.style = r.style /\ z.gender = r.gender
    BY <1>q, <1>R, Somebody
  <2>2. PlaceOf(q, z) = PlaceOf(q, r)
    BY <2>1 DEF PlaceOf
  <2>3. row_num(R, z) = PlaceOf(q, r)
    BY <1>q, <1>R, <2>2, RankIsPlace
  <2>4. row_num(R, z) \in Nat /\ row_num(R, e.row) \in Nat
    BY <1>r, RankNat
  <2>5. z \in P
    <3>1. SUFFICES ASSUME z \notin P
                   PROVE  FALSE
      OBVIOUS
    <3>2. row_num(R, e.row) <= row_num(R, z)
      BY <1>2, <1>q, <1>r, <1>5, <1>8, <3>1, FirstPage
    <3>3. row_num(R, z) < row_num(R, e.row)
      BY <1>5, <1>8, <2>3
    <3>4. QED
      BY <2>4, <3>2, <3>3
  <2>6. [row |-> z, rank |-> row_num(R, z)] \in answer
    BY <1>3, <2>5
  <2>7. QED
    BY <2>1, <2>6
<1>9. BestAndPlace <=>
        (Asked("top") =>
           /\ \A e \in answer : /\ \E r \in Swam(question) : r.athlete = e.row.athlete /\ r.style = e.row.style
                                /\ resolved_time(e.row) = BestOf(question, e.row.athlete, e.row.style)
                                /\ e.rank = PlaceOf(question, e.row)
           /\ question.limit = 0 /\ question.offset = 0 =>
                \A r \in Swam(question) : \E e \in answer : e.row.athlete = r.athlete /\ e.row.style = r.style
           /\ question.offset = 0 => \A r \in Swam(question), e \in answer :
                PlaceOf(question, r) < e.rank =>
                    \E f \in answer : f.row.athlete = r.athlete /\ f.row.style = r.style)
  BY DEF BestAndPlace, BestOf, PlaceOf, Tries, Swam
<1>10. QED
  BY <1>6, <1>7, <1>8, <1>q, <1>9

\* The question the front page opens its pick with.
OfPick(q, c) ==
    [rows |-> q.rows, today |-> q.today, style |-> c.style,
     gender |-> c.gender, categories |-> {c.category}, min_age |-> Null,
     max_age |-> Null, current |-> TRUE, season |-> Null, year |-> Null, from |-> Null,
     till |-> Null, courses |-> {}, statuses |-> {}]

LEMMA PickAnswer ==
    ASSUME TablesInv, Asked("random"), answer # Failed
    PROVE  PickHasTable
<1> DEFINE q == OfPick(question, answer)
           N == Counted(question, answer)
           last == Date(current_season(question.today) + 1, 8, 31)
<1>1. /\ Joined(question.rows) /\ question.today.year \in Int /\ question.today.month \in Int
      /\ Cardinality(N) >= 3
  BY QuestionsAssumption DEF TablesInv, Asked
<1>2. N # {}
  BY <1>1, FS_EmptySet
<1>3. ASSUME NEW r \in N, resolved_time(r) # Null, ~ (r.end > last)
      PROVE  Listed(q) # {}
  <2>1. /\ r \in question.rows /\ r.style = answer.style /\ r.gender = answer.gender
        /\ Aged(question, r, categories[answer.category])
        /\ r.start \in Date(current_season(question.today), 9, 1) .. last
    BY DEF Counted
  <2>2. ForTable(q)
    BY <1>1 DEF OfPick, ForTable
  <2>3. r \in Base(q)
    BY <1>3, <2>1 DEF Base, OfPick
  <2>4. r.end \in Int /\ last \in Int
    BY <1>1, <2>1 DEF Joined, Date, current_season
  <2>5. Season(r, current_season(question.today))
    BY <1>3, <2>1, <2>4 DEF Season, Within
  <2>6. r \in Dated(q)
    <3>1. /\ q.current = TRUE /\ q.today = question.today /\ q.year = Null /\ q.from = Null /\ q.till = Null
          /\ q.courses = {} /\ q.statuses = {}
      BY DEF OfPick
    <3> HIDE DEF q
    <3>2. QED
      BY <2>3, <2>5, <3>1 DEF Dated
  <2>7. OfAge(q, r)
    <3>1. Aged(q, r, categories[answer.category])
      BY <2>1 DEF Aged, OfPick
    <3>2. InCategories(q, r)
      BY <3>1 DEF InCategories, OfPick
    <3>3. Aged(q, r, Category(q.min_age, q.max_age))
      BY DEF Aged, OfPick, Category
    <3>4. r.born \in Int /\ q.today.year \in Int /\ {q.min_age, q.max_age} \subseteq Int \cup {Null}
      BY <1>1, <2>1, <2>2 DEF Joined, ForTable
    <3> HIDE DEF q
    <3>5. QED
      BY <3>2, <3>3, <3>4, AgesAsked
  <2>8. r \in Swam(q)
    BY <2>6, <2>7 DEF Swam
  <2> HIDE DEF q
  <2>9. QED
    BY <2>2, <2>8, Somebody
<1>4. QED
  BY <1>2, <1>3 DEF PickHasTable, OfPick

\* A top table has everybody with his best time and at his place, and the one the front
\* page picks shows somebody (build_top_results_query, get_random_top).
THEOREM TableTheorem == AllSpec => []TableIsBest
<1>1. TablesInv => TableIsBest
  BY TopAnswer, PickAnswer DEF TableIsBest, BestAndPlace, PickHasTable
<1>2. QED
  BY <1>1, TablesInvariance, PTL

\* Induction, over a set of numbers.
LEMMA Reached ==
    ASSUME NEW T \in SUBSET Nat, 0 \in T, \A n \in T : n + 1 \in T
    PROVE  \A n \in Nat : n \in T
<1> DEFINE R == OpToRel(<, Nat)
<1>1. SUFFICES ASSUME Nat \ T # {} PROVE FALSE
  OBVIOUS
<1>2. PICK x \in Nat \ T : \A y \in Nat \ T : ~ (<<y, x>> \in R)
  BY <1>1, NatLessThanWellFounded, WFMin
<1>3. x # 0 /\ x \in Nat
  BY <1>2
<1>4. x - 1 \in Nat /\ x - 1 < x /\ (x - 1) + 1 = x
  BY <1>3
<1>5. x - 1 \in T
  BY <1>2, <1>4 DEF OpToRel
<1>6. QED
  BY <1>2, <1>4, <1>5

-----------------------------------------------------------------------------
(* The marks of an athlete's results.                                      *)

\* The marks after each of the first results.
Marks(rows, last) ==
    LET best[n \in 0 .. last] ==
            IF n = 0 THEN [s \in {} |-> 0] ELSE Marked(rows, best[n - 1], n)
    IN best

LEMMA MarksThere ==
    ASSUME NEW rows, NEW last \in Nat
    PROVE  Marks(rows, last) =
               [n \in 0 .. last |-> IF n = 0 THEN [s \in {} |-> 0]
                                    ELSE Marked(rows, Marks(rows, last)[n - 1], n)]
<1> DEFINE Body(g, n) == IF n = 0 THEN [s \in {} |-> 0] ELSE Marked(rows, g[n - 1], n)
           T == {k \in Nat : \E g : g = [n \in 0 .. k |-> Body(g, n)]}
<1>1. 0 \in T
  <2> DEFINE g == [n \in 0 .. 0 |-> [s \in {} |-> 0]]
  <2>1. g = [n \in 0 .. 0 |-> Body(g, n)]
    OBVIOUS
  <2> HIDE DEF g
  <2>2. QED
    BY <2>1
<1>2. ASSUME NEW k \in T
      PROVE  k + 1 \in T
  <2>1. PICK h : h = [n \in 0 .. k |-> Body(h, n)]
    OBVIOUS
  <2>k. k \in Nat
    OBVIOUS
  <2> DEFINE g == [n \in 0 .. k + 1 |-> IF n = k + 1 THEN Body(h, n) ELSE h[n]]
  <2>2. ASSUME NEW n \in 0 .. k + 1
        PROVE  g[n] = Body(g, n)
    <3>1. CASE n = 0
      <4>1. g[n] = h[0] /\ h[0] = [s \in {} |-> 0]
        BY <2>1, <2>k, <3>1
      <4>2. QED
        BY <3>1, <4>1
    <3>2. CASE n # 0
      <4>1. n - 1 \in 0 .. k /\ n - 1 \in 0 .. k + 1 /\ n - 1 # k + 1
        BY <2>k, <3>2
      <4>2. g[n - 1] = h[n - 1]
        BY <4>1
      <4>3. n # k + 1 => n \in 0 .. k
        BY <2>k
      <4>4. g[n] = Body(h, n)
        BY <2>1, <4>3
      <4>5. QED
        BY <3>2, <4>2, <4>4
    <3>3. QED
      BY <3>1, <3>2
  <2>3. g = [n \in 0 .. k + 1 |-> Body(g, n)]
    BY <2>2
  <2>4. \E f : f = [n \in 0 .. k + 1 |-> Body(f, n)]
    BY <2>3
  <2>5. k + 1 \in Nat
    BY <2>k
  <2>6. QED
    BY <2>4, <2>5, Zenon
<1>3. last \in T
  BY <1>1, <1>2, Reached
<1>4. \E g : g = [n \in 0 .. last |-> Body(g, n)]
  BY <1>3
<1>5. QED
  BY <1>4 DEF Marks

\* Of the first n results those with a time; and what the marks are of them.
Timed(rows, n) == {m \in 1 .. n : resolved_time(rows[m]) # Null}

NoWorse(rows, m, k) ==
    \/ resolved_time(rows[m]) < resolved_time(rows[k])
    \/ resolved_time(rows[m]) = resolved_time(rows[k]) /\ m <= k

BestsOf(rows, best, n) ==
    /\ DOMAIN best = {rows[m].style : m \in Timed(rows, n)}
    /\ \A s \in DOMAIN best :
          /\ best[s] \in Timed(rows, n) /\ rows[best[s]].style = s
          /\ \A m \in Timed(rows, n) : rows[m].style = s => NoWorse(rows, best[s], m)

LEMMA MarkedStep ==
    ASSUME NEW rows, NEW n \in Nat, NEW best, BestsOf(rows, best, n),
           \A m \in 1 .. n + 1 : resolved_time(rows[m]) \in Nat \cup {Null}
    PROVE  BestsOf(rows, Marked(rows, best, n + 1), n + 1)
<1> DEFINE t == resolved_time(rows[n + 1])
           s == rows[n + 1].style
           new == Marked(rows, best, n + 1)
<1>0. Null \notin Nat
  BY QuestionsAssumption
<1>1. n + 1 \in 1 .. n + 1 /\ \A m \in 1 .. n + 1 : m = n + 1 \/ m \in 1 .. n
  OBVIOUS
<1>2. Timed(rows, n + 1) = IF t = Null THEN Timed(rows, n) ELSE Timed(rows, n) \cup {n + 1}
  BY <1>1 DEF Timed
<1>t. \A m \in Timed(rows, n + 1) : m \in Nat /\ resolved_time(rows[m]) \in Nat
  BY DEF Timed
<1>n. Timed(rows, n) \subseteq Timed(rows, n + 1) /\ \A m \in Timed(rows, n) : m < n + 1
  BY DEF Timed
<1>3. CASE t = Null
  <2>1. new = best
    BY <1>3 DEF Marked
  <2>2. QED
    BY <1>2, <1>3, <2>1 DEF BestsOf
<1>4. CASE t # Null /\ s \in DOMAIN best /\ ~ (resolved_time(rows[best[s]]) > t)
  <2>1. new = best
    BY <1>4 DEF Marked
  <2>2. Timed(rows, n + 1) = Timed(rows, n) \cup {n + 1}
    BY <1>2, <1>4
  <2>3. DOMAIN best = {rows[m].style : m \in Timed(rows, n + 1)}
    BY <2>2, <1>4 DEF BestsOf
  <2>4. ASSUME NEW x \in DOMAIN best
        PROVE  /\ best[x] \in Timed(rows, n + 1) /\ rows[best[x]].style = x
               /\ \A m \in Timed(rows, n + 1) : rows[m].style = x => NoWorse(rows, best[x], m)
    <3>1. /\ best[x] \in Timed(rows, n) /\ rows[best[x]].style = x
          /\ \A m \in Timed(rows, n) : rows[m].style = x => NoWorse(rows, best[x], m)
      BY DEF BestsOf
    <3>2. x = s => NoWorse(rows, best[x], n + 1)
      <4>1. best[x] < n + 1 /\ best[x] \in Nat /\ resolved_time(rows[best[x]]) \in Nat /\ t \in Nat
        BY <3>1, <1>n, <1>t, <2>2
      <4>2. QED
        BY <1>4, <4>1 DEF NoWorse
    <3>3. QED
      BY <2>2, <3>1, <3>2
  <2>5. QED
    BY <2>1, <2>3, <2>4 DEF BestsOf
<1>5. CASE t # Null /\ (s \in DOMAIN best => resolved_time(rows[best[s]]) > t)
  <2>1. new = [x \in DOMAIN best \cup {s} |-> IF x = s THEN n + 1 ELSE best[x]]
    BY <1>5 DEF Marked
  <2>2. Timed(rows, n + 1) = Timed(rows, n) \cup {n + 1}
    BY <1>2, <1>5
  <2>3. DOMAIN new = {rows[m].style : m \in Timed(rows, n + 1)}
    <3>1. DOMAIN new = DOMAIN best \cup {s}
      BY <2>1
    <3>2. DOMAIN best = {rows[m].style : m \in Timed(rows, n)}
      BY DEF BestsOf
    <3>3. {rows[m].style : m \in Timed(rows, n) \cup {n + 1}} = {rows[m].style : m \in Timed(rows, n)} \cup {s}
      OBVIOUS
    <3>4. QED
      BY <2>2, <3>1, <3>2, <3>3
  <2>4. ASSUME NEW x \in DOMAIN new
        PROVE  /\ new[x] \in Timed(rows, n + 1) /\ rows[new[x]].style = x
               /\ \A m \in Timed(rows, n + 1) : rows[m].style = x => NoWorse(rows, new[x], m)
    <3>1. CASE x = s
      <4>1. new[x] = n + 1
        BY <2>1, <3>1
      <4>2. ASSUME NEW m \in Timed(rows, n), rows[m].style = s
            PROVE  NoWorse(rows, n + 1, m)
        <5>1. s \in DOMAIN best
          BY <4>2 DEF BestsOf
        <5>2. best[s] \in Timed(rows, n) /\ NoWorse(rows, best[s], m)
          BY <4>2, <5>1 DEF BestsOf
        <5>3. /\ resolved_time(rows[best[s]]) \in Nat /\ resolved_time(rows[m]) \in Nat /\ t \in Nat
              /\ resolved_time(rows[best[s]]) > t
          BY <1>5, <1>n, <1>t, <2>2, <5>1, <5>2
        <5>4. QED
          BY <5>2, <5>3 DEF NoWorse
      <4>3. NoWorse(rows, n + 1, n + 1)
        BY DEF NoWorse
      <4>4. QED
        BY <2>2, <3>1, <4>1, <4>2, <4>3
    <3>2. CASE x # s
      <4>1. x \in DOMAIN best /\ new[x] = best[x]
        BY <2>1, <3>2
      <4>2. /\ best[x] \in Timed(rows, n) /\ rows[best[x]].style = x
            /\ \A m \in Timed(rows, n) : rows[m].style = x => NoWorse(rows, best[x], m)
        BY <4>1 DEF BestsOf
      <4>3. QED
        BY <2>2, <3>2, <4>1, <4>2
    <3>3. QED
      BY <3>1, <3>2
  <2>5. QED
    BY <2>3, <2>4 DEF BestsOf
<1>6. QED
  BY <1>3, <1>4, <1>5

LEMMA MarksAre ==
    ASSUME NEW rows, Len(rows) \in Nat,
           \A m \in 1 .. Len(rows) : resolved_time(rows[m]) \in Nat \cup {Null}
    PROVE  BestsOf(rows, best_results(rows), Len(rows))
<1> DEFINE last == Len(rows)
           g == Marks(rows, last)
           T == {n \in Nat : n <= last => BestsOf(rows, g[n], n)}
<1>1. g = [n \in 0 .. last |-> IF n = 0 THEN [s \in {} |-> 0] ELSE Marked(rows, g[n - 1], n)]
  BY MarksThere
<1>2. best_results(rows) = g[last]
  BY DEF best_results, Marks
<1>l. last \in Nat /\ \A m \in 1 .. last : resolved_time(rows[m]) \in Nat \cup {Null}
  OBVIOUS
<1> HIDE DEF g, last
<1>3. 0 \in T
  <2>1. g[0] = [s \in {} |-> 0]
    BY <1>1, <1>l
  <2>2. Timed(rows, 0) = {}
    BY DEF Timed
  <2>3. QED
    BY <2>1, <2>2 DEF BestsOf
<1>4. ASSUME NEW n \in T
      PROVE  n + 1 \in T
  <2>1. n \in Nat
    OBVIOUS
  <2>2. CASE n + 1 <= last
    <3>1. BestsOf(rows, g[n], n)
      BY <1>l, <2>1, <2>2
    <3>2. n + 1 \in 0 .. last /\ n + 1 # 0 /\ (n + 1) - 1 = n /\ \A m \in 1 .. n + 1 : m \in 1 .. last
      BY <1>l, <2>1, <2>2
    <3>3. g[n + 1] = Marked(rows, g[n], n + 1)
      BY <1>1, <3>2
    <3>4. \A m \in 1 .. n + 1 : resolved_time(rows[m]) \in Nat \cup {Null}
      BY <1>l, <3>2
    <3>5. BestsOf(rows, g[n + 1], n + 1)
      BY <2>1, <3>1, <3>3, <3>4, MarkedStep
    <3>6. QED
      BY <2>1, <3>5
  <2>3. CASE ~ (n + 1 <= last)
    BY <2>1, <2>3
  <2>4. QED
    BY <2>2, <2>3
<1>5. last \in T
  BY <1>3, <1>4, <1>l, Reached
<1>6. QED
  BY <1>2, <1>5, <1>l DEF last

\* Sorting: every element once, in order.
LEMMA SortedOrder ==
    ASSUME NEW S, IsFiniteSet(S), NEW before,
           \A m \in S : <<m, m>> \notin before,
           \A m, n \in S : m = n \/ <<m, n>> \in before \/ <<n, m>> \in before,
           \A l, m, n \in S : <<l, m>> \in before /\ <<m, n>> \in before => <<l, n>> \in before
    PROVE  /\ Sorted(S, before) \in [1 .. Cardinality(S) -> S]
           /\ \A i, j \in 1 .. Cardinality(S) :
                 i < j => <<Sorted(S, before)[i], Sorted(S, before)[j]>> \in before
           /\ \A n \in S : \E i \in 1 .. Cardinality(S) : Sorted(S, before)[i] = n
           /\ Cardinality(S) \in Nat
<1> DEFINE N == Cardinality(S)
           Up(n) == {m \in S : m = n \/ <<m, n>> \in before}
           r == [n \in S |-> Cardinality(Up(n))]
<1>1. N \in Nat
  BY FS_CardinalityType
<1>2. \A n \in S : /\ IsFiniteSet(Up(n)) /\ Cardinality(Up(n)) \in Nat
                   /\ Cardinality(Up(n)) <= N /\ Cardinality(Up(n)) # 0
  <2> TAKE n \in S
  <2>1. Up(n) \in SUBSET S /\ n \in Up(n)
    OBVIOUS
  <2> HIDE DEF Up
  <2>2. IsFiniteSet(Up(n)) /\ Cardinality(Up(n)) <= N
    BY <2>1, FS_Subset
  <2>3. Cardinality(Up(n)) \in Nat
    BY <2>2, FS_CardinalityType
  <2>4. Cardinality(Up(n)) # 0
    BY <2>1, <2>2, FS_EmptySet
  <2>5. QED
    BY <2>2, <2>3, <2>4
<1>3. ASSUME NEW m \in S, NEW n \in S, <<m, n>> \in before
      PROVE  Cardinality(Up(m)) < Cardinality(Up(n))
  <2>1. Up(m) \in SUBSET Up(n) /\ n \in Up(n) /\ n \notin Up(m)
    BY <1>3
  <2>2. IsFiniteSet(Up(n)) /\ Cardinality(Up(m)) \in Nat /\ Cardinality(Up(n)) \in Nat
    BY <1>2
  <2> HIDE DEF Up
  <2>3. Cardinality(Up(m)) <= Cardinality(Up(n)) /\ Cardinality(Up(n)) # Cardinality(Up(m))
    BY <2>1, <2>2, FS_Subset
  <2>4. QED
    BY <2>2, <2>3
<1>4. r \in [S -> 1 .. N]
  BY <1>1, <1>2
<1>5. \A m, n \in S : <<m, n>> \in before => r[m] < r[n]
  BY <1>3
<1>r. \A n \in S : r[n] \in 1 .. N
  BY <1>4
<1> HIDE DEF r, Up, N
<1>6. \A m, n \in S : r[m] = r[n] => m = n
  <2> TAKE m, n \in S
  <2>1. r[m] \in Int /\ r[n] \in Int
    BY <1>r
  <2>2. <<m, n>> \in before => r[m] < r[n]
    BY <1>5
  <2>3. <<n, m>> \in before => r[n] < r[m]
    BY <1>5
  <2>4. QED
    BY <2>1, <2>2, <2>3
<1>7. r \in Surjection(S, 1 .. N)
  <2>1. r \in Injection(S, 1 .. N)
    BY <1>4, <1>6 DEF Injection, IsInjective
  <2>2. IsFiniteSet(1 .. N) /\ Cardinality(1 .. N) = N
    BY <1>1, FS_Interval
  <2>3. QED
    BY <2>1, <2>2, FS_Injection DEF N
<1>8. \A k \in 1 .. N : \E n \in S : r[n] = k
  BY <1>7 DEF Surjection
<1>9. \E s \in [1 .. N -> S] : \A i, j \in DOMAIN s : i < j => <<s[i], s[j]>> \in before
  <2> DEFINE s == [k \in 1 .. N |-> CHOOSE n \in S : r[n] = k]
  <2>1. \A k \in 1 .. N : s[k] \in S /\ r[s[k]] = k
    BY <1>8
  <2>2. s \in [1 .. N -> S] /\ DOMAIN s = 1 .. N
    BY <2>1
  <2> HIDE DEF s
  <2>3. ASSUME NEW i \in 1 .. N, NEW j \in 1 .. N, i < j
        PROVE  <<s[i], s[j]>> \in before
    <3>1. s[i] \in S /\ s[j] \in S /\ r[s[i]] = i /\ r[s[j]] = j /\ i \in Int /\ j \in Int
      BY <2>1
    <3>2. s[i] # s[j] /\ <<s[j], s[i]>> \notin before
      BY <1>5, <2>3, <3>1
    <3>3. QED
      BY <3>1, <3>2
  <2>4. QED
    BY <2>2, <2>3
<1> DEFINE t == Sorted(S, before)
<1>10. t \in [1 .. N -> S] /\ \A i, j \in DOMAIN t : i < j => <<t[i], t[j]>> \in before
  BY <1>9 DEF Sorted, N
<1> HIDE DEF t
<1>11. \A i, j \in 1 .. N : i < j => <<t[i], t[j]>> \in before
  BY <1>10
<1>12. \A n \in S : \E i \in 1 .. N : t[i] = n
  <2>1. \A i, j \in 1 .. N : t[i] = t[j] => i = j
    <3> TAKE i, j \in 1 .. N
    <3>1. i \in Int /\ j \in Int /\ t[i] \in S /\ t[j] \in S
      BY <1>1, <1>10
    <3>2. i < j \/ j < i \/ i = j
      BY <3>1
    <3>3. QED
      BY <1>11, <3>1, <3>2
  <2>2. t \in Injection(1 .. N, S)
    BY <1>10, <2>1 DEF Injection, IsInjective
  <2>3. IsFiniteSet(1 .. N) /\ Cardinality(1 .. N) = N
    BY <1>1, FS_Interval
  <2>4. t \in Surjection(1 .. N, S)
    BY <2>2, <2>3, FS_Injection DEF N
  <2>5. QED
    BY <2>4 DEF Surjection
<1>13. QED
  BY <1>1, <1>10, <1>11, <1>12 DEF N, t

\* Where a competition is met first.
LEMMA FirstOf ==
    ASSUME NEW rows, Len(rows) \in Nat, DOMAIN rows = 1 .. Len(rows), NEW n \in DOMAIN rows
    PROVE  \E m \in Firsts(rows) : rows[m].competition = rows[n].competition
<1> DEFINE S == {m \in DOMAIN rows : rows[m].competition = rows[n].competition}
<1>1. S \in SUBSET Nat /\ n \in S
  OBVIOUS
<1>2. Least(S) \in S /\ \A m \in S : Least(S) <= m
  BY <1>1, LeastOf
<1> DEFINE l == Least(S)
<1>3. l \in DOMAIN rows /\ rows[l].competition = rows[n].competition /\ l \in Nat
  BY <1>1, <1>2
<1> HIDE DEF l
<1>4. ASSUME NEW m \in 1 .. l - 1
      PROVE  rows[m].competition # rows[l].competition
  <2>1. m \in DOMAIN rows /\ ~ (l <= m)
    BY <1>3
  <2>2. m \notin S
    BY <1>2, <2>1 DEF l
  <2>3. QED
    BY <1>3, <2>1, <2>2
<1>5. QED
  BY <1>3, <1>4 DEF Firsts

\* The groups of an answer.
LEMMA Grouped ==
    ASSUME NEW rows, Len(rows) \in Nat, DOMAIN rows = 1 .. Len(rows),
           \A m \in DOMAIN rows : rows[m].start \in Int,
           \A m, n \in DOMAIN rows :
               rows[m].competition = rows[n].competition => rows[m].start = rows[n].start,
           NEW groups, groups = ByCompetition(rows)
    PROVE  /\ \A n \in DOMAIN rows : \E k \in DOMAIN groups : n \in groups[k]
           /\ \A k, l \in DOMAIN groups : \A n \in groups[k], m \in groups[l] :
                /\ k = l <=> rows[n].competition = rows[m].competition
                /\ k < l => rows[n].start >= rows[m].start
<1> DEFINE S == Firsts(rows)
           N == Cardinality(S)
           R == LaterFirst(rows)
           s == Sorted(S, R)
<1>1. IsFiniteSet(S) /\ S \subseteq DOMAIN rows
  <2>1. S \in SUBSET (1 .. Len(rows)) /\ IsFiniteSet(1 .. Len(rows))
    BY FS_Interval DEF Firsts
  <2>2. QED
    BY <2>1, FS_Subset
<1>2. \A m, n \in S : m # n => rows[m].competition # rows[n].competition
  <2> TAKE m, n \in S
  <2>1. m \in Nat /\ n \in Nat /\ m \in 1 .. Len(rows) /\ n \in 1 .. Len(rows)
    BY <1>1
  <2>2. m < n => m \in 1 .. n - 1
    BY <2>1
  <2>3. n < m => n \in 1 .. m - 1
    BY <2>1
  <2>4. m # n => m < n \/ n < m
    BY <2>1
  <2>5. QED
    BY <2>2, <2>3, <2>4 DEF Firsts
<1>3. \A m, n \in DOMAIN rows :
          <<m, n>> \in R <=> \/ rows[m].start > rows[n].start
                             \/ rows[m].start = rows[n].start /\ m < n
  BY DEF LaterFirst
<1>4. /\ \A m \in S : <<m, m>> \notin R
      /\ \A m, n \in S : m = n \/ <<m, n>> \in R \/ <<n, m>> \in R
      /\ \A l, m, n \in S : <<l, m>> \in R /\ <<m, n>> \in R => <<l, n>> \in R
  <2>1. \A m \in S : m \in DOMAIN rows /\ m \in Int /\ rows[m].start \in Int
    BY <1>1
  <2> HIDE DEF S, R
  <2>2. ASSUME NEW m \in S
        PROVE  <<m, m>> \notin R
    BY <1>3, <2>1
  <2>3. ASSUME NEW m \in S, NEW n \in S
        PROVE  m = n \/ <<m, n>> \in R \/ <<n, m>> \in R
    <3>1. m \in Int /\ n \in Int /\ rows[m].start \in Int /\ rows[n].start \in Int
      BY <2>1
    <3>2. QED
      BY <1>3, <2>1, <3>1
  <2>4. ASSUME NEW l \in S, NEW m \in S, NEW n \in S, <<l, m>> \in R, <<m, n>> \in R
        PROVE  <<l, n>> \in R
    <3>1. /\ l \in Int /\ m \in Int /\ n \in Int
          /\ rows[l].start \in Int /\ rows[m].start \in Int /\ rows[n].start \in Int
      BY <2>1
    <3>2. /\ rows[l].start > rows[m].start \/ (rows[l].start = rows[m].start /\ l < m)
          /\ rows[m].start > rows[n].start \/ (rows[m].start = rows[n].start /\ m < n)
      BY <1>3, <2>1, <2>4
    <3>3. rows[l].start > rows[n].start \/ (rows[l].start = rows[n].start /\ l < n)
      BY <3>1, <3>2
    <3>4. QED
      BY <1>3, <2>1, <3>3
  <2>5. QED
    BY <2>2, <2>3, <2>4
<1> HIDE DEF S, R, s, N
<1>t. /\ Sorted(S, R) \in [1 .. Cardinality(S) -> S]
      /\ \A i, j \in 1 .. Cardinality(S) : i < j => <<Sorted(S, R)[i], Sorted(S, R)[j]>> \in R
      /\ \A n \in S : \E i \in 1 .. Cardinality(S) : Sorted(S, R)[i] = n
      /\ Cardinality(S) \in Nat
  BY <1>1, <1>4, SortedOrder
<1>5. /\ s \in [1 .. N -> S] /\ N \in Nat
      /\ \A i, j \in 1 .. N : i < j => <<s[i], s[j]>> \in R
      /\ \A n \in S : \E i \in 1 .. N : s[i] = n
  BY <1>t DEF s, N
<1>6. groups = [k \in 1 .. N |-> {n \in DOMAIN rows : rows[n].competition = rows[s[k]].competition}]
  BY DEF ByCompetition, S, R, s, N
<1>s. \A k \in 1 .. N : s[k] \in S /\ s[k] \in DOMAIN rows
  BY <1>1, <1>5
<1>7. DOMAIN groups = 1 .. N
      /\ \A k \in 1 .. N : groups[k] = {n \in DOMAIN rows : rows[n].competition = rows[s[k]].competition}
  BY <1>6
<1>8. ASSUME NEW n \in DOMAIN rows
      PROVE  \E k \in DOMAIN groups : n \in groups[k]
  <2>1. PICK m \in S : rows[m].competition = rows[n].competition
    BY FirstOf DEF S
  <2>2. PICK k \in 1 .. N : s[k] = m
    BY <1>5
  <2>3. QED
    BY <1>7, <2>1, <2>2
<1>9. ASSUME NEW k \in DOMAIN groups, NEW l \in DOMAIN groups, NEW n \in groups[k], NEW m \in groups[l]
      PROVE  /\ k = l <=> rows[n].competition = rows[m].competition
             /\ k < l => rows[n].start >= rows[m].start
  <2>1. /\ n \in DOMAIN rows /\ rows[n].competition = rows[s[k]].competition
        /\ m \in DOMAIN rows /\ rows[m].competition = rows[s[l]].competition
        /\ k \in 1 .. N /\ l \in 1 .. N
    BY <1>7
  <2>2. k # l => s[k] # s[l]
    <3>1. k \in Int /\ l \in Int /\ (k # l => k < l \/ l < k)
      BY <1>5, <2>1
    <3>2. k # l => <<s[k], s[l]>> \in R \/ <<s[l], s[k]>> \in R
      BY <1>5, <2>1, <3>1
    <3>3. <<s[k], s[k]>> \notin R
      BY <1>4, <1>s, <2>1
    <3>4. QED
      BY <3>2, <3>3
  <2>3. k = l <=> rows[n].competition = rows[m].competition
    BY <1>2, <1>s, <2>1, <2>2
  <2>4. ASSUME k < l
        PROVE  rows[n].start >= rows[m].start
    <3>1. <<s[k], s[l]>> \in R
      BY <1>5, <2>1, <2>4
    <3>2. rows[s[k]].start \in Int /\ rows[s[l]].start \in Int
      BY <1>s, <2>1
    <3>3. rows[s[k]].start >= rows[s[l]].start
      <4>1. s[k] \in DOMAIN rows /\ s[l] \in DOMAIN rows
        BY <1>s, <2>1
      <4>2. \/ rows[s[k]].start > rows[s[l]].start
            \/ rows[s[k]].start = rows[s[l]].start /\ s[k] < s[l]
        BY <1>3, <3>1, <4>1
      <4>3. QED
        BY <3>2, <4>2
    <3>4. rows[n].start = rows[s[k]].start /\ rows[m].start = rows[s[l]].start
      BY <1>s, <2>1
    <3>5. QED
      BY <3>3, <3>4
  <2>5. QED
    BY <2>3, <2>4
<1>10. QED
  BY <1>8, <1>9

\* What is marked is the best, the first of equal ones.
LEMMA MarkedBest ==
    ASSUME NEW rows, Len(rows) \in Nat, DOMAIN rows = 1 .. Len(rows),
           \A m \in DOMAIN rows : resolved_time(rows[m]) \in Nat \cup {Null},
           NEW n \in DOMAIN rows
    PROVE  n \in Range(best_results(rows)) <=>
               /\ resolved_time(rows[n]) # Null
               /\ \A m \in DOMAIN rows : rows[m].style = rows[n].style /\ resolved_time(rows[m]) # Null =>
                      NoWorse(rows, n, m)
<1> DEFINE best == best_results(rows)
           T == Timed(rows, Len(rows))
<1>1. BestsOf(rows, best, Len(rows))
  BY MarksAre
<1>2. T = {m \in DOMAIN rows : resolved_time(rows[m]) # Null}
  BY DEF Timed
<1>3. \A m \in T : m \in Nat /\ resolved_time(rows[m]) \in Nat
  BY <1>2
<1>4. /\ DOMAIN best = {rows[m].style : m \in T}
      /\ \A s \in DOMAIN best : /\ best[s] \in T /\ rows[best[s]].style = s
                                /\ \A m \in T : rows[m].style = s => NoWorse(rows, best[s], m)
  BY <1>1 DEF BestsOf
<1>5. Range(best) = {best[s] : s \in DOMAIN best}
  BY DEF Range
<1> HIDE DEF best, T
<1>6. ASSUME n \in Range(best)
      PROVE  n \in T /\ \A m \in T : rows[m].style = rows[n].style => NoWorse(rows, n, m)
  BY <1>4, <1>5, <1>6
<1>7. ASSUME n \in T, \A m \in T : rows[m].style = rows[n].style => NoWorse(rows, n, m)
      PROVE  n \in Range(best)
  <2> DEFINE s == rows[n].style
  <2>1. s \in DOMAIN best
    BY <1>4, <1>7
  <2>2. best[s] \in T /\ rows[best[s]].style = s /\ NoWorse(rows, best[s], n)
    BY <1>4, <1>7, <2>1
  <2>3. NoWorse(rows, n, best[s])
    BY <1>7, <2>2
  <2>4. n \in Nat /\ best[s] \in Nat /\ resolved_time(rows[n]) \in Nat /\ resolved_time(rows[best[s]]) \in Nat
    BY <1>3, <1>7, <2>2
  <2>5. best[s] = n
    BY <2>2, <2>3, <2>4 DEF NoWorse
  <2>6. QED
    BY <1>5, <2>1, <2>5
<1>8. QED
  BY <1>2, <1>6, <1>7 DEF best

\* Of an athlete's results the best of a style is marked, and every result stands under
\* its competition, the latest first (get_athlete_results).
THEOREM MarksTheorem == AllSpec => []BestMarked
<1>1. ASSUME TablesInv, Asked("athlete")
      PROVE  BestMarked
  <2> DEFINE rows == question.rows
  <2>1. question \in Questions /\ question.about = "athlete"
    BY <1>1 DEF TablesInv, Asked
  <2>2. answer = [groups |-> ByCompetition(rows), best |-> Range(best_results(rows))]
    BY <1>1, <2>1 DEF TablesInv, Asked
  <2>3. rows \in Seq(Range(rows)) /\ Joined(Range(rows))
    BY <2>1, QuestionsAssumption
  <2>4. Len(rows) \in Nat /\ DOMAIN rows = 1 .. Len(rows)
    BY <2>3
  <2>5. \A n \in DOMAIN rows : rows[n] \in Range(rows)
    BY DEF Range
  <2> HIDE DEF rows
  <2>6. /\ \A n \in DOMAIN rows : resolved_time(rows[n]) \in Nat \cup {Null} /\ rows[n].start \in Int
        /\ \A m, n \in DOMAIN rows :
               rows[m].competition = rows[n].competition => rows[m].start = rows[n].start
    <3>1. ASSUME NEW n \in DOMAIN rows
          PROVE  resolved_time(rows[n]) \in Nat \cup {Null} /\ rows[n].start \in Int
      <4>1. resolved_time(rows[n]) \in Nat \cup {Null}
        BY <2>3, <2>5, ResolvedTime
      <4>2. QED
        BY <2>3, <2>5, <4>1 DEF Joined
    <3>2. ASSUME NEW m \in DOMAIN rows, NEW n \in DOMAIN rows, rows[m].competition = rows[n].competition
          PROVE  rows[m].start = rows[n].start
      <4>1. \A r, s \in Range(rows) : r.competition = s.competition => r.start = s.start
        BY <2>3 DEF Joined
      <4>2. rows[m] \in Range(rows) /\ rows[n] \in Range(rows)
        BY <2>5
      <4>3. QED
        BY <3>2, <4>1, <4>2
    <3>3. QED
      BY <3>1, <3>2
  <2>7. \A n \in DOMAIN rows :
            n \in answer.best <=>
                /\ resolved_time(rows[n]) # Null
                /\ \A m \in DOMAIN rows : rows[m].style = rows[n].style /\ resolved_time(rows[m]) # Null =>
                       NoWorse(rows, n, m)
    BY <2>2, <2>4, <2>6, MarkedBest
  <2>8. /\ \A n \in DOMAIN rows : \E k \in DOMAIN answer.groups : n \in answer.groups[k]
        /\ \A k, l \in DOMAIN answer.groups : \A n \in answer.groups[k], m \in answer.groups[l] :
             /\ k = l <=> rows[n].competition = rows[m].competition
             /\ k < l => rows[n].start >= rows[m].start
    <3>1. answer.groups = ByCompetition(rows)
      BY <2>2
    <3>2. QED
      BY <2>4, <2>6, <3>1, Grouped
  <2>9. QED
    BY <2>7, <2>8 DEF BestMarked, NoWorse, rows
<1>2. QED
  BY <1>1, TablesInvariance, PTL DEF BestMarked

-----------------------------------------------------------------------------
(* What a token permits of what its lists say.                             *)

\* A source whose "*" says something, and one that denies no whole category.
Typed(m) == Source(m) /\ (Star \in DOMAIN m => m[Star] # {})

Good(m) == Typed(m) /\ MasksOnly(m) /\ \A c \in Categories : Deny(Star) \notin RightsOf(m, c)

\* What a source may ever permit.
Allows(m, c, r) ==
    \/ Grant(Star) \in RightsOf(m, Star)
    \/ {Grant(r), Grant(Star)} \cap RightsOf(m, c) # {}

LEMMA GroupTyped ==
    ASSUME NEW P \in SUBSET Scopes
    PROVE  Typed(group_scopes(P))
<1> DEFINE Read(s) == IF s.right = Absent THEN Right(s.negated, Star)
                      ELSE Right(s.negated \/ s.right.deny, s.right.name)
           m == group_scopes(P)
<1>1. m = [c \in {s.category : s \in P} |-> {Read(s) : s \in {t \in P : t.category = c}}]
  BY DEF group_scopes
<1>2. \A s \in P : s.category \in Categories \cup {Star} /\ Read(s) \in Rights
  <2> TAKE s \in P
  <2>1. /\ s.category \in Categories \cup {Star} /\ s.negated \in BOOLEAN
        /\ s.right \in Rights \cup {Absent}
    BY DEF Scopes
  <2>2. CASE s.right = Absent
    BY <2>1, <2>2 DEF Rights, Right
  <2>3. CASE s.right # Absent
    <3>1. s.right \in Rights
      BY <2>1, <2>3
    <3>2. s.right.deny \in BOOLEAN /\ s.right.name \in Names \cup {Star}
      BY <3>1 DEF Rights
    <3>3. QED
      BY <2>1, <2>3, <3>2 DEF Rights, Right
  <2>4. QED
    BY <2>2, <2>3
<1> HIDE DEF Read, m
<1>3. DOMAIN m \subseteq Categories \cup {Star} /\ \A c \in DOMAIN m : m[c] \subseteq Rights
  BY <1>1, <1>2
<1>4. Star \in DOMAIN m => m[Star] # {}
  BY <1>1
<1>5. QED
  BY <1>3, <1>4 DEF Typed, Source, m

LEMMA NothingGood ==
    Good(Nothing) /\ \A c, r : RightsOf(Nothing, c) = {} /\ ~Allows(Nothing, c, r)
BY DEF Good, Typed, Source, MasksOnly, RightsOf, Nothing, Allows

LEMMA ResolvedSome ==
    ASSUME NEW R \in SUBSET Rights, R # {}
    PROVE  resolve_conflicts(R) # {}
<1>1. PICK r \in R : TRUE
  OBVIOUS
<1>2. r = Grant(r.name) \/ r = Deny(r.name)
  BY OneOfTwo
<1>3. CASE Deny(r.name) \in R
  BY <1>3, Resolved
<1>4. CASE Deny(r.name) \notin R
  BY <1>1, <1>2, <1>4, Resolved
<1>5. QED
  BY <1>3, <1>4

LEMMA MergeTyped ==
    ASSUME NEW low, NEW high, Typed(low), Typed(high)
    PROVE  LET m == merge_scopes_with_priority(low, high) IN
           /\ Typed(m)
           /\ \A c, r : Allows(m, c, r) => Allows(low, c, r) \/ Allows(high, c, r)
<1> DEFINE m == merge_scopes_with_priority(low, high)
<1>1. CASE Star \in DOMAIN high
  BY <1>1 DEF merge_scopes_with_priority
<1>2. CASE Star \notin DOMAIN high
  <2>1. m = [c \in DOMAIN low \cup DOMAIN high |->
               IF Deny(Star) \in RightsOf(high, c) \/ Grant(Star) \in RightsOf(high, c)
               THEN RightsOf(high, c)
               ELSE resolve_conflicts(RightsOf(high, c)) \cup
                    {r \in resolve_conflicts(RightsOf(low, c)) :
                        \A h \in RightsOf(high, c) : h.name # r.name}]
    BY <1>2 DEF merge_scopes_with_priority
  <2>2. ASSUME NEW c PROVE RightsOf(m, c) \subseteq RightsOf(low, c) \cup RightsOf(high, c)
    BY <2>1 DEF RightsOf, resolve_conflicts
  <2>3. DOMAIN m \subseteq Categories \cup {Star}
    BY <2>1 DEF Source, Typed
  <2>4. ASSUME NEW c \in DOMAIN m PROVE m[c] \subseteq Rights
    <3>1. RightsOf(low, c) \subseteq Rights /\ RightsOf(high, c) \subseteq Rights
      BY DEF Source, RightsOf, Typed
    <3>2. m[c] = RightsOf(m, c)
      BY <2>4 DEF RightsOf
    <3>3. QED
      BY <2>2, <3>1, <3>2
  <2>5. ASSUME Star \in DOMAIN m PROVE m[Star] # {}
    <3>1. Star \in DOMAIN low /\ RightsOf(high, Star) = {} /\ RightsOf(low, Star) = low[Star]
      BY <1>2, <2>1, <2>5 DEF RightsOf
    <3>2. low[Star] # {} /\ low[Star] \subseteq Rights
      BY <3>1 DEF Typed, Source
    <3>3. resolve_conflicts(low[Star]) # {}
      BY <3>2, ResolvedSome
    <3>4. resolve_conflicts(low[Star]) \subseteq m[Star]
      BY <2>1, <2>5, <3>1
    <3>5. QED
      BY <3>3, <3>4
  <2>6. ASSUME NEW c, NEW r, Allows(m, c, r)
        PROVE  Allows(low, c, r) \/ Allows(high, c, r)
    <3>1. RightsOf(m, c) \subseteq RightsOf(low, c) \cup RightsOf(high, c)
      BY <2>2
    <3>2. RightsOf(m, Star) \subseteq RightsOf(low, Star) \cup RightsOf(high, Star)
      BY <2>2
    <3> HIDE DEF m
    <3>3. QED
      BY <2>6, <3>1, <3>2 DEF Allows
  <2>7. QED
    BY <2>3, <2>4, <2>5, <2>6 DEF Source, Typed
<1>3. QED
  BY <1>1, <1>2

LEMMA MergeGood ==
    ASSUME NEW low, NEW high, Good(low), Good(high)
    PROVE  LET m == merge_scopes_with_priority(low, high) IN
           /\ Good(m)
           /\ \A c \in Categories, r \in Names :
                 /\ Grants(m, c, r) <=> \/ Grants(high, c, r)
                                        \/ ~Denies(high, c, r) /\ Grants(low, c, r)
                 /\ Denies(m, c, r) <=> \/ Denies(high, c, r)
                                        \/ ~Grants(high, c, r) /\ Denies(low, c, r)
<1> DEFINE m == merge_scopes_with_priority(low, high)
<1>1. Source(low) /\ Source(high) /\ MasksOnly(low) /\ MasksOnly(high) /\ Typed(low) /\ Typed(high)
  BY DEF Good, Typed
<1>2. Typed(m)
  BY <1>1, MergeTyped
<1>3. MasksOnly(m) /\ \A c \in Categories : Deny(Star) \notin RightsOf(m, c)
  BY <1>1, MergeKeeps DEF Good
<1>4. ASSUME NEW c \in Categories, NEW r \in Names
      PROVE  /\ Grants(m, c, r) <=> \/ Grants(high, c, r)
                                    \/ ~Denies(high, c, r) /\ Grants(low, c, r)
             /\ Denies(m, c, r) <=> \/ Denies(high, c, r)
                                    \/ ~Grants(high, c, r) /\ Denies(low, c, r)
  <2>1. Deny(Star) \notin RightsOf(low, c) /\ Deny(Star) \notin RightsOf(high, c)
        /\ (Star \in DOMAIN high => high[Star] # {})
    BY DEF Good, Typed
  <2>2. QED
    BY <1>1, <2>1, MergeIsPriority
<1>5. QED
  BY <1>2, <1>3, <1>4 DEF Good

\* Whatever a token permits was allowed before it was simplified.
LEMMA LookupAllowed ==
    ASSUME NEW m, NEW c \in Categories, NEW r \in Names,
           has_scope(flatten_scopes(optimize_categories(m)), c, r)
    PROVE  Allows(m, c, r)
<1> DEFINE O == optimize_categories(m)
           t == flatten_scopes(O)
<1>1. \A d : RightsOf(O, d) \subseteq RightsOf(m, d)
  BY DEF optimize_categories, RightsOf, resolve_conflicts, simplify_by_masks
<1>2. t.all => Grant(Star) \in RightsOf(O, Star)
  BY DEF flatten_scopes
<1>3. c \in DOMAIN t.rights => t.rights[c] = RightsOf(O, c)
  BY DEF flatten_scopes, RightsOf
<1>4. t.all \/ (c \in DOMAIN t.rights /\ {Grant(r), Grant(Star)} \cap t.rights[c] # {})
  BY DEF has_scope
<1> HIDE DEF t, O
<1>5. QED
  BY <1>1, <1>2, <1>3, <1>4 DEF Allows

\* Recursion on a set whose members have levels: a member's value is its own, or made of
\* the value of one on a lower level.
Recursive(f, D, roots, own, next, step) ==
    \A n \in D : f[n] = IF n \in roots THEN own[n] ELSE step[<<f[next[n]], n>>]

LEMMA Recursion ==
    ASSUME NEW D, NEW V, V # {}, NEW level \in [D -> Nat], NEW roots, NEW own, NEW next,
           NEW step \in [V \X D -> V],
           \A n \in D \cap roots : own[n] \in V,
           \A n \in D \ roots : next[n] \in D /\ level[next[n]] < level[n],
           NEW top \in Nat, \A n \in D : level[n] < top
    PROVE  \E f \in [D -> V] : Recursive(f, D, roots, own, next, step)
<1> DEFINE Body(f, n) == IF n \in roots THEN own[n] ELSE step[<<f[next[n]], n>>]
           T == {k \in Nat : \E f \in [D -> V] : \A n \in D : level[n] < k => f[n] = Body(f, n)}
<1>1. 0 \in T
  <2>1. PICK v \in V : TRUE
    OBVIOUS
  <2>2. [n \in D |-> v] \in [D -> V] /\ \A n \in D : ~(level[n] < 0)
    OBVIOUS
  <2>3. QED
    BY <2>2
<1>2. ASSUME NEW k \in T
      PROVE  k + 1 \in T
  <2>k. k \in Nat
    OBVIOUS
  <2>1. PICK h \in [D -> V] : \A n \in D : level[n] < k => h[n] = Body(h, n)
    OBVIOUS
  <2>2. \A n \in D : Body(h, n) \in V
    OBVIOUS
  <2> DEFINE f == [n \in D |-> Body(h, n)]
  <2>3. f \in [D -> V]
    BY <2>2
  <2>4. ASSUME NEW n \in D, level[n] < k + 1
        PROVE  f[n] = Body(f, n)
    <3>1. CASE n \in roots
      BY <3>1
    <3>2. CASE n \notin roots
      <4>1. next[n] \in D /\ level[next[n]] < k
        BY <2>k, <2>4, <3>2
      <4>2. f[next[n]] = h[next[n]]
        BY <2>1, <4>1
      <4>3. QED
        BY <3>2, <4>2
    <3>3. QED
      BY <3>1, <3>2
  <2>5. k + 1 \in Nat
    BY <2>k
  <2> HIDE DEF f, Body
  <2>6. QED
    BY <2>3, <2>4, <2>5
<1>3. top \in T
  BY <1>1, <1>2, Reached
<1>4. PICK f \in [D -> V] : \A n \in D : level[n] < top => f[n] = Body(f, n)
  BY <1>3
<1>5. QED
  BY <1>4 DEF Recursive

-----------------------------------------------------------------------------
(* Roles in order.                                                         *)

\* How many roles come before.
Level(roles, n) == Cardinality({m \in DOMAIN roles : Before(roles, m, n)})

\* The roles of an input that combine_roles_scopes accepts.
Accepted(roles) ==
    /\ roles \in Seq(Role)
    /\ \A n \in DOMAIN roles : Len(roles[n].inherits) <= 1
    /\ \A m, n \in DOMAIN roles : roles[m].name = roles[n].name => m = n
    /\ RolesInOrder(roles)

Parent(roles, n) == CHOOSE m \in Named(roles, Head(roles[n].inherits)) : TRUE

Inheriting(roles) == {n \in DOMAIN roles : roles[n].inherits # <<>>}

LEMMA RoleThere ==
    ASSUME NEW roles \in Seq(Role)
    PROVE  /\ Len(roles) \in Nat /\ DOMAIN roles = 1 .. Len(roles) /\ IsFiniteSet(DOMAIN roles)
           /\ \A n \in DOMAIN roles :
                 /\ n \in Nat /\ roles[n].rank \in Int /\ roles[n].permissions \in SUBSET Scopes
                 /\ roles[n].inherits \in {<<>>} \cup Seq(STRING)
<1>1. Len(roles) \in Nat /\ DOMAIN roles = 1 .. Len(roles) /\ \A n \in DOMAIN roles : roles[n] \in Role
  OBVIOUS
<1>2. IsFiniteSet(1 .. Len(roles))
  BY <1>1, FS_Interval
<1>3. QED
  BY <1>1, <1>2 DEF Role

LEMMA Levels ==
    ASSUME NEW roles \in Seq(Role)
    PROVE  /\ \A n \in DOMAIN roles : Level(roles, n) \in 0 .. Len(roles)
           /\ \A m, n \in DOMAIN roles : Before(roles, m, n) => Level(roles, m) < Level(roles, n)
<1> DEFINE D == DOMAIN roles
           Lower(n) == {m \in D : Before(roles, m, n)}
<1>1. IsFiniteSet(D) /\ Cardinality(D) = Len(roles) /\ Len(roles) \in Nat
  <2>1. D = 1 .. Len(roles) /\ Len(roles) \in Nat
    BY RoleThere
  <2> HIDE DEF D
  <2>2. IsFiniteSet(1 .. Len(roles)) /\ Cardinality(1 .. Len(roles)) = Len(roles)
    BY <2>1, FS_Interval
  <2>3. QED
    BY <2>1, <2>2
<1>2. ASSUME NEW n \in D
      PROVE  IsFiniteSet(Lower(n)) /\ Cardinality(Lower(n)) \in Nat /\ Cardinality(Lower(n)) <= Len(roles)
  BY <1>1, FS_Subset, FS_CardinalityType
<1>3. ASSUME NEW m \in D, NEW n \in D, Before(roles, m, n)
      PROVE  Cardinality(Lower(m)) < Cardinality(Lower(n))
  <2>1. \A k \in D : k \in Nat /\ roles[k].rank \in Int
    BY RoleThere
  <2>2. Lower(m) \subseteq Lower(n)
    BY <1>3, <2>1 DEF Before
  <2>3. m \in Lower(n) /\ m \notin Lower(m)
    BY <1>3, <2>1 DEF Before
  <2> HIDE DEF Lower
  <2>4. Cardinality(Lower(m)) <= Cardinality(Lower(n)) /\ Cardinality(Lower(m)) # Cardinality(Lower(n))
    BY <1>2, <2>2, <2>3, FS_Subset
  <2>5. QED
    BY <1>2, <2>4
<1>4. \A n \in D : Level(roles, n) = Cardinality(Lower(n))
  BY DEF Level
<1> HIDE DEF Lower
<1>5. QED
  BY <1>1, <1>2, <1>3, <1>4

LEMMA ParentBefore ==
    ASSUME NEW roles, Accepted(roles), NEW n \in Inheriting(roles)
    PROVE  /\ Parent(roles, n) \in DOMAIN roles
           /\ Before(roles, Parent(roles, n), n)
<1> DEFINE name == Head(roles[n].inherits)
<1>1. roles \in Seq(Role) /\ n \in DOMAIN roles
  BY DEF Accepted, Inheriting
<1>2. roles[n].inherits \in Seq(STRING) /\ roles[n].inherits # <<>>
  BY <1>1, RoleThere DEF Inheriting
<1>3. name \in Range(roles[n].inherits)
  BY <1>2 DEF Range
<1>4. PICK m \in Named(roles, name) : Before(roles, m, n)
  BY <1>1, <1>3 DEF Accepted, RolesInOrder
<1>5. \A k \in Named(roles, name) : k = m
  BY <1>4 DEF Accepted, Named
<1>6. Parent(roles, n) = m /\ m \in DOMAIN roles
  BY <1>4, <1>5 DEF Parent, Named
<1>7. QED
  BY <1>4, <1>6

\* What holds of a role as soon as it holds of the one it inherits from holds of all.
LEMMA RoleInduction ==
    ASSUME NEW roles, Accepted(roles), NEW S,
           \A n \in DOMAIN roles : (n \in Inheriting(roles) => Parent(roles, n) \in S) => n \in S
    PROVE  DOMAIN roles \subseteq S
<1> DEFINE T == {k \in Nat : \A n \in DOMAIN roles : Level(roles, n) < k => n \in S}
<1>0. roles \in Seq(Role) /\ Len(roles) \in Nat
  BY RoleThere DEF Accepted
<1>1. \A n \in DOMAIN roles : Level(roles, n) \in 0 .. Len(roles)
  BY <1>0, Levels
<1>2. 0 \in T
  BY <1>0, <1>1
<1>3. ASSUME NEW k \in T
      PROVE  k + 1 \in T
  <2>1. ASSUME NEW n \in DOMAIN roles, Level(roles, n) < k + 1
        PROVE  n \in S
    <3>1. SUFFICES ASSUME n \in Inheriting(roles) PROVE Parent(roles, n) \in S
      OBVIOUS
    <3>2. Parent(roles, n) \in DOMAIN roles /\ Level(roles, Parent(roles, n)) < Level(roles, n)
      BY <1>0, <3>1, ParentBefore, Levels
    <3>3. Level(roles, Parent(roles, n)) < k
      BY <1>0, <1>1, <2>1, <3>2
    <3>4. QED
      BY <3>2, <3>3
  <2>2. QED
    BY <2>1
<1>4. Len(roles) + 1 \in T
  BY <1>0, <1>2, <1>3, Reached
<1>5. QED
  BY <1>0, <1>1, <1>4

-----------------------------------------------------------------------------
(* What a role has of its own and inherits.                                *)

\* The typed sources, as a set.
Maps == {m \in UNION {[D -> SUBSET Rights] : D \in SUBSET (Categories \cup {Star})} : Typed(m)}

LEMMA MapsAre ==
    /\ \A P \in SUBSET Scopes : group_scopes(P) \in Maps
    /\ \A low, high \in Maps : merge_scopes_with_priority(low, high) \in Maps
    /\ Nothing \in Maps /\ \A m \in Maps : Typed(m)
<1>1. ASSUME NEW D, NEW m, m = [c \in D |-> m[c]], Typed(m)
      PROVE  m \in Maps
  <2>1. DOMAIN m = D /\ D \in SUBSET (Categories \cup {Star}) /\ \A c \in D : m[c] \in SUBSET Rights
    BY <1>1 DEF Typed, Source
  <2>2. m \in [D -> SUBSET Rights]
    BY <1>1, <2>1
  <2>3. QED
    BY <1>1, <2>1, <2>2 DEF Maps
<1>2. ASSUME NEW P \in SUBSET Scopes
      PROVE  group_scopes(P) \in Maps
  <2>1. group_scopes(P) = [c \in {s.category : s \in P} |-> group_scopes(P)[c]]
    BY DEF group_scopes
  <2>2. QED
    BY <1>1, <2>1, GroupTyped
<1>3. ASSUME NEW low \in Maps, NEW high \in Maps
      PROVE  merge_scopes_with_priority(low, high) \in Maps
  <2> DEFINE m == merge_scopes_with_priority(low, high)
  <2>1. Typed(low) /\ Typed(high)
    BY DEF Maps
  <2>2. CASE Star \in DOMAIN high
    BY <2>2 DEF merge_scopes_with_priority
  <2>3. CASE Star \notin DOMAIN high
    <3>1. m = [c \in DOMAIN low \cup DOMAIN high |-> m[c]]
      BY <2>3 DEF merge_scopes_with_priority
    <3>2. Typed(m)
      BY <2>1, MergeTyped
    <3> HIDE DEF m
    <3>3. QED
      BY <1>1, <3>1, <3>2 DEF m
  <2>4. QED
    BY <2>2, <2>3
<1>4. Nothing \in Maps
  <2>1. Nothing = [c \in {} |-> Nothing[c]]
    BY DEF Nothing
  <2>2. QED
    BY <1>1, <2>1, NothingGood DEF Good
<1>5. QED
  BY <1>2, <1>3, <1>4 DEF Maps

Own(roles, n) == group_scopes(roles[n].permissions)

LEMMA CombinedThere ==
    ASSUME NEW roles, Accepted(roles)
    PROVE  LET C == combine_roles_scopes(roles) IN
           \A n \in DOMAIN roles :
               /\ C[n] \in Maps
               /\ C[n] = IF n \in Inheriting(roles)
                         THEN merge_scopes_with_priority(C[Parent(roles, n)], Own(roles, n))
                         ELSE Own(roles, n)
<1> DEFINE D == DOMAIN roles
           step == [x \in Maps \X D |-> merge_scopes_with_priority(x[1], Own(roles, x[2]))]
           own == [n \in D |-> Own(roles, n)]
           next == [n \in D |-> Parent(roles, n)]
           roots == D \ Inheriting(roles)
           level == [n \in D |-> Level(roles, n)]
           top == Len(roles) + 1
           Body(f, n) == IF roles[n].inherits = <<>> THEN Own(roles, n)
                         ELSE merge_scopes_with_priority(f[Parent(roles, n)], Own(roles, n))
<1>1. roles \in Seq(Role)
  BY DEF Accepted
<1>2. \A n \in D : Own(roles, n) \in Maps
  BY <1>1, RoleThere, MapsAre DEF Own
<1>3. step \in [Maps \X D -> Maps]
  BY <1>2, MapsAre
<1>4. Maps # {} /\ top \in Nat
  BY <1>1, MapsAre, RoleThere
<1>5. level \in [D -> Nat] /\ \A n \in D : level[n] < top
  BY <1>1, Levels, RoleThere
<1>6. \A n \in D \cap roots : own[n] \in Maps
  BY <1>2
<1>7. \A n \in D \ roots : next[n] \in D /\ level[next[n]] < level[n]
  BY <1>1, ParentBefore, Levels
<1>8. PICK f \in [D -> Maps] : Recursive(f, D, roots, own, next, step)
  <2> HIDE DEF D, step, own, next, roots, level, top
  <2>1. QED
    BY <1>3, <1>4, <1>5, <1>6, <1>7, Recursion
<1>9. ASSUME NEW n \in D
      PROVE  f[n] = Body(f, n)
  <2>1. f[n] = IF n \in roots THEN own[n] ELSE step[<<f[next[n]], n>>]
    BY <1>8 DEF Recursive
  <2>2. n \in roots <=> roles[n].inherits = <<>>
    BY DEF Inheriting
  <2>3. CASE n \notin roots
    <3>1. next[n] \in D /\ next[n] = Parent(roles, n)
      BY <1>7, <2>3
    <3>2. <<f[next[n]], n>> \in Maps \X D
      BY <3>1
    <3>3. step[<<f[next[n]], n>>] = merge_scopes_with_priority(f[next[n]], Own(roles, n))
      BY <3>2
    <3>4. QED
      BY <2>1, <2>2, <2>3, <3>1, <3>3
  <2>4. CASE n \in roots
    BY <2>1, <2>2, <2>4
  <2>5. QED
    BY <2>3, <2>4
<1>10. f = [n \in D |-> Body(f, n)]
  BY <1>9
<1>11. \E h : h = [n \in D |-> Body(h, n)]
  BY <1>10
<1>12. combine_roles_scopes(roles) = CHOOSE h : h = [n \in D |-> Body(h, n)]
  BY DEF combine_roles_scopes, Own, Parent
<1>13. combine_roles_scopes(roles) = [n \in D |-> Body(combine_roles_scopes(roles), n)]
  <2> HIDE DEF Body, D
  <2>1. QED
    BY <1>11, <1>12
<1> DEFINE C == combine_roles_scopes(roles)
           S == {n \in D : C[n] \in Maps}
<1>14. \A n \in D : C[n] = IF n \in Inheriting(roles)
                           THEN merge_scopes_with_priority(C[Parent(roles, n)], Own(roles, n))
                           ELSE Own(roles, n)
  BY <1>13 DEF Inheriting
<1>15. \A n \in D : (n \in Inheriting(roles) => Parent(roles, n) \in S) => n \in S
  <2> HIDE DEF C
  <2>1. QED
    BY <1>2, <1>14, MapsAre
<1>16. D \subseteq S
  BY <1>15, RoleInduction
<1>17. QED
  BY <1>14, <1>16

LEMMA LineageThere ==
    ASSUME NEW roles, Accepted(roles)
    PROVE  LET line == Lineage(roles) IN
           \A n \in DOMAIN roles :
               /\ line[n] \in Seq(DOMAIN roles)
               /\ line[n] = IF n \in Inheriting(roles) THEN Append(line[Parent(roles, n)], n) ELSE <<n>>
<1> DEFINE D == DOMAIN roles
           step == [x \in Seq(D) \X D |-> Append(x[1], x[2])]
           own == [n \in D |-> <<n>>]
           next == [n \in D |-> Parent(roles, n)]
           roots == D \ Inheriting(roles)
           level == [n \in D |-> Level(roles, n)]
           top == Len(roles) + 1
           Body(f, n) == IF roles[n].inherits = <<>> THEN <<n>> ELSE Append(f[Parent(roles, n)], n)
<1>1. roles \in Seq(Role)
  BY DEF Accepted
<1>3. step \in [Seq(D) \X D -> Seq(D)]
  <2> HIDE DEF D
  <2>1. QED
    OBVIOUS
<1>4. <<>> \in Seq(D) /\ Seq(D) # {} /\ top \in Nat
  <2>1. top \in Nat
    BY <1>1, RoleThere
  <2>2. <<>> \in Seq(D)
    OBVIOUS
  <2> HIDE DEF D, top
  <2>3. QED
    BY <2>1, <2>2
<1>5. level \in [D -> Nat] /\ \A n \in D : level[n] < top
  BY <1>1, Levels, RoleThere
<1>6. \A n \in D \cap roots : own[n] \in Seq(D)
  <2> HIDE DEF D
  <2>1. QED
    OBVIOUS
<1>7. \A n \in D \ roots : next[n] \in D /\ level[next[n]] < level[n]
  BY <1>1, ParentBefore, Levels
<1>8. PICK f \in [D -> Seq(D)] : Recursive(f, D, roots, own, next, step)
  <2> DEFINE V == Seq(D)
  <2>1. V # {} /\ step \in [V \X D -> V] /\ \A n \in D \cap roots : own[n] \in V
    BY <1>3, <1>4, <1>6
  <2>2. SUFFICES \E f \in [D -> V] : Recursive(f, D, roots, own, next, step)
    OBVIOUS
  <2>3. top \in Nat
    BY <1>4
  <2> HIDE DEF D, step, own, next, roots, level, top, V
  <2>4. QED
    BY <2>1, <2>3, <1>5, <1>7, Recursion
<1>9. ASSUME NEW n \in D
      PROVE  f[n] = Body(f, n)
  <2>1. f[n] = IF n \in roots THEN own[n] ELSE step[<<f[next[n]], n>>]
    BY <1>8 DEF Recursive
  <2>2. n \in roots <=> roles[n].inherits = <<>>
    BY DEF Inheriting
  <2>3. CASE n \notin roots
    <3>1. next[n] \in D /\ next[n] = Parent(roles, n)
      BY <1>7, <2>3
    <3>2. <<f[next[n]], n>> \in Seq(D) \X D
      BY <3>1
    <3>3. step[<<f[next[n]], n>>] = Append(f[next[n]], n)
      BY <3>2
    <3>4. QED
      BY <2>1, <2>2, <2>3, <3>1, <3>3
  <2>4. CASE n \in roots
    BY <2>1, <2>2, <2>4
  <2>5. QED
    BY <2>3, <2>4
<1>10. f = [n \in D |-> Body(f, n)]
  BY <1>9
<1>11. \E h : h = [n \in D |-> Body(h, n)]
  BY <1>10
<1>12. Lineage(roles) = CHOOSE h : h = [n \in D |-> Body(h, n)]
  BY DEF Lineage, Parent
<1>13. Lineage(roles) = [n \in D |-> Body(Lineage(roles), n)]
  <2> HIDE DEF Body, D
  <2>1. QED
    BY <1>11, <1>12
<1> DEFINE line == Lineage(roles)
           S == {n \in D : line[n] \in Seq(D)}
<1>14. \A n \in D : line[n] = IF n \in Inheriting(roles) THEN Append(line[Parent(roles, n)], n) ELSE <<n>>
  BY <1>13 DEF Inheriting
<1>15. \A n \in D : (n \in Inheriting(roles) => Parent(roles, n) \in S) => n \in S
  <2>1. \A n \in D : <<n>> \in Seq(D) /\ \A s \in Seq(D) : Append(s, n) \in Seq(D)
    <3> HIDE DEF D
    <3>1. QED
      OBVIOUS
  <2> HIDE DEF line
  <2>2. QED
    BY <1>14, <2>1
<1>16. D \subseteq S
  BY <1>15, RoleInduction
<1>17. QED
  BY <1>14, <1>16

-----------------------------------------------------------------------------
(* What is merged is what the voices say.                                  *)

Denied(S, c, r) ==
    \E x \in S : /\ Denies(x.says, c, r)
                 /\ \A y \in S : Above(y, x) => ~Grants(y.says, c, r)

\* A source that permits no more than the voices do.
NoMore(m, S) ==
    /\ m \in Maps
    /\ \A c, r : Allows(m, c, r) => \E x \in S : Allows(x.says, c, r)

\* A source that grants and denies what the highest voice that says anything does.
Tells(m, S) ==
    /\ Good(m)
    /\ \A c \in Categories, r \in Names :
          /\ Grants(m, c, r) <=> Granted(S, c, r)
          /\ Denies(m, c, r) <=> Denied(S, c, r)
          /\ (\E x \in S : Grants(x.says, c, r) \/ Denies(x.says, c, r)) => Grants(m, c, r) \/ Denies(m, c, r)

Over(H, L) == \A h \in H, l \in L : Above(h, l) /\ ~Above(l, h)

LEMMA Added ==
    ASSUME NEW L, NEW H, Over(H, L), NEW c, NEW r
    PROVE  /\ Granted(L \cup H, c, r) <=> \/ Granted(H, c, r)
                                          \/ Granted(L, c, r) /\ \A h \in H : ~Denies(h.says, c, r)
           /\ Denied(L \cup H, c, r) <=> \/ Denied(H, c, r)
                                         \/ Denied(L, c, r) /\ \A h \in H : ~Grants(h.says, c, r)
<1>1. Granted(L \cup H, c, r) => \/ Granted(H, c, r)
                                 \/ Granted(L, c, r) /\ \A h \in H : ~Denies(h.says, c, r)
  BY Zenon DEF Granted, Over
<1>2. Granted(H, c, r) => Granted(L \cup H, c, r)
  BY Zenon DEF Granted, Over
<1>3. Granted(L, c, r) /\ (\A h \in H : ~Denies(h.says, c, r)) => Granted(L \cup H, c, r)
  BY Zenon DEF Granted
<1>4. Denied(L \cup H, c, r) => \/ Denied(H, c, r)
                                \/ Denied(L, c, r) /\ \A h \in H : ~Grants(h.says, c, r)
  BY Zenon DEF Denied, Over
<1>5. Denied(H, c, r) => Denied(L \cup H, c, r)
  BY Zenon DEF Denied, Over
<1>6. Denied(L, c, r) /\ (\A h \in H : ~Grants(h.says, c, r)) => Denied(L \cup H, c, r)
  BY Zenon DEF Denied
<1>7. QED
  BY <1>1, <1>2, <1>3, <1>4, <1>5, <1>6, Zenon

LEMMA OnTop ==
    ASSUME NEW low, NEW high, NEW L, NEW H
    PROVE  LET m == merge_scopes_with_priority(low, high) IN
           /\ NoMore(low, L) /\ NoMore(high, H) => NoMore(m, L \cup H)
           /\ Tells(low, L) /\ Tells(high, H) /\ Over(H, L) => Tells(m, L \cup H)
<1> DEFINE m == merge_scopes_with_priority(low, high)
<1>1. ASSUME NoMore(low, L), NoMore(high, H)
      PROVE  NoMore(m, L \cup H)
  <2>1. low \in Maps /\ high \in Maps /\ Typed(low) /\ Typed(high)
    BY <1>1, MapsAre DEF NoMore
  <2>2. m \in Maps
    BY <2>1, MapsAre
  <2>3. \A c, r : Allows(m, c, r) => Allows(low, c, r) \/ Allows(high, c, r)
    BY <2>1, MergeTyped
  <2> HIDE DEF m
  <2>4. QED
    BY <1>1, <2>2, <2>3, Zenon DEF NoMore
<1>2. ASSUME Tells(low, L), Tells(high, H), Over(H, L)
      PROVE  Tells(m, L \cup H)
  <2>1. Good(low) /\ Good(high)
    BY <1>2 DEF Tells
  <2>2. Good(m) /\ \A c \in Categories, r \in Names :
                      /\ Grants(m, c, r) <=> \/ Grants(high, c, r)
                                             \/ ~Denies(high, c, r) /\ Grants(low, c, r)
                      /\ Denies(m, c, r) <=> \/ Denies(high, c, r)
                                             \/ ~Grants(high, c, r) /\ Denies(low, c, r)
    BY <2>1, MergeGood
  <2> HIDE DEF m
  <2>3. ASSUME NEW c \in Categories, NEW r \in Names
        PROVE  /\ Grants(m, c, r) <=> Granted(L \cup H, c, r)
               /\ Denies(m, c, r) <=> Denied(L \cup H, c, r)
               /\ (\E x \in L \cup H : Grants(x.says, c, r) \/ Denies(x.says, c, r))
                  => Grants(m, c, r) \/ Denies(m, c, r)
    <3>1. /\ Grants(low, c, r) <=> Granted(L, c, r)
          /\ Denies(low, c, r) <=> Denied(L, c, r)
          /\ (\E x \in L : Grants(x.says, c, r) \/ Denies(x.says, c, r)) => Grants(low, c, r) \/ Denies(low, c, r)
      BY <1>2, Zenon DEF Tells
    <3>2. /\ Grants(high, c, r) <=> Granted(H, c, r)
          /\ Denies(high, c, r) <=> Denied(H, c, r)
          /\ (\E x \in H : Grants(x.says, c, r) \/ Denies(x.says, c, r)) => Grants(high, c, r) \/ Denies(high, c, r)
      BY <1>2, Zenon DEF Tells
    <3>3. /\ (\A h \in H : ~Denies(h.says, c, r)) => ~Denied(H, c, r)
          /\ (\A h \in H : ~Grants(h.says, c, r)) => ~Granted(H, c, r)
      BY Zenon DEF Denied, Granted
    <3>4. /\ Grants(m, c, r) <=> Grants(high, c, r) \/ (~Denies(high, c, r) /\ Grants(low, c, r))
          /\ Denies(m, c, r) <=> Denies(high, c, r) \/ (~Grants(high, c, r) /\ Denies(low, c, r))
      BY <2>2, Zenon
    <3>5. /\ Granted(L \cup H, c, r) <=> \/ Granted(H, c, r)
                                         \/ Granted(L, c, r) /\ \A h \in H : ~Denies(h.says, c, r)
          /\ Denied(L \cup H, c, r) <=> \/ Denied(H, c, r)
                                        \/ Denied(L, c, r) /\ \A h \in H : ~Grants(h.says, c, r)
      BY <1>2, Added
    <3>6. Grants(m, c, r) <=> Granted(L \cup H, c, r)
      BY <3>1, <3>2, <3>3, <3>4, <3>5, Zenon
    <3>7. Denies(m, c, r) <=> Denied(L \cup H, c, r)
      BY <3>1, <3>2, <3>3, <3>4, <3>5, Zenon
    <3>8. (\E x \in L \cup H : Grants(x.says, c, r) \/ Denies(x.says, c, r))
          => Grants(m, c, r) \/ Denies(m, c, r)
      BY <3>1, <3>2, <3>4, Zenon
    <3>9. QED
      BY <3>6, <3>7, <3>8
  <2>4. QED
    BY <2>2, <2>3, Zenon DEF Tells
<1>3. QED
  BY <1>1, <1>2

LEMMA Alone ==
    ASSUME NEW level \in Int, NEW rank \in Int, NEW place \in Int, NEW m
    PROVE  /\ m \in Maps => NoMore(m, {Voice(level, rank, place, m)})
           /\ Good(m) => Tells(m, {Voice(level, rank, place, m)})
           /\ NoMore(Nothing, {}) /\ Tells(Nothing, {})
<1> DEFINE v == Voice(level, rank, place, m)
<1>1. v.says = m /\ ~Above(v, v)
  BY DEF Voice, Above
<1>2. NoMore(Nothing, {})
  BY MapsAre, NothingGood DEF NoMore
<1>3. \A c, r : ~Grants(Nothing, c, r) /\ ~Denies(Nothing, c, r)
  BY DEF Grants, Denies, RightsOf, Nothing
<1>4. Tells(Nothing, {})
  BY <1>3, NothingGood, Zenon DEF Tells, Granted, Denied
<1> HIDE DEF v
<1>5. m \in Maps => NoMore(m, {v})
  BY <1>1, Zenon DEF NoMore
<1>6. \A c, r : Granted({v}, c, r) <=> Grants(m, c, r)
  BY <1>1, Zenon DEF Granted
<1>7. \A c, r : Denied({v}, c, r) <=> Denies(m, c, r)
  BY <1>1, Zenon DEF Denied
<1>8. Good(m) => Tells(m, {v})
  BY <1>1, <1>6, <1>7, Zenon DEF Tells
<1>9. QED
  BY <1>2, <1>4, <1>5, <1>8 DEF v

\* What is said by a role and those it inherits from, with a rank.
Spoken(roles, n, rank) ==
    {Voice(2, rank, l, Own(roles, Lineage(roles)[n][l])) : l \in DOMAIN Lineage(roles)[n]}

LEMMA RoleTells ==
    ASSUME NEW roles, Accepted(roles)
    PROVE  \A n \in DOMAIN roles : \A rank \in Int :
               LET m == combine_roles_scopes(roles)[n] IN
               /\ NoMore(m, Spoken(roles, n, rank))
               /\ (\A x \in Spoken(roles, n, rank) : Good(x.says)) => Tells(m, Spoken(roles, n, rank))
<1> DEFINE D == DOMAIN roles
           C == combine_roles_scopes(roles)
           line == Lineage(roles)
           Told(n, rank) ==
               /\ NoMore(C[n], Spoken(roles, n, rank))
               /\ (\A x \in Spoken(roles, n, rank) : Good(x.says)) => Tells(C[n], Spoken(roles, n, rank))
           S == {n \in D : \A rank \in Int : Told(n, rank)}
<1>1. ASSUME NEW n \in D
      PROVE  /\ C[n] \in Maps /\ Own(roles, n) \in Maps
             /\ n \in Inheriting(roles) => C[n] = merge_scopes_with_priority(C[Parent(roles, n)], Own(roles, n))
             /\ n \notin Inheriting(roles) => C[n] = Own(roles, n)
  <2>1. roles \in Seq(Role) /\ roles[n].permissions \in SUBSET Scopes
    BY RoleThere DEF Accepted
  <2>2. Own(roles, n) \in Maps
    BY <2>1, MapsAre DEF Own
  <2>3. QED
    BY <2>2, CombinedThere
<1>2. ASSUME NEW n \in D
      PROVE  /\ line[n] \in Seq(D)
             /\ n \in Inheriting(roles) => line[n] = Append(line[Parent(roles, n)], n)
             /\ n \notin Inheriting(roles) => line[n] = <<n>>
  BY LineageThere
<1>3. ASSUME NEW n \in D, n \in Inheriting(roles) => Parent(roles, n) \in S, NEW rank \in Int
      PROVE  Told(n, rank)
  <2>1. CASE n \notin Inheriting(roles)
    <3>1. DOMAIN line[n] = {1} /\ line[n][1] = n
      BY <1>2, <2>1
    <3>2. Spoken(roles, n, rank) = {Voice(2, rank, 1, Own(roles, n))}
      <4> HIDE DEF D
      <4>1. Spoken(roles, n, rank) = {Voice(2, rank, l, Own(roles, line[n][l])) : l \in {1}}
        BY <3>1 DEF Spoken
      <4> HIDE DEF line
      <4>2. QED
        BY <3>1, <4>1
    <3>3. C[n] = Own(roles, n) /\ C[n] \in Maps
      BY <1>1, <2>1
    <3>4. /\ NoMore(C[n], {Voice(2, rank, 1, C[n])})
          /\ Good(C[n]) => Tells(C[n], {Voice(2, rank, 1, C[n])})
      <4> HIDE DEF C
      <4>1. QED
        BY <3>3, Alone
    <3>5. Voice(2, rank, 1, C[n]).says = C[n]
      BY DEF Voice
    <3> HIDE DEF C
    <3>6. QED
      BY <3>2, <3>3, <3>4, <3>5, Zenon
  <2>2. CASE n \in Inheriting(roles)
    <3> DEFINE p == Parent(roles, n)
               j == Len(line[p]) + 1
               L == Spoken(roles, p, rank)
               H == {Voice(2, rank, j, Own(roles, n))}
    <3>1. p \in D /\ Told(p, rank)
      BY <1>3, <2>2
    <3>2. line[p] \in Seq(D) /\ line[n] = Append(line[p], n)
      BY <1>2, <2>2, <3>1
    <3>3. /\ j \in Nat /\ DOMAIN line[p] = 1 .. j - 1 /\ DOMAIN line[n] = 1 .. j
          /\ line[n][j] = n /\ \A l \in 1 .. j - 1 : line[n][l] = line[p][l]
      <4> HIDE DEF D
      <4>1. QED
        BY <3>2
    <3>4. L = {Voice(2, rank, l, Own(roles, line[n][l])) : l \in 1 .. j - 1}
      BY <3>3 DEF Spoken
    <3>5. Spoken(roles, n, rank) = {Voice(2, rank, l, Own(roles, line[n][l])) : l \in 1 .. j}
      BY <3>3 DEF Spoken
    <3>6. 1 .. j = (1 .. j - 1) \cup {j}
      <4> HIDE DEF j
      <4>1. j \in Nat \ {0}
        <5> HIDE DEF D
        <5>1. QED
          BY <3>2 DEF j
      <4>2. QED
        BY <4>1
    <3>7. Spoken(roles, n, rank) = L \cup H
      <4> HIDE DEF j, line, p, L
      <4>1. QED
        BY <3>3, <3>4, <3>5, <3>6
    <3>8. Over(H, L)
      <4>1. ASSUME NEW l \in L, NEW h \in H
            PROVE  Above(h, l) /\ ~Above(l, h)
        <5>1. PICK k \in 1 .. j - 1 : l = Voice(2, rank, k, Own(roles, line[n][k]))
          BY <3>4
        <5>2. h.level = 2 /\ h.rank = rank /\ h.place = j
          BY DEF Voice
        <5>3. l.level = 2 /\ l.rank = rank /\ l.place = k
          BY <5>1 DEF Voice
        <5> HIDE DEF L, H, j
        <5>4. QED
          BY <3>3, <5>1, <5>2, <5>3 DEF Above
      <4>2. QED
        BY <4>1 DEF Over
    <3>9. C[n] = merge_scopes_with_priority(C[p], Own(roles, n)) /\ Own(roles, n) \in Maps
      BY <1>1, <2>2
    <3>10. NoMore(Own(roles, n), H) /\ (Good(Own(roles, n)) => Tells(Own(roles, n), H))
      <4> HIDE DEF j
      <4>1. QED
        BY <3>3, <3>9, Alone
    <3>11. Voice(2, rank, j, Own(roles, n)).says = Own(roles, n)
      BY DEF Voice
    <3>12. NoMore(C[n], L \cup H)
      BY <3>1, <3>9, <3>10, OnTop
    <3>13. ASSUME \A x \in Spoken(roles, n, rank) : Good(x.says)
           PROVE  Tells(C[n], Spoken(roles, n, rank))
      <4>1. Good(Own(roles, n)) /\ \A x \in L : Good(x.says)
        <5> HIDE DEF L, j
        <5>1. QED
          BY <3>7, <3>11, <3>13, Zenon
      <4>2. Tells(C[p], L) /\ Tells(Own(roles, n), H)
        BY <3>1, <3>10, <4>1
      <4>3. Tells(C[n], L \cup H)
        <5> HIDE DEF L, H, p, C
        <5>1. Tells(merge_scopes_with_priority(C[p], Own(roles, n)), L \cup H)
          BY <3>8, <4>2, OnTop
        <5>2. QED
          BY <3>9, <5>1
      <4>4. QED
        BY <3>7, <4>3
    <3>14. QED
      BY <3>7, <3>12, <3>13
  <2>3. QED
    BY <2>1, <2>2
<1>4. D \subseteq S
  <2> HIDE DEF Told
  <2>1. \A n \in D : (n \in Inheriting(roles) => Parent(roles, n) \in S) => n \in S
    BY <1>3
  <2>2. QED
    BY <2>1, RoleInduction
<1>5. QED
  BY <1>4

-----------------------------------------------------------------------------
(* The chain of merges.                                                    *)

Ascending(i) == Sorted(Ranks(i), {p \in Ranks(i) \X Ranks(i) : p[1] < p[2]})

Chain(i) ==
    LET combined == combine_roles_scopes(i.roles)
        ranks    == Sorted(Ranks(i), {p \in Ranks(i) \X Ranks(i) : p[1] < p[2]})
        merged[k \in 0 .. Cardinality(Ranks(i))] ==
            IF k = 0 THEN merge_scopes_with_priority(Nothing, Defaults(i))
            ELSE merge_scopes_with_priority(merged[k - 1], combined[OfRank(i, ranks[k])])
    IN merged

\* An input whose roles and default roles are accepted.
Issuable(i) ==
    /\ i \in Inputs /\ Accepted(i.roles)
    /\ \A name \in Range(i.defaults.roles) : Named(i.roles, name) # {}

LEMMA InputThere ==
    ASSUME NEW i \in Inputs
    PROVE  /\ i.defaults.permissions \in SUBSET Scopes /\ i.user.permissions \in SUBSET Scopes
           /\ i.user.roles \in Seq(STRING)
           /\ i.roles \in Seq(Role)
           /\ RolesInOrder(i.roles) => Accepted(i.roles)
<1>1. i.defaults \in List /\ i.user \in List /\ i.roles \in Seq(Role)
  BY InputsAssumption
<1>2. RolesInOrder(i.roles) => Accepted(i.roles)
  BY InputsAssumption DEF Accepted
<1>3. QED
  BY <1>1, <1>2 DEF List

LEMMA HeldThere ==
    ASSUME NEW i, Issuable(i)
    PROVE  /\ Held(i) \subseteq DOMAIN i.roles /\ IsFiniteSet(Held(i))
           /\ \A n \in Held(i) : i.roles[n].rank \in Int /\ i.roles[n].rank \in Ranks(i)
           /\ IsFiniteSet(Ranks(i)) /\ Ranks(i) \subseteq Int
<1>1. i.roles \in Seq(Role)
  BY DEF Issuable, Accepted
<1>2. Held(i) \subseteq DOMAIN i.roles
  BY DEF Held
<1>3. IsFiniteSet(Held(i)) /\ \A n \in Held(i) : i.roles[n].rank \in Int
  BY <1>1, <1>2, RoleThere, FS_Subset
<1>4. Ranks(i) \subseteq Int /\ \A n \in Held(i) : i.roles[n].rank \in Ranks(i)
  BY <1>3 DEF Ranks
<1> DEFINE f == [n \in Held(i) |-> i.roles[n].rank]
<1>5. f \in Surjection(Held(i), Ranks(i))
  BY DEF Surjection, Ranks
<1>6. IsFiniteSet(Ranks(i))
  <2> HIDE DEF f
  <2>1. QED
    BY <1>3, <1>5, FS_Surjection
<1>7. QED
  BY <1>2, <1>3, <1>4, <1>6

LEMMA RanksAscend ==
    ASSUME NEW i, Issuable(i)
    PROVE  LET K == Cardinality(Ranks(i)) IN
           /\ K \in Nat
           /\ \A k \in 1 .. K : Ascending(i)[k] \in Ranks(i) /\ Ascending(i)[k] \in Int
           /\ \A j, k \in 1 .. K : j < k => Ascending(i)[j] < Ascending(i)[k]
           /\ \A rank \in Ranks(i) : \E k \in 1 .. K : Ascending(i)[k] = rank
<1> DEFINE S == Ranks(i)
           before == {p \in S \X S : p[1] < p[2]}
           K == Cardinality(S)
<1>1. IsFiniteSet(S) /\ S \subseteq Int
  BY HeldThere
<1>2. \A m, n \in S : <<m, n>> \in before <=> m < n
  OBVIOUS
<1>3. /\ \A m \in S : <<m, m>> \notin before
      /\ \A m, n \in S : m = n \/ <<m, n>> \in before \/ <<n, m>> \in before
      /\ \A l, m, n \in S : <<l, m>> \in before /\ <<m, n>> \in before => <<l, n>> \in before
  <2> HIDE DEF before, S
  <2>1. QED
    BY <1>1, <1>2
<1>4. Ascending(i) = Sorted(S, before)
  BY DEF Ascending
<1> HIDE DEF before, S
<1>5. /\ Sorted(S, before) \in [1 .. K -> S]
      /\ \A j, k \in 1 .. K : j < k => <<Sorted(S, before)[j], Sorted(S, before)[k]>> \in before
      /\ \A n \in S : \E k \in 1 .. K : Sorted(S, before)[k] = n
      /\ K \in Nat
  BY <1>1, <1>3, SortedOrder
<1>6. \A k \in 1 .. K : Ascending(i)[k] \in S /\ Ascending(i)[k] \in Int
  BY <1>1, <1>4, <1>5
<1>7. \A j, k \in 1 .. K : j < k => Ascending(i)[j] < Ascending(i)[k]
  BY <1>2, <1>4, <1>5, <1>6
<1>8. QED
  BY <1>4, <1>5, <1>6, <1>7 DEF S

LEMMA RankHeld ==
    ASSUME NEW i, Issuable(i), NEW rank \in Ranks(i)
    PROVE  OfRank(i, rank) \in Held(i) /\ i.roles[OfRank(i, rank)].rank = rank
<1> DEFINE names == i.user.roles
           held == {k \in DOMAIN names : \E n \in Named(i.roles, names[k]) : i.roles[n].rank = rank}
           last == CHOOSE k \in held : \A l \in held : l <= k
           back == {Len(names) - k : k \in held}
<1>1. names \in Seq(STRING) /\ Len(names) \in Nat /\ DOMAIN names = 1 .. Len(names)
  BY InputThere DEF Issuable
<1>2. held # {}
  <2>1. PICK n \in Held(i) : i.roles[n].rank = rank
    BY DEF Ranks
  <2>2. n \in DOMAIN i.roles /\ i.roles[n].name \in Range(names)
    BY <2>1 DEF Held
  <2>3. PICK k \in DOMAIN names : names[k] = i.roles[n].name
    BY <2>2 DEF Range
  <2>4. n \in Named(i.roles, names[k])
    BY <2>2, <2>3 DEF Named
  <2>5. QED
    BY <2>1, <2>3, <2>4
<1>3. back \in SUBSET Nat /\ back # {}
  <2>1. \A k \in held : k \in 1 .. Len(names)
    BY <1>1
  <2> HIDE DEF held
  <2>2. \A k \in held : Len(names) - k \in Nat
    BY <1>1, <2>1
  <2>3. QED
    BY <1>2, <2>2
<1>4. Least(back) \in back /\ \A b \in back : Least(back) <= b
  <2> HIDE DEF back
  <2>1. QED
    BY <1>3, LeastOf
<1>5. PICK top \in held : Least(back) = Len(names) - top
  BY <1>4
<1>6. \A l \in held : l \in 1 .. Len(names) /\ Len(names) - l \in back
  BY <1>1
<1>7. \A l \in held : l <= top
  <2> HIDE DEF held, back
  <2>1. QED
    BY <1>1, <1>4, <1>5, <1>6
<1>8. last \in held
  <2> HIDE DEF held
  <2>1. QED
    BY <1>5, <1>7
<1>9. PICK n \in Named(i.roles, names[last]) : i.roles[n].rank = rank
  BY <1>8
<1>10. \A m \in Named(i.roles, names[last]) : m = n
  BY <1>9 DEF Named, Issuable, Accepted
<1>11. OfRank(i, rank) = CHOOSE m \in Named(i.roles, names[last]) : TRUE
  BY DEF OfRank
<1>12. OfRank(i, rank) = n
  <2> HIDE DEF last
  <2>1. QED
    BY <1>9, <1>10, <1>11
<1>13. n \in DOMAIN i.roles /\ i.roles[n].name = names[last] /\ last \in DOMAIN names
  BY <1>8, <1>9 DEF Named
<1>14. n \in Held(i)
  <2> HIDE DEF last
  <2>1. QED
    BY <1>13 DEF Held, Range
<1>15. QED
  BY <1>9, <1>12, <1>14

LEMMA DefaultsThere ==
    ASSUME NEW i, Issuable(i)
    PROVE  Defaults(i) \in Maps
<1> DEFINE C == combine_roles_scopes(i.roles)
           M == {group_scopes(i.defaults.permissions)} \cup
                {C[n] : n \in {m \in DOMAIN i.roles : i.roles[m].name \in Range(i.defaults.roles)}}
           d == merge_rights_by_category(M)
<1>1. \A m \in M : m \in Maps
  <2>1. group_scopes(i.defaults.permissions) \in Maps
    BY InputThere, MapsAre DEF Issuable
  <2>2. \A n \in DOMAIN i.roles : C[n] \in Maps
    BY CombinedThere DEF Issuable
  <2> HIDE DEF C
  <2>3. QED
    BY <2>1, <2>2
<1>2. Defaults(i) = d
  BY DEF Defaults
<1> HIDE DEF M
<1>3. d = [c \in UNION {DOMAIN m : m \in M} |-> UNION {RightsOf(m, c) : m \in M}]
  BY DEF merge_rights_by_category
<1>4. \A m \in M : DOMAIN m \in SUBSET (Categories \cup {Star}) /\ \A c : RightsOf(m, c) \in SUBSET Rights
  BY <1>1, MapsAre DEF Typed, Source, RightsOf
<1> DEFINE D == UNION {DOMAIN m : m \in M}
<1>5. D \in SUBSET (Categories \cup {Star})
  BY <1>4
<1>6. \A c : UNION {RightsOf(m, c) : m \in M} \in SUBSET Rights
  BY <1>4
<1>7. d \in [D -> SUBSET Rights]
  BY <1>3, <1>6
<1>8. ASSUME Star \in D
      PROVE  d[Star] # {}
  <2>1. PICK m \in M : Star \in DOMAIN m
    BY <1>8
  <2>2. m[Star] # {} /\ RightsOf(m, Star) = m[Star]
    BY <1>1, <2>1, MapsAre DEF Typed, RightsOf
  <2>3. d[Star] = UNION {RightsOf(x, Star) : x \in M}
    BY <1>3, <1>8
  <2>4. QED
    BY <2>2, <2>3
<1>9. Typed(d)
  <2>1. DOMAIN d = D /\ \A c \in D : d[c] \subseteq Rights
    BY <1>7
  <2> HIDE DEF d, D
  <2>2. QED
    BY <1>5, <1>8, <2>1 DEF Typed, Source
<1>10. QED
  <2> HIDE DEF d, D
  <2>1. QED
    BY <1>2, <1>5, <1>7, <1>9 DEF Maps

LEMMA ChainThere ==
    ASSUME NEW i, Issuable(i)
    PROVE  /\ Chain(i)[0] = merge_scopes_with_priority(Nothing, Defaults(i))
           /\ \A k \in 1 .. Cardinality(Ranks(i)) :
                 Chain(i)[k] = merge_scopes_with_priority(
                                   Chain(i)[k - 1], combine_roles_scopes(i.roles)[OfRank(i, Ascending(i)[k])])
           /\ combine_all_scopes(i) =
                 optimize_categories(merge_scopes_with_priority(Chain(i)[Cardinality(Ranks(i))],
                                                                group_scopes(i.user.permissions)))
<1> DEFINE K == Cardinality(Ranks(i))
           D == 0 .. K
           Role1(k) == combine_roles_scopes(i.roles)[OfRank(i, Ascending(i)[k])]
           first == merge_scopes_with_priority(Nothing, Defaults(i))
           step == [x \in Maps \X D |-> IF x[2] = 0 THEN x[1] ELSE merge_scopes_with_priority(x[1], Role1(x[2]))]
           own == [k \in D |-> first]
           next == [k \in D |-> k - 1]
           level == [k \in D |-> k]
           Body(f, k) == IF k = 0 THEN first ELSE merge_scopes_with_priority(f[k - 1], Role1(k))
<1>1. K \in Nat /\ \A k \in 1 .. K : Role1(k) \in Maps
  <2>1. K \in Nat /\ \A k \in 1 .. K : Ascending(i)[k] \in Ranks(i)
    BY RanksAscend
  <2>2. ASSUME NEW k \in 1 .. K
        PROVE  Role1(k) \in Maps
    <3>1. OfRank(i, Ascending(i)[k]) \in Held(i)
      BY <2>1, RankHeld
    <3>2. OfRank(i, Ascending(i)[k]) \in DOMAIN i.roles
      BY <3>1, HeldThere
    <3>3. QED
      BY <3>2, CombinedThere DEF Issuable
  <2>3. QED
    BY <2>1, <2>2
<1>2. first \in Maps
  BY DefaultsThere, MapsAre
<1>3. step \in [Maps \X D -> Maps]
  <2> HIDE DEF Role1, K
  <2>1. QED
    BY <1>1, MapsAre
<1>4. level \in [D -> Nat] /\ (\A k \in D : level[k] < K + 1) /\ K + 1 \in Nat
  <2> HIDE DEF K
  <2>1. QED
    BY <1>1
<1>5. \A k \in D \ {0} : next[k] \in D /\ level[next[k]] < level[k]
  <2> HIDE DEF K
  <2>1. QED
    BY <1>1
<1>6. \A k \in D \cap {0} : own[k] \in Maps
  BY <1>2
<1>7. PICK f \in [D -> Maps] : Recursive(f, D, {0}, own, next, step)
  <2>1. Maps # {}
    BY MapsAre
  <2> HIDE DEF D, K, first, step, own, next, level
  <2>2. QED
    BY <1>3, <1>4, <1>5, <1>6, <2>1, Recursion
<1>8. ASSUME NEW k \in D
      PROVE  f[k] = Body(f, k)
  <2>1. f[k] = IF k \in {0} THEN own[k] ELSE step[<<f[next[k]], k>>]
    BY <1>7 DEF Recursive
  <2>2. CASE k = 0
    BY <2>1, <2>2
  <2>3. CASE k # 0
    <3>1. next[k] \in D /\ next[k] = k - 1
      BY <1>5, <2>3
    <3>2. <<f[next[k]], k>> \in Maps \X D
      BY <3>1
    <3>3. step[<<f[next[k]], k>>] = merge_scopes_with_priority(f[next[k]], Role1(k))
      <4> HIDE DEF D, next, Role1
      <4>1. QED
        BY <2>3, <3>2
    <3>4. f[k] = step[<<f[next[k]], k>>]
      BY <2>1, <2>3
    <3> HIDE DEF step, D, Role1, first
    <3>5. QED
      BY <2>3, <3>1, <3>3, <3>4
  <2>4. QED
    BY <2>2, <2>3
<1>9. f = [k \in D |-> Body(f, k)]
  BY <1>8
<1>10. \E h : h = [k \in D |-> Body(h, k)]
  BY <1>9
<1>11. Chain(i) = CHOOSE h : h = [k \in D |-> Body(h, k)]
  BY DEF Chain, Ascending
<1>12. Chain(i) = [k \in D |-> Body(Chain(i), k)]
  <2> HIDE DEF Body, D
  <2>1. QED
    BY <1>10, <1>11
<1>13. 0 \in D /\ \A k \in 1 .. K : k \in D /\ k # 0
  <2> HIDE DEF K
  <2>1. QED
    BY <1>1
<1>14. Chain(i)[0] = first /\ \A k \in 1 .. K : Chain(i)[k] = merge_scopes_with_priority(Chain(i)[k - 1], Role1(k))
  <2> HIDE DEF K, D, first, Role1
  <2>1. \A k \in D : Chain(i)[k] = Body(Chain(i), k)
    BY <1>12
  <2>2. QED
    BY <1>13, <2>1
<1>15. combine_all_scopes(i) =
          optimize_categories(merge_scopes_with_priority(Chain(i)[K], group_scopes(i.user.permissions)))
  BY DEF combine_all_scopes, Chain
<1>16. QED
  BY <1>14, <1>15

\* The voices of the defaults and of the first ranks.
Heard(i, k) ==
    {Voice(1, 0, 1, Defaults(i))} \cup
    UNION {Voices(i.roles, OfRank(i, Ascending(i)[j])) : j \in 1 .. k}

LEMMA VoicesAre ==
    ASSUME NEW roles, NEW n
    PROVE  /\ Voices(roles, n) = Spoken(roles, n, roles[n].rank)
           /\ \A x \in Voices(roles, n) : x.level = 2 /\ x.rank = roles[n].rank
<1>1. Voices(roles, n) = Spoken(roles, n, roles[n].rank)
  BY DEF Voices, Spoken, Own
<1>2. ASSUME NEW x \in Voices(roles, n)
      PROVE  x.level = 2 /\ x.rank = roles[n].rank
  <2>1. PICK l \in DOMAIN Lineage(roles)[n] :
            x = Voice(2, roles[n].rank, l, group_scopes(roles[Lineage(roles)[n][l]].permissions))
    BY DEF Voices
  <2>2. QED
    BY <2>1 DEF Voice
<1>3. QED
  BY <1>1, <1>2

LEMMA HeardThere ==
    ASSUME NEW i, Issuable(i)
    PROVE  LET K == Cardinality(Ranks(i)) IN
           /\ \A k \in 0 .. K : Heard(i, k) \subseteq Sources(i)
           /\ Voice(3, 0, 1, group_scopes(i.user.permissions)) \in Sources(i)
           /\ (\A k, l \in DOMAIN i.roles : i.roles[k].rank = i.roles[l].rank => k = l)
              => Sources(i) = Heard(i, K) \cup {Voice(3, 0, 1, group_scopes(i.user.permissions))}
<1> DEFINE K == Cardinality(Ranks(i))
           Ranked(j) == OfRank(i, Ascending(i)[j])
           user == Voice(3, 0, 1, group_scopes(i.user.permissions))
           low == Voice(1, 0, 1, Defaults(i))
<1>1. K \in Nat /\ \A j \in 1 .. K : Ranked(j) \in Held(i) /\ i.roles[Ranked(j)].rank = Ascending(i)[j]
  BY RanksAscend, RankHeld
<1>2. Sources(i) = {low, user} \cup UNION {Voices(i.roles, n) : n \in Held(i)}
  BY DEF Sources
<1>3. \A k : Heard(i, k) = {low} \cup UNION {Voices(i.roles, Ranked(j)) : j \in 1 .. k}
  BY DEF Heard
<1>4. ASSUME NEW k \in 0 .. K
      PROVE  Heard(i, k) \subseteq Sources(i)
  <2>1. \A j \in 1 .. k : j \in 1 .. K
    BY <1>1
  <2> HIDE DEF Ranked, user, low, K
  <2>2. \A j \in 1 .. k : Ranked(j) \in Held(i)
    BY <1>1, <2>1
  <2>3. QED
    BY <1>2, <1>3, <2>2
<1>5. ASSUME \A k, l \in DOMAIN i.roles : i.roles[k].rank = i.roles[l].rank => k = l
      PROVE  Sources(i) = Heard(i, K) \cup {user}
  <2>1. ASSUME NEW n \in Held(i)
        PROVE  \E j \in 1 .. K : Ranked(j) = n
    <3>1. i.roles[n].rank \in Ranks(i) /\ Held(i) \subseteq DOMAIN i.roles
      BY HeldThere
    <3>2. PICK j \in 1 .. K : Ascending(i)[j] = i.roles[n].rank
      BY <3>1, RanksAscend
    <3>3. i.roles[Ranked(j)].rank = i.roles[n].rank /\ Ranked(j) \in Held(i)
      BY <1>1, <3>2
    <3> HIDE DEF Ranked
    <3>4. Ranked(j) = n
      BY <1>5, <3>1, <3>3
    <3>5. QED
      BY <3>4
  <2> HIDE DEF Ranked, user, low, K
  <2>2. K \in 0 .. K
    BY <1>1
  <2>3. Heard(i, K) \cup {user} \subseteq Sources(i)
    BY <1>2, <1>4, <2>2
  <2>4. Sources(i) \subseteq Heard(i, K) \cup {user}
    BY <1>2, <1>3, <2>1
  <2>5. QED
    BY <2>3, <2>4
<1>6. QED
  BY <1>2, <1>4, <1>5

LEMMA ChainTells ==
    ASSUME NEW i, Issuable(i)
    PROVE  LET K == Cardinality(Ranks(i)) IN
           /\ NoMore(Chain(i)[K], Heard(i, K))
           /\ (\A x \in Sources(i) : Good(x.says)) => Tells(Chain(i)[K], Heard(i, K))
<1> DEFINE K == Cardinality(Ranks(i))
           low == Voice(1, 0, 1, Defaults(i))
           n(k) == OfRank(i, Ascending(i)[k])
           Told(k) == /\ NoMore(Chain(i)[k], Heard(i, k))
                      /\ (\A x \in Sources(i) : Good(x.says)) => Tells(Chain(i)[k], Heard(i, k))
           T == {k \in Nat : k <= K => Told(k)}
<1>1. K \in Nat
  BY RanksAscend
<1>2. Told(0)
  <2>1. Heard(i, 0) = {} \cup {low}
    BY DEF Heard
  <2>2. Chain(i)[0] = merge_scopes_with_priority(Nothing, Defaults(i))
    BY ChainThere
  <2>3. Defaults(i) \in Maps
    BY DefaultsThere
  <2>4. low \in Heard(i, 0) /\ Heard(i, 0) \subseteq Sources(i)
    <3> HIDE DEF low
    <3>1. 0 \in 0 .. K
      BY <1>1
    <3>2. QED
      BY <2>1, <3>1, HeardThere
  <2>5. low.says = Defaults(i)
    BY DEF Voice
  <2>6. /\ NoMore(Defaults(i), {low}) /\ NoMore(Nothing, {}) /\ Tells(Nothing, {})
        /\ Good(Defaults(i)) => Tells(Defaults(i), {low})
    BY <2>3, Alone
  <2>7. Over({low}, {})
    BY DEF Over
  <2> HIDE DEF low
  <2>8. NoMore(Chain(i)[0], Heard(i, 0))
    BY <2>1, <2>2, <2>6, OnTop
  <2>9. ASSUME \A x \in Sources(i) : Good(x.says)
        PROVE  Tells(Chain(i)[0], Heard(i, 0))
    <3>1. Tells(Defaults(i), {low})
      BY <2>4, <2>5, <2>6, <2>9
    <3>2. Tells(merge_scopes_with_priority(Nothing, Defaults(i)), {} \cup {low})
      BY <2>6, <2>7, <3>1, OnTop
    <3>3. QED
      BY <2>1, <2>2, <3>2
  <2>10. QED
    BY <2>8, <2>9
<1>3. ASSUME NEW k \in T
      PROVE  k + 1 \in T
  <2>0. k \in Nat /\ k + 1 \in Nat
    OBVIOUS
  <2>1. SUFFICES ASSUME k + 1 <= K PROVE Told(k + 1)
    BY <2>0
  <2> DEFINE H == Voices(i.roles, n(k + 1))
             L == Heard(i, k)
             C == combine_roles_scopes(i.roles)
  <2>2. Told(k) /\ k + 1 \in 1 .. K /\ k \in 0 .. K /\ k + 1 \in 0 .. K /\ (k + 1) - 1 = k
    <3> HIDE DEF Told, K
    <3>1. QED
      BY <1>1, <2>0, <2>1
  <2>3. n(k + 1) \in Held(i) /\ i.roles[n(k + 1)].rank = Ascending(i)[k + 1] /\ Ascending(i)[k + 1] \in Int
    BY <2>2, RanksAscend, RankHeld
  <2>4. n(k + 1) \in DOMAIN i.roles
    BY <2>3, HeldThere
  <2>5. /\ NoMore(C[n(k + 1)], H)
        /\ (\A x \in H : Good(x.says)) => Tells(C[n(k + 1)], H)
    BY <2>3, <2>4, RoleTells, VoicesAre DEF Issuable
  <2>6. Heard(i, k + 1) = L \cup H
    <3>1. 1 .. k + 1 = (1 .. k) \cup {k + 1}
      BY <2>0
    <3>2. Heard(i, k + 1) = {low} \cup UNION {Voices(i.roles, n(j)) : j \in 1 .. k + 1}
      BY DEF Heard
    <3>3. Heard(i, k) = {low} \cup UNION {Voices(i.roles, n(j)) : j \in 1 .. k}
      BY DEF Heard
    <3> HIDE DEF n, low
    <3>4. QED
      BY <3>1, <3>2, <3>3
  <2>7. Chain(i)[k + 1] = merge_scopes_with_priority(Chain(i)[k], C[n(k + 1)])
    BY <2>2, ChainThere
  <2>8. Over(H, L)
    <3>1. ASSUME NEW h \in H, NEW l \in L
          PROVE  Above(h, l) /\ ~Above(l, h)
      <4>1. h.level = 2 /\ h.rank = Ascending(i)[k + 1]
        BY <2>3, VoicesAre
      <4>2. CASE l = low
        <5>1. l.level = 1
          BY <4>2 DEF Voice
        <5>2. QED
          BY <4>1, <5>1 DEF Above
      <4>3. CASE l # low
        <5>1. PICK j \in 1 .. k : l \in Voices(i.roles, n(j))
          BY <4>3 DEF Heard
        <5>2. j \in 1 .. K /\ j < k + 1
          <6> HIDE DEF K
          <6>1. QED
            BY <1>1, <2>0, <2>1
        <5>3. l.level = 2 /\ l.rank = Ascending(i)[j]
          BY <5>1, <5>2, VoicesAre, RanksAscend, RankHeld
        <5>4. Ascending(i)[j] < Ascending(i)[k + 1] /\ Ascending(i)[j] \in Int
          BY <2>2, <5>2, RanksAscend
        <5> HIDE DEF H, L
        <5>5. QED
          BY <2>3, <4>1, <5>3, <5>4 DEF Above
      <4>4. QED
        BY <4>2, <4>3
    <3>2. QED
      BY <3>1 DEF Over
  <2>9. H \subseteq Sources(i)
    <3> HIDE DEF H, L
    <3>1. QED
      BY <2>2, <2>6, HeardThere
  <2>10. NoMore(Chain(i)[k + 1], Heard(i, k + 1))
    <3> HIDE DEF H, C, n
    <3>1. QED
      BY <2>2, <2>5, <2>6, <2>7, OnTop
  <2>11. ASSUME \A x \in Sources(i) : Good(x.says)
         PROVE  Tells(Chain(i)[k + 1], Heard(i, k + 1))
    <3> HIDE DEF H, C, n, L
    <3>1. Tells(C[n(k + 1)], H)
      BY <2>5, <2>9, <2>11
    <3>2. Tells(Chain(i)[k], L)
      BY <2>2, <2>11 DEF L
    <3>3. Tells(merge_scopes_with_priority(Chain(i)[k], C[n(k + 1)]), L \cup H)
      BY <2>8, <3>1, <3>2, OnTop
    <3>4. QED
      BY <2>6, <2>7, <3>3
  <2>12. QED
    BY <2>10, <2>11
<1>4. 0 \in T
  <2> HIDE DEF Told
  <2>1. QED
    BY <1>2
<1>5. K \in T
  <2> HIDE DEF T
  <2>1. QED
    BY <1>1, <1>3, <1>4, Reached DEF T
<1>6. QED
  <2> HIDE DEF Told
  <2>1. Told(K)
    BY <1>1, <1>5
  <2>2. QED
    BY <2>1 DEF Told

LEMMA SourcesTyped ==
    ASSUME NEW i, Issuable(i), NEW x \in Sources(i)
    PROVE  x.says \in Maps
<1>1. group_scopes(i.user.permissions) \in Maps /\ Defaults(i) \in Maps /\ i.roles \in Seq(Role)
  BY InputThere, MapsAre, DefaultsThere DEF Issuable
<1>2. CASE x = Voice(1, 0, 1, Defaults(i)) \/ x = Voice(3, 0, 1, group_scopes(i.user.permissions))
  BY <1>1, <1>2 DEF Voice
<1>3. ASSUME NEW n \in Held(i), x \in Voices(i.roles, n)
      PROVE  x.says \in Maps
  <2> DEFINE line == Lineage(i.roles)[n]
             D == DOMAIN i.roles
  <2>1. n \in D
    BY HeldThere
  <2>2. line \in Seq(D)
    BY <2>1, LineageThere DEF Issuable
  <2>3. PICK l \in DOMAIN line : x = Voice(2, i.roles[n].rank, l, group_scopes(i.roles[line[l]].permissions))
    BY <1>3 DEF Voices
  <2>4. line[l] \in D
    <3> HIDE DEF line, D
    <3>1. QED
      BY <2>2, <2>3
  <2>5. i.roles[line[l]].permissions \in SUBSET Scopes
    BY <1>1, <2>4, RoleThere
  <2>6. group_scopes(i.roles[line[l]].permissions) \in Maps
    BY <2>5, MapsAre
  <2>7. QED
    BY <2>3, <2>6 DEF Voice
<1>4. QED
  BY <1>2, <1>3 DEF Sources

\* What was merged of all sources is what they say.
LEMMA MergedTells ==
    ASSUME NEW i, Issuable(i), NEW c \in Categories, NEW r \in Names
    PROVE  LET given == has_scope(flatten_scopes(combine_all_scopes(i)), c, r) IN
           /\ given => \E x \in Sources(i) : Allows(x.says, c, r)
           /\ Plain(i) => (given <=> Granted(Sources(i), c, r))
<1> DEFINE K == Cardinality(Ranks(i))
           own == group_scopes(i.user.permissions)
           user == Voice(3, 0, 1, own)
           M == merge_scopes_with_priority(Chain(i)[K], own)
           given == has_scope(flatten_scopes(combine_all_scopes(i)), c, r)
<1>1. combine_all_scopes(i) = optimize_categories(M)
  BY ChainThere
<1>2. user.says = own /\ user.level = 3 /\ own \in Maps
  BY InputThere, MapsAre DEF Voice, Issuable
<1>3. NoMore(own, {user}) /\ (Good(own) => Tells(own, {user}))
  BY <1>2, Alone
<1>4. K \in 0 .. K /\ Heard(i, K) \subseteq Sources(i) /\ user \in Sources(i)
  <2>1. K \in Nat
    BY RanksAscend
  <2>2. K \in 0 .. K
    BY <2>1
  <2>3. QED
    BY <2>2, HeardThere
<1>5. ASSUME given
      PROVE  \E x \in Sources(i) : Allows(x.says, c, r)
  <2>1. NoMore(Chain(i)[K], Heard(i, K))
    BY ChainTells
  <2>2. NoMore(M, Heard(i, K) \cup {user})
    BY <1>3, <2>1, OnTop
  <2>3. Allows(M, c, r)
    BY <1>1, <1>5, LookupAllowed
  <2>4. \E x \in Heard(i, K) \cup {user} : Allows(x.says, c, r)
    <3> HIDE DEF M, user
    <3>1. QED
      BY <2>2, <2>3 DEF NoMore
  <2> HIDE DEF user
  <2>5. QED
    BY <1>4, <2>4, Zenon
<1>6. ASSUME Plain(i)
      PROVE  given <=> Granted(Sources(i), c, r)
  <2>1. ASSUME NEW x \in Sources(i)
        PROVE  Good(x.says)
    <3>1. Typed(x.says)
      BY SourcesTyped, MapsAre
    <3>2. MasksOnly(x.says) /\ \A d \in Categories : Deny(Star) \notin RightsOf(x.says, d)
      BY <1>6 DEF Plain
    <3>3. QED
      BY <3>1, <3>2 DEF Good
  <2>2. Good(own)
    <3> HIDE DEF user, own
    <3>1. QED
      BY <1>2, <1>4, <2>1
  <2>3. Sources(i) = Heard(i, K) \cup {user}
    BY <1>6, HeardThere DEF Plain
  <2>4. Over({user}, Heard(i, K))
    <3>1. ASSUME NEW l \in Heard(i, K)
          PROVE  Above(user, l) /\ ~Above(l, user)
      <4>1. CASE l.level = 1
        BY <1>2, <4>1 DEF Above
      <4>2. CASE l.level = 2
        BY <1>2, <4>2 DEF Above
      <4>3. l.level = 1 \/ l.level = 2
        <5>1. CASE l = Voice(1, 0, 1, Defaults(i))
          BY <5>1 DEF Voice
        <5>2. CASE l # Voice(1, 0, 1, Defaults(i))
          BY <5>2, VoicesAre DEF Heard
        <5>3. QED
          BY <5>1, <5>2
      <4>4. QED
        BY <4>1, <4>2, <4>3
    <3>2. QED
      BY <3>1 DEF Over
  <2>5. Tells(Chain(i)[K], Heard(i, K))
    BY <2>1, ChainTells
  <2>6. Tells(own, {user})
    BY <1>3, <2>2
  <2>7. Tells(M, Heard(i, K) \cup {user})
    BY <2>4, <2>5, <2>6, OnTop
  <2>8. Good(M) /\ (Grants(M, c, r) <=> Granted(Sources(i), c, r))
    <3> HIDE DEF M, user
    <3>1. QED
      BY <2>3, <2>7, Zenon DEF Tells
  <2>9. Source(M) /\ MasksOnly(M) /\ Deny(Star) \notin RightsOf(M, c)
    <3> HIDE DEF M
    <3>1. QED
      BY <2>8 DEF Good, Typed
  <2>10. given <=> Grants(M, c, r)
    <3> HIDE DEF M
    <3>1. has_scope(flatten_scopes(optimize_categories(M)), c, r) <=> Grants(M, c, r)
      BY <2>9, LookupIsMeaning
    <3>2. QED
      BY <1>1, <3>1
  <2>11. QED
    BY <2>8, <2>10
<1>7. QED
  BY <1>5, <1>6

\* A token was issued of an input whose roles were accepted.
TokenInv ==
    /\ input # Absent => input \in Inputs
    /\ token # Absent => Issuable(input) /\ token = flatten_scopes(combine_all_scopes(input))

LEMMA TokenInvariance == AllSpec => []TokenInv
<1>1. AllInit => TokenInv
  BY DEF AllInit, ScopesInit, TokenInv
<1>2. TokenInv /\ [AllNext]_AllVars => TokenInv'
  <2> SUFFICES ASSUME TokenInv, [AllNext]_AllVars
               PROVE  TokenInv'
    OBVIOUS
  <2>1. CASE input # Absent /\ ScopesNext
    <3>1. /\ input \in Inputs /\ input' = input /\ RolesInOrder(input.roles)
          /\ \A name \in Range(input.defaults.roles) : Named(input.roles, name) # {}
          /\ token' = flatten_scopes(combine_all_scopes(input))
      BY <2>1 DEF ScopesNext, Issue, TokenInv
    <3>2. Issuable(input)
      BY <3>1, InputThere DEF Issuable
    <3>3. QED
      BY <3>1, <3>2 DEF TokenInv
  <2>2. CASE UNCHANGED scopeVars
    BY <2>2 DEF TokenInv, scopeVars
  <2>3. QED
    BY <2>1, <2>2 DEF AllNext, AllVars, scopeVars
<1>3. QED
  BY <1>1, <1>2, PTL DEF AllSpec

\* What roles, defaults and a user are given is merged by priority, role by role and rank
\* by rank, simplified, flattened and looked up: the token permits what the highest
\* source that says anything of a right grants, and never what none of them grants.
THEOREM TokenTheorem == AllSpec => []TokenMeans
<1>1. ASSUME TokenInv
      PROVE  TokenMeans
  <2>1. ASSUME token # Absent
        PROVE  Issuable(input) /\ token = flatten_scopes(combine_all_scopes(input))
    BY <1>1, <2>1 DEF TokenInv
  <2>2. MeansItsLists
    BY <2>1, MergedTells DEF MeansItsLists
  <2>3. OnlyGranted
    <3>1. ASSUME token # Absent, NEW c \in Categories, NEW r \in Names, has_scope(token, c, r)
          PROVE  \E x \in Sources(input) : Allows(x.says, c, r)
      BY <2>1, <3>1, MergedTells
    <3>2. QED
      BY <3>1 DEF OnlyGranted, Allows
  <2>4. QED
    BY <2>2, <2>3 DEF TokenMeans
<1>2. QED
  BY <1>1, TokenInvariance, PTL

-----------------------------------------------------------------------------
(* What is kept of the answers: the caches and the rankings.               *)

Entries == [value : Seq(Versions), age : Nat]

CachesTypeOK ==
    /\ version \in Versions
    /\ past \in [Versions -> Nat]
    /\ cache \in [Keys -> Entries \cup {None}]
    /\ pc \in [Callers -> {"idle", "query", "store", "next", "save"}]
    /\ key \in [Callers -> Keys \cup {None}]
    /\ read \in [Callers -> Seq(Versions)]
    /\ took \in [Callers -> Nat]
    /\ collected \in Seq(Versions)
    /\ rankings \in [Athletes -> [Tables -> Versions \cup {None}]]
    /\ since \in Nat

\* A version that is not overtaken has no age.
NewestInv == \A v \in Versions : v >= version => past[v] = 0

\* A sequence of versions, none of which was overtaken more than n ticks ago.
NoOlder(s, n) == \A i \in DOMAIN s : s[i] <= version /\ past[s[i]] <= n

\* What a caller has read was so while it reads.
CallerOK(c) ==
    /\ took[c] <= MaxTook
    /\ NoOlder(read[c], took[c])
    /\ pc[c] \in {"query", "store"} => key[c] \in Keys
    /\ pc[c] = "query" => Len(read[c]) < Statements(key[c])
    /\ pc[c] = "store" => Len(read[c]) = Statements(key[c])
    /\ pc[c] \notin {"query", "store"} => read[c] = <<>>
    /\ c # "job" => pc[c] \in {"idle", "query", "store"}

\* An entry was so when its fill began, or later.
EntryOK(k) ==
    cache[k] # None =>
        /\ Len(cache[k].value) = Statements(k)
        /\ cache[k].age < Lifetime(k)
        /\ NoOlder(cache[k].value, cache[k].age + MaxTook)

\* What the job has got was so when it began, or as long before as the cache keeps it.
JobOK ==
    /\ \A i \in DOMAIN collected :
          collected[i] <= version /\ past[collected[i]] < took["job"] + Hour + MaxTook
    /\ pc["job"] = "idle" => collected = <<>>
    /\ pc["job"] \in {"next", "query", "store"} => Len(collected) < Len(Order)
    /\ pc["job"] = "save" => Len(collected) = Len(Order)
    /\ took["job"] <= since

CachesInv ==
    /\ CachesTypeOK /\ NewestInv
    /\ \A c \in Callers : CallerOK(c)
    /\ \A k \in Keys : EntryOK(k)
    /\ JobOK /\ RankingsExplained

\* The constants.
LEMMA CacheConstants ==
    /\ Hour \in Nat /\ Quarter \in Nat /\ MaxTook \in Nat /\ Hour > 0 /\ Quarter > 0
    /\ Cap \in Nat /\ Cap >= MaxTook
    /\ "job" \in Callers /\ \A c \in Requests : c # "job"
    /\ \A k \in Keys : Statements(k) \in Nat \ {0} /\ Lifetime(k) \in Nat \ {0}
    /\ \A k \in Tables : k \in Keys /\ Lifetime(k) = Hour
    /\ Order \in Seq(Tables) /\ Len(Order) \in Nat \ {0}
    /\ \A t \in Tables : \E i \in DOMAIN Order : Order[i] = t
<1>1. /\ Hour \in Nat /\ Quarter \in Nat /\ MaxTook \in Nat /\ Day \in Nat /\ Hour > 0 /\ Quarter > 0
  BY TimeAssumption
<1>2. Cap \in Nat /\ Cap >= MaxTook
  BY <1>1 DEF Cap
<1>3. "job" \in Callers /\ \A c \in Requests : c # "job"
  BY KeysAssumption DEF Callers
<1>4. ASSUME NEW k \in Keys
      PROVE  Statements(k) \in Nat \ {0} /\ Lifetime(k) \in Nat \ {0}
  <2>1. Lifetime(k) \in Nat \ {0}
    BY <1>1 DEF Lifetime
  <2>2. k \in Tables \/ k = "performances" \/ k = "sitemap"
    BY <1>4, KeysAssumption DEF Keys
  <2>3. Statements(k) \in Nat \ {0}
    BY <2>2 DEF Statements
  <2>4. QED
    BY <2>1, <2>3
<1>5. \A k \in Tables : k \in Keys /\ Lifetime(k) = Hour
  BY KeysAssumption DEF Keys, Lifetime
<1>6. Order \in Seq(Tables) /\ Len(Order) \in Nat \ {0}
  BY KeysAssumption
<1>7. \A t \in Tables : \E i \in DOMAIN Order : Order[i] = t
  BY DEF Tables
<1>8. QED
  BY <1>1, <1>2, <1>3, <1>4, <1>5, <1>6, <1>7

LEMMA CachesInit ==
    ASSUME Init
    PROVE  CachesInv
<1> USE CacheConstants
<1>1. CachesTypeOK /\ NewestInv
  <2>1. 0 \in Versions
    BY RowsAssumption DEF Versions
  <2>2. QED
    BY <2>1 DEF Init, CachesTypeOK, NewestInv
<1>2. \A c \in Callers : CallerOK(c)
  BY DEF Init, CallerOK, NoOlder
<1>3. \A k \in Keys : EntryOK(k)
  BY DEF Init, EntryOK
<1>4. JobOK
  BY DEF Init, JobOK
<1>5. RankingsExplained
  BY DEF Init, RankingsExplained
<1>6. QED
  BY <1>1, <1>2, <1>3, <1>4, <1>5 DEF CachesInv

LEMMA CacheTypes ==
    ASSUME CachesInv
    PROVE  /\ version \in Versions /\ past \in [Versions -> Nat] /\ cache \in [Keys -> Entries \cup {None}]
           /\ pc \in [Callers -> {"idle", "query", "store", "next", "save"}]
           /\ key \in [Callers -> Keys \cup {None}] /\ read \in [Callers -> Seq(Versions)]
           /\ took \in [Callers -> Nat] /\ collected \in Seq(Versions) /\ since \in Nat
           /\ rankings \in [Athletes -> [Tables -> Versions \cup {None}]]
           /\ version \in Nat
<1>1. \A v \in Versions : v \in Nat
  BY DEF Versions
<1>2. QED
  BY <1>1 DEF CachesInv, CachesTypeOK

\* A version in a sequence of versions.
LEMMA Older ==
    ASSUME NEW s \in Seq(Versions), NEW n \in Nat, NoOlder(s, n), past \in [Versions -> Nat], NEW i \in DOMAIN s
    PROVE  s[i] \in Versions /\ s[i] \in Nat /\ s[i] <= version /\ past[s[i]] \in Nat /\ past[s[i]] <= n
<1>1. s[i] \in Versions
  OBVIOUS
<1>2. s[i] \in Nat
  BY <1>1 DEF Versions
<1>3. QED
  BY <1>1, <1>2 DEF NoOlder

LEMMA First ==
    ASSUME NEW k \in Keys, NEW s \in Seq(Versions), Len(s) = Statements(k)
    PROVE  Len(s) > 0 /\ 1 \in DOMAIN s
<1>1. Statements(k) \in Nat \ {0}
  BY CacheConstants
<1>2. QED
  BY <1>1

\* As long as no time passes, what is right of a caller, an entry or the rankings stays so.
LEMMA StillNoOlder ==
    ASSUME CachesInv, past' = past, version' \in Nat, version <= version',
           NEW s \in Seq(Versions), NEW n \in Nat, NoOlder(s, n)
    PROVE  \A i \in DOMAIN s : s[i] <= version' /\ past'[s[i]] <= n
<1>1. ASSUME NEW i \in DOMAIN s
      PROVE  s[i] <= version' /\ past'[s[i]] <= n
  <2>1. past \in [Versions -> Nat] /\ version \in Nat
    BY CacheTypes
  <2>2. s[i] \in Nat /\ s[i] <= version /\ past[s[i]] <= n
    BY <2>1, Older
  <2>3. QED
    BY <2>1, <2>2
<1>2. QED
  BY <1>1

LEMMA CallerStill ==
    ASSUME CachesInv, past' = past, version' \in Nat, version <= version', NEW q \in Callers,
           pc'[q] = pc[q], key'[q] = key[q], read'[q] = read[q], took'[q] = took[q]
    PROVE  CallerOK(q)'
<1>1. CallerOK(q) /\ read[q] \in Seq(Versions) /\ took[q] \in Nat
  BY CacheTypes DEF CachesInv
<1>2. \A i \in DOMAIN read[q] : read[q][i] <= version' /\ past'[read[q][i]] <= took[q]
  BY <1>1, StillNoOlder DEF CallerOK
<1>3. QED
  BY <1>1, <1>2 DEF CallerOK, NoOlder

LEMMA EntryStill ==
    ASSUME CachesInv, past' = past, version' \in Nat, version <= version', NEW k \in Keys, cache'[k] = cache[k],
           MaxTook \in Nat
    PROVE  EntryOK(k)'
<1>1. EntryOK(k) /\ cache[k] \in Entries \cup {None}
  BY CacheTypes DEF CachesInv
<1>2. CASE cache[k] # None
  <2>1. cache[k].value \in Seq(Versions) /\ cache[k].age \in Nat
    BY <1>1, <1>2 DEF Entries
  <2>2. NoOlder(cache[k].value, cache[k].age + MaxTook) /\ cache[k].age + MaxTook \in Nat
    BY <1>1, <1>2, <2>1 DEF EntryOK
  <2>3. \A i \in DOMAIN cache[k].value : cache[k].value[i] <= version' /\ past'[cache[k].value[i]] <= cache[k].age + MaxTook
    BY <2>1, <2>2, StillNoOlder
  <2>4. QED
    BY <1>1, <2>3 DEF EntryOK, NoOlder
<1>3. CASE cache[k] = None
  BY <1>3 DEF EntryOK
<1>4. QED
  BY <1>2, <1>3

LEMMA RankingsStill ==
    ASSUME CachesInv, past' = past, version' \in Nat, version <= version', UNCHANGED <<rankings, since, dropped>>
    PROVE  RankingsExplained'
<1>1. version \in Nat
  BY CacheTypes
<1>2. SUFFICES ASSUME since < Cap, NEW a \in Athletes \ dropped, NEW t \in Tables
               PROVE  \E v \in 0 .. version' : rankings[a][t] = Says(t, v, a) /\ past[v] < since + Hour + MaxTook
  BY DEF RankingsExplained
<1>3. PICK v \in 0 .. version : rankings[a][t] = Says(t, v, a) /\ past[v] < since + Hour + MaxTook
  BY <1>2 DEF CachesInv, RankingsExplained
<1>4. v \in 0 .. version'
  BY <1>1
<1>5. QED
  BY <1>3, <1>4

LEMMA JobStill ==
    ASSUME CachesInv, past' = past, version' \in Nat, version <= version', UNCHANGED <<collected, since>>,
           pc'["job"] = pc["job"], took'["job"] = took["job"]
    PROVE  JobOK'
<1>1. JobOK
  BY DEF CachesInv
<1>2. ASSUME NEW i \in DOMAIN collected
      PROVE  collected[i] \in Nat
  <2>1. collected \in Seq(Versions)
    BY CacheTypes
  <2>2. collected[i] \in Versions
    BY <2>1
  <2>3. QED
    BY <2>2 DEF Versions
<1>3. version \in Nat
  BY CacheTypes
<1>4. \A i \in DOMAIN collected : collected[i] <= version' /\ past'[collected[i]] < took'["job"] + Hour + MaxTook
  BY <1>1, <1>2, <1>3 DEF JobOK
<1>5. QED
  BY <1>1, <1>4 DEF JobOK

\* A caller gets an answer that has what it should: the job keeps its version.
LEMMA AnsweredStep ==
    ASSUME CachesInv, NEW c \in Callers, NEW value \in Seq(Versions),
           Len(value) > 0, Answered(c, value),
           past' = past, version' = version,
           c # "job" => took'["job"] = took["job"],
           c = "job" => /\ took' = took /\ pc["job"] \in {"next", "store"}
                        /\ value[1] <= version /\ past[value[1]] < took["job"] + Hour + MaxTook
    PROVE  /\ collected' \in Seq(Versions) /\ since' \in Nat
           /\ pc' \in [Callers -> {"idle", "query", "store", "next", "save"}]
           /\ \A q \in Callers \ {c} : pc'[q] = pc[q]
           /\ pc'[c] \notin {"query", "store"} /\ (c # "job" => pc'[c] = "idle")
           /\ UNCHANGED <<rankings, since, dropped>>
           /\ JobOK'
<1>t. /\ pc \in [Callers -> {"idle", "query", "store", "next", "save"}]
      /\ collected \in Seq(Versions) /\ since \in Nat /\ version \in Nat
  BY CacheTypes
<1>1. CASE c # "job"
  <2>1. pc' = [pc EXCEPT ![c] = "idle"] /\ UNCHANGED <<collected, rankings, since, dropped>>
    BY <1>1 DEF Answered, Goto, jobVars
  <2>2. JobOK'
    <3>1. pc'["job"] = pc["job"]
      BY <1>1, <1>t, <2>1
    <3>2. QED
      BY <1>1, <1>t, <2>1, <3>1, JobStill
  <2>3. QED
    BY <1>1, <1>t, <2>1, <2>2
<1>2. CASE c = "job"
  <2> DEFINE l == IF Len(collected) + 1 = Len(Order) THEN "save" ELSE "next"
  <2>1. /\ pc' = [pc EXCEPT !["job"] = l] /\ collected' = Append(collected, value[1])
        /\ UNCHANGED <<rankings, since, dropped>>
    BY <1>2 DEF Answered, Goto
  <2>2. value[1] \in Versions
    OBVIOUS
  <2>3. /\ collected' \in Seq(Versions) /\ Len(collected') = Len(collected) + 1
    BY <1>t, <2>1, <2>2
  <2>a. \A i \in DOMAIN collected' : (i \in DOMAIN collected /\ collected'[i] = collected[i]) \/ collected'[i] = value[1]
    BY <1>t, <2>1, <2>2
  <2>4. JobOK /\ Len(collected) < Len(Order) /\ Len(Order) \in Nat /\ Len(collected) \in Nat
    BY <1>2, <1>t, CacheConstants DEF CachesInv, JobOK
  <2>5. JobOK'
    <3>1. \A i \in DOMAIN collected' :
             collected'[i] <= version' /\ past'[collected'[i]] < took'["job"] + Hour + MaxTook
      BY <1>2, <2>a, <2>4 DEF JobOK
    <3>2. pc'["job"] = l /\ took'["job"] <= since'
      BY <1>2, <1>t, <2>1, <2>4 DEF JobOK
    <3>3. /\ pc'["job"] # "idle"
          /\ pc'["job"] \in {"next", "query", "store"} => Len(collected') < Len(Order)
          /\ pc'["job"] = "save" => Len(collected') = Len(Order)
      BY <2>3, <2>4, <3>2
    <3>4. QED
      BY <3>1, <3>2, <3>3 DEF JobOK
  <2>6. QED
    BY <1>2, <1>t, <2>1, <2>3, <2>5
<1>3. QED
  BY <1>1, <1>2

\* A caller looks a key up: what is there is answered, else the fill begins.
LEMMA LookupStep ==
    ASSUME CachesInv, NEW c \in Callers, NEW k \in Keys, Lookup(c, k),
           c = "job" => pc["job"] = "next" /\ k \in Tables,
           c # "job" => pc[c] = "idle"
    PROVE  CachesInv'
<1>t. /\ pc \in [Callers -> {"idle", "query", "store", "next", "save"}]
      /\ key \in [Callers -> Keys \cup {None}] /\ took \in [Callers -> Nat] /\ version \in Nat
      /\ past \in [Versions -> Nat] /\ cache \in [Keys -> Entries \cup {None}]
  BY CacheTypes
<1>k. Hour \in Nat /\ MaxTook \in Nat /\ Hour > 0
  BY CacheConstants
<1>1. UNCHANGED <<version, past, cache, read, took>>
  BY DEF Lookup
<1>a. read[c] = <<>> /\ CallerOK(c)
  BY DEF CachesInv, CallerOK
<1>v. version' \in Nat /\ version <= version' /\ past' = past
  BY <1>1, <1>t
<1>2. \A l \in Keys : EntryOK(l)'
  BY <1>1, <1>v, <1>k, EntryStill
<1>3. NewestInv'
  BY <1>1 DEF CachesInv, NewestInv
<1>4. CASE Served(k)
  <2> DEFINE value == cache[k].value
             age == cache[k].age
  <2>1. /\ Answered(c, value) /\ key' = key
    BY <1>4 DEF Lookup
  <2>2. /\ value \in Seq(Versions) /\ age \in Nat /\ Len(value) = Statements(k)
        /\ age < Lifetime(k) /\ NoOlder(value, age + MaxTook)
    BY <1>4, <1>t DEF CachesInv, EntryOK, Served, Entries
  <2> HIDE DEF value, age
  <2>3. Len(value) > 0 /\ 1 \in DOMAIN value
    BY <2>2, First
  <2>4. value[1] <= version /\ past[value[1]] \in Nat /\ past[value[1]] <= age + MaxTook
    <3>1. age + MaxTook \in Nat
      BY <2>2, <1>k
    <3>2. QED
      BY <1>t, <2>2, <2>3, <3>1, Older
  <2>5. c = "job" => past[value[1]] < took["job"] + Hour + MaxTook
    <3>1. c = "job" => Lifetime(k) = Hour /\ took["job"] \in Nat
      BY <1>t, CacheConstants
    <3>2. QED
      BY <1>k, <2>2, <2>4, <3>1
  <2>6. /\ collected' \in Seq(Versions) /\ since' \in Nat
        /\ pc' \in [Callers -> {"idle", "query", "store", "next", "save"}]
        /\ \A q \in Callers \ {c} : pc'[q] = pc[q]
        /\ pc'[c] \notin {"query", "store"} /\ (c # "job" => pc'[c] = "idle")
        /\ UNCHANGED <<rankings, since, dropped>>
        /\ JobOK'
    BY <1>1, <2>1, <2>2, <2>3, <2>4, <2>5, AnsweredStep
  <2>7. CachesTypeOK'
    BY <1>1, <2>1, <2>6 DEF CachesInv, CachesTypeOK
  <2>8. ASSUME NEW q \in Callers \ {c}
        PROVE  CallerOK(q)'
    <3>1. pc'[q] = pc[q] /\ key'[q] = key[q] /\ read'[q] = read[q] /\ took'[q] = took[q]
      BY <1>1, <2>1, <2>6
    <3>2. QED
      BY <1>v, <3>1, CallerStill
  <2>9. CallerOK(c)'
    BY <1>1, <1>a, <2>1, <2>6 DEF CallerOK, NoOlder
  <2>10. RankingsExplained'
    BY <1>v, <2>6, RankingsStill
  <2>11. QED
    BY <1>2, <1>3, <2>6, <2>7, <2>8, <2>9, <2>10 DEF CachesInv
<1>5. CASE ~ Served(k)
  <2>1. /\ pc' = [pc EXCEPT ![c] = "query"] /\ key' = [key EXCEPT ![c] = k]
        /\ UNCHANGED <<collected, rankings, since, dropped>>
    BY <1>5 DEF Lookup, Goto, jobVars
  <2>2. CachesTypeOK'
    BY <1>1, <2>1 DEF CachesInv, CachesTypeOK
  <2>3. ASSUME NEW q \in Callers \ {c}
        PROVE  CallerOK(q)'
    <3>1. pc'[q] = pc[q] /\ key'[q] = key[q] /\ read'[q] = read[q] /\ took'[q] = took[q]
      BY <1>1, <1>t, <2>1
    <3>2. QED
      BY <1>v, <3>1, CallerStill
  <2>4. CallerOK(c)'
    <3>1. pc'[c] = "query" /\ key'[c] = k /\ read'[c] = <<>> /\ took'[c] = took[c] /\ Len(read'[c]) = 0
      BY <1>1, <1>a, <1>t, <2>1
    <3>2. Statements(k) \in Nat \ {0}
      BY CacheConstants
    <3>3. QED
      BY <1>a, <3>1, <3>2 DEF CallerOK, NoOlder
  <2>5. JobOK'
    <3>1. pc'["job"] = pc["job"] \/ (pc["job"] = "next" /\ pc'["job"] = "query")
      BY <1>t, <2>1
    <3>2. collected' = collected /\ since' = since /\ took' = took /\ version' = version /\ past' = past /\ JobOK
      BY <1>1, <2>1 DEF CachesInv
    <3>3. QED
      BY <3>1, <3>2 DEF JobOK
  <2>6. RankingsExplained'
    BY <1>v, <2>1, RankingsStill
  <2>7. QED
    BY <1>2, <1>3, <2>2, <2>3, <2>4, <2>5, <2>6 DEF CachesInv
<1>6. QED
  BY <1>4, <1>5

\* A statement finds the newest version.
LEMMA QueryStep ==
    ASSUME CachesInv, NEW c \in Callers, Query(c)
    PROVE  CachesInv'
<1>t. /\ pc \in [Callers -> {"idle", "query", "store", "next", "save"}]
      /\ key \in [Callers -> Keys \cup {None}] /\ took \in [Callers -> Nat] /\ version \in Nat
      /\ past \in [Versions -> Nat] /\ read \in [Callers -> Seq(Versions)] /\ version \in Versions
  BY CacheTypes
<1>k. Hour \in Nat /\ MaxTook \in Nat
  BY CacheConstants
<1> DEFINE more == Append(read[c], version)
           l == IF Len(more) = Statements(key[c]) THEN "store" ELSE "query"
<1>1. /\ pc[c] = "query" /\ read' = [read EXCEPT ![c] = more] /\ pc' = [pc EXCEPT ![c] = l]
      /\ UNCHANGED <<version, past, cache, key, took, collected, rankings, since, dropped>>
  BY <1>t DEF Query, Goto, jobVars
<1>2. /\ CallerOK(c) /\ read[c] \in Seq(Versions) /\ key[c] \in Keys /\ Len(read[c]) < Statements(key[c])
  BY <1>t, <1>1 DEF CachesInv, CallerOK
<1>3. more \in Seq(Versions) /\ Len(more) = Len(read[c]) + 1
      /\ \A i \in DOMAIN more : (i \in DOMAIN read[c] /\ more[i] = read[c][i]) \/ more[i] = version
  BY <1>t, <1>2
<1>v. version' \in Nat /\ version <= version' /\ past' = past
  BY <1>1, <1>t
<1>4. CachesTypeOK'
  BY <1>1, <1>3 DEF CachesInv, CachesTypeOK
<1>5. NewestInv'
  BY <1>1 DEF CachesInv, NewestInv
<1>6. \A k \in Keys : EntryOK(k)'
  BY <1>1, <1>v, <1>k, EntryStill
<1>7. ASSUME NEW q \in Callers \ {c}
      PROVE  CallerOK(q)'
  <2>1. pc'[q] = pc[q] /\ key'[q] = key[q] /\ read'[q] = read[q] /\ took'[q] = took[q]
    BY <1>1, <1>t
  <2>2. QED
    BY <1>v, <2>1, CallerStill
<1>8. CallerOK(c)'
  <2>1. past[version] = 0 /\ took[c] \in Nat
    BY <1>t DEF CachesInv, NewestInv
  <2>2. NoOlder(more, took[c])
    BY <1>2, <1>3, <1>t, <2>1 DEF CallerOK, NoOlder
  <2>3. pc'[c] = l /\ key'[c] = key[c] /\ read'[c] = more /\ took'[c] = took[c] /\ version' = version /\ past' = past
    BY <1>1, <1>t
  <2>4. Statements(key[c]) \in Nat /\ Len(read[c]) \in Nat
    BY <1>2, CacheConstants
  <2>5. /\ l \in {"query", "store"} /\ (l = "query" => Len(more) < Statements(key[c]))
        /\ (l = "store" => Len(more) = Statements(key[c]))
    BY <1>2, <1>3, <2>4
  <2> HIDE DEF more, l
  <2>6. NoOlder(read[c], took[c])'
    BY <2>2, <2>3 DEF NoOlder
  <2>7. QED
    BY <1>2, <2>3, <2>5, <2>6 DEF CallerOK
<1>9. JobOK'
  <2>1. pc'["job"] = pc["job"] \/ (pc["job"] = "query" /\ pc'["job"] \in {"query", "store"})
    BY <1>t, <1>1
  <2>2. JobOK
    BY DEF CachesInv
  <2> HIDE DEF more, l
  <2>3. QED
    BY <1>1, <2>1, <2>2 DEF JobOK
<1>10. RankingsExplained'
  BY <1>1, <1>v, RankingsStill
<1>11. QED
  BY <1>4, <1>5, <1>6, <1>7, <1>8, <1>9, <1>10 DEF CachesInv

\* A fill is stored and answered.
LEMMA StoreStep ==
    ASSUME CachesInv, NEW c \in Callers, Store(c)
    PROVE  CachesInv'
<1>t. /\ pc \in [Callers -> {"idle", "query", "store", "next", "save"}]
      /\ key \in [Callers -> Keys \cup {None}] /\ took \in [Callers -> Nat] /\ version \in Nat
      /\ past \in [Versions -> Nat] /\ read \in [Callers -> Seq(Versions)]
      /\ cache \in [Keys -> Entries \cup {None}]
  BY CacheTypes
<1>k. Hour \in Nat /\ MaxTook \in Nat /\ Hour > 0
  BY CacheConstants
<1> DEFINE k == key[c]
           value == read[c]
<1>1. /\ pc[c] = "store" /\ cache' = [cache EXCEPT ![k] = [value |-> value, age |-> 0]]
      /\ Answered(c, value) /\ key' = [key EXCEPT ![c] = None] /\ read' = [read EXCEPT ![c] = <<>>]
      /\ took' = IF c = "job" THEN took ELSE [took EXCEPT ![c] = 0]
      /\ UNCHANGED <<version, past>>
  BY DEF Store, Forget
<1>2. /\ took[c] <= MaxTook /\ NoOlder(value, took[c]) /\ value \in Seq(Versions) /\ k \in Keys
      /\ Len(value) = Statements(k) /\ took[c] \in Nat
  BY <1>1, <1>t DEF CachesInv, CallerOK
<1>c. value = read[c] /\ k = key[c]
  OBVIOUS
<1> HIDE DEF k, value
<1>v. version' \in Nat /\ version <= version' /\ past' = past
  BY <1>1, <1>t
<1>3. Len(value) > 0 /\ 1 \in DOMAIN value
  BY <1>2, First
<1>4. value[1] <= version /\ past[value[1]] \in Nat /\ past[value[1]] <= took[c]
  BY <1>t, <1>2, <1>3, Older
<1>5. c = "job" => /\ took' = took /\ pc["job"] \in {"next", "store"}
                   /\ value[1] <= version /\ past[value[1]] < took["job"] + Hour + MaxTook
  BY <1>1, <1>2, <1>4, <1>k
<1>6. c # "job" => took'["job"] = took["job"]
  BY <1>1, <1>t, CacheConstants
<1>7. /\ collected' \in Seq(Versions) /\ since' \in Nat
      /\ pc' \in [Callers -> {"idle", "query", "store", "next", "save"}]
      /\ \A q \in Callers \ {c} : pc'[q] = pc[q]
      /\ pc'[c] \notin {"query", "store"} /\ (c # "job" => pc'[c] = "idle")
      /\ UNCHANGED <<rankings, since, dropped>>
      /\ JobOK'
  BY <1>1, <1>2, <1>3, <1>5, <1>6, AnsweredStep
<1>8. CachesTypeOK'
  <2>1. [value |-> value, age |-> 0] \in Entries
    BY <1>2 DEF Entries
  <2>2. cache' \in [Keys -> Entries \cup {None}]
    BY <1>1, <1>2, <1>t, <2>1
  <2>3. took' \in [Callers -> Nat]
    BY <1>1, <1>t
  <2>4. read' \in [Callers -> Seq(Versions)]
    <3>1. <<>> \in Seq(Versions)
      OBVIOUS
    <3>2. QED
      BY <1>1, <1>t, <3>1
  <2>5. QED
    BY <1>1, <1>7, <2>2, <2>3, <2>4 DEF CachesInv, CachesTypeOK
<1>9. NewestInv'
  BY <1>1 DEF CachesInv, NewestInv
<1>10. ASSUME NEW q \in Callers \ {c}
       PROVE  CallerOK(q)'
  <2>1. pc'[q] = pc[q] /\ key'[q] = key[q] /\ read'[q] = read[q] /\ took'[q] = took[q]
    BY <1>1, <1>t, <1>7
  <2>2. QED
    BY <1>v, <2>1, CallerStill
<1>11. CallerOK(c)'
  <2>1. read'[c] = <<>> /\ (took'[c] = took[c] \/ took'[c] = 0)
    BY <1>1, <1>t
  <2>2. QED
    BY <1>2, <1>7, <1>k, <2>1 DEF CallerOK, NoOlder
<1>12. ASSUME NEW l \in Keys
       PROVE  EntryOK(l)'
  <2>1. CASE l # k
    <3>1. cache'[l] = cache[l]
      BY <1>1, <1>t, <2>1
    <3>2. QED
      BY <1>v, <1>k, <3>1, EntryStill
  <2>2. CASE l = k
    <3>1. cache'[k] = [value |-> value, age |-> 0]
      BY <1>1, <1>2, <1>t
    <3>2. cache'[k].value = value /\ cache'[k].age = 0
      BY <3>1
    <3>3. \A i \in DOMAIN value : value[i] <= version /\ past[value[i]] \in Nat /\ past[value[i]] <= took[c]
      BY <1>t, <1>2, Older
    <3>4. Lifetime(k) \in Nat \ {0}
      BY <1>2, CacheConstants
    <3>5. \A i \in DOMAIN value : value[i] <= version' /\ past'[value[i]] <= 0 + MaxTook
      BY <1>1, <1>2, <1>k, <3>3
    <3>6. QED
      BY <1>2, <2>2, <3>2, <3>4, <3>5 DEF EntryOK, NoOlder
  <2>3. QED
    BY <2>1, <2>2
<1>13. RankingsExplained'
  BY <1>v, <1>7, RankingsStill
<1>14. QED
  BY <1>7, <1>8, <1>9, <1>10, <1>11, <1>12, <1>13 DEF CachesInv

\* A statement fails: the caller is idle again and has read nothing.
LEMMA FailStep ==
    ASSUME CachesInv, NEW c \in Callers, Fail(c)
    PROVE  CachesInv'
<1>t. /\ pc \in [Callers -> {"idle", "query", "store", "next", "save"}]
      /\ key \in [Callers -> Keys \cup {None}] /\ took \in [Callers -> Nat] /\ version \in Nat
      /\ read \in [Callers -> Seq(Versions)] /\ since \in Nat
  BY CacheTypes
<1>k. MaxTook \in Nat /\ "job" \in Callers
  BY CacheConstants
<1>1. /\ pc' = [pc EXCEPT ![c] = "idle"] /\ key' = [key EXCEPT ![c] = None] /\ read' = [read EXCEPT ![c] = <<>>]
      /\ took' = [took EXCEPT ![c] = 0] /\ collected' = IF c = "job" THEN <<>> ELSE collected
      /\ UNCHANGED <<version, past, cache, rankings, since, dropped>>
  BY DEF Fail, Goto, Forget
<1>v. version' \in Nat /\ version <= version' /\ past' = past
  BY <1>1, <1>t
<1>2. CachesTypeOK'
  <2>1. <<>> \in Seq(Versions)
    OBVIOUS
  <2>2. read' \in [Callers -> Seq(Versions)] /\ collected' \in Seq(Versions)
    BY <1>1, <1>t, <2>1, CacheTypes
  <2>3. QED
    BY <1>1, <2>2 DEF CachesInv, CachesTypeOK
<1>3. NewestInv'
  BY <1>1 DEF CachesInv, NewestInv
<1>4. \A k \in Keys : EntryOK(k)'
  BY <1>1, <1>v, <1>k, EntryStill
<1>5. ASSUME NEW q \in Callers \ {c}
      PROVE  CallerOK(q)'
  <2>1. pc'[q] = pc[q] /\ key'[q] = key[q] /\ read'[q] = read[q] /\ took'[q] = took[q]
    BY <1>1, <1>t
  <2>2. QED
    BY <1>v, <2>1, CallerStill
<1>6. CallerOK(c)'
  <2>1. read'[c] = <<>> /\ took'[c] = 0 /\ pc'[c] = "idle"
    BY <1>1, <1>t
  <2>2. QED
    BY <1>k, <2>1 DEF CallerOK, NoOlder
<1>7. JobOK'
  <2>1. CASE c = "job"
    <3>1. collected' = <<>> /\ took'["job"] = 0 /\ pc'["job"] = "idle" /\ since' \in Nat
      BY <1>1, <1>t, <2>1
    <3>2. QED
      BY <3>1 DEF JobOK
  <2>2. CASE c # "job"
    <3>1. pc'["job"] = pc["job"] /\ took'["job"] = took["job"]
      BY <1>1, <1>t, <1>k, <2>2
    <3>2. QED
      BY <1>1, <1>v, <2>2, <3>1, JobStill
  <2>3. QED
    BY <2>1, <2>2
<1>8. RankingsExplained'
  BY <1>1, <1>v, RankingsStill
<1>9. QED
  BY <1>2, <1>3, <1>4, <1>5, <1>6, <1>7, <1>8 DEF CachesInv

\* The job looks its next table up.
LEMMA NextTableStep ==
    ASSUME CachesInv, NextTable
    PROVE  CachesInv'
<1> DEFINE k == Order[Len(collected) + 1]
<1>1. pc["job"] = "next" /\ Lookup("job", k)
  BY DEF NextTable
<1>2. k \in Tables
  <2>1. collected \in Seq(Versions) /\ Len(collected) \in Nat
    BY CacheTypes
  <2>2. Len(collected) < Len(Order) /\ Order \in Seq(Tables) /\ Len(Order) \in Nat
    BY <1>1, CacheConstants DEF CachesInv, JobOK
  <2>3. QED
    BY <2>1, <2>2
<1> HIDE DEF k
<1>3. k \in Keys /\ "job" \in Callers
  BY <1>2, CacheConstants
<1>4. QED
  BY <1>1, <1>2, <1>3, LookupStep

\* What the job says of an athlete when it has all tables.
LEMMA OfTable ==
    ASSUME CachesInv, pc["job"] = "save", NEW a, NEW t \in Tables
    PROVE  \E i \in DOMAIN collected :
               /\ Of(a)[t] = Says(t, collected[i], a)
               /\ collected[i] \in 0 .. version
               /\ past[collected[i]] < took["job"] + Hour + MaxTook
<1> DEFINE i == CHOOSE m \in DOMAIN Order : Order[m] = t
<1>1. i \in DOMAIN Order
  BY CacheConstants
<1>2. Of(a)[t] = Says(t, collected[i], a)
  BY DEF Of
<1> HIDE DEF i
<1>3. collected \in Seq(Versions) /\ Order \in Seq(Tables) /\ Len(collected) = Len(Order) /\ JobOK
  BY CacheTypes, CacheConstants DEF CachesInv, JobOK
<1>4. i \in DOMAIN collected
  BY <1>1, <1>3
<1>5. collected[i] \in Versions
  BY <1>3, <1>4
<1>6. collected[i] \in Nat /\ version \in Nat
  BY <1>5, CacheTypes DEF Versions
<1>7. collected[i] <= version /\ past[collected[i]] < took["job"] + Hour + MaxTook
  BY <1>3, <1>4 DEF JobOK
<1>8. collected[i] \in 0 .. version
  BY <1>6, <1>7
<1>9. QED
  BY <1>2, <1>4, <1>7, <1>8

\* The job writes what it has found.
LEMMA SaveStep ==
    ASSUME CachesInv, Save
    PROVE  CachesInv'
<1>t. /\ pc \in [Callers -> {"idle", "query", "store", "next", "save"}]
      /\ took \in [Callers -> Nat] /\ version \in Nat /\ since \in Nat
      /\ past \in [Versions -> Nat] /\ collected \in Seq(Versions)
      /\ rankings \in [Athletes -> [Tables -> Versions \cup {None}]]
  BY CacheTypes
<1>k. Hour \in Nat /\ MaxTook \in Nat /\ "job" \in Callers
  BY CacheConstants
<1>1. pc["job"] = "save" /\ UNCHANGED <<version, past, cache, key, read, took>>
  BY DEF Save
<1>v. version' \in Nat /\ version <= version' /\ past' = past
  BY <1>1, <1>t
<1>2. NewestInv'
  BY <1>1 DEF CachesInv, NewestInv
<1>3. \A k \in Keys : EntryOK(k)'
  BY <1>1, <1>v, <1>k, EntryStill
<1>j. took["job"] <= since /\ took["job"] \in Nat
  BY <1>t, <1>k DEF CachesInv, JobOK
<1>o. \A a \in Athletes, t \in Tables :
          \E v \in 0 .. version : Of(a)[t] = Says(t, v, a) /\ past[v] < took["job"] + Hour + MaxTook
  BY <1>1, OfTable
<1>p. \A v \in 0 .. version : past[v] \in Nat
  <2>1. version \in Versions
    BY CacheTypes
  <2>2. \A v \in 0 .. version : v \in Versions
    BY <2>1, <1>t, RowsAssumption DEF Versions
  <2>3. QED
    BY <1>t, <2>2
<1>4. CASE \E a \in Found : rankings' = [rankings EXCEPT ![a] = Saved(a)] /\ UNCHANGED <<collected, since, dropped, pc>>
  <2>1. PICK b \in Athletes : rankings' = [rankings EXCEPT ![b] = Of(b)]
    BY <1>4 DEF Found, Saved
  <2>2. UNCHANGED <<collected, since, dropped, pc>>
    BY <1>4
  <2>3. Of(b) \in [Tables -> Versions \cup {None}]
    <3>1. ASSUME NEW t \in Tables
          PROVE  Of(b)[t] \in Versions \cup {None}
      <4>1. PICK i \in DOMAIN collected : Of(b)[t] = Says(t, collected[i], b)
        BY <1>1, OfTable
      <4>2. collected[i] \in Versions
        BY <1>t
      <4>3. QED
        BY <4>1, <4>2 DEF Says
    <3>2. Of(b) = [t \in Tables |-> Of(b)[t]]
      BY DEF Of
    <3>3. QED
      BY <3>1, <3>2
  <2>4. CachesTypeOK'
    BY <1>1, <1>t, <2>1, <2>2, <2>3 DEF CachesInv, CachesTypeOK
  <2>5. \A q \in Callers : CallerOK(q)'
    BY <1>1, <1>v, <2>2, CallerStill
  <2>6. JobOK'
    BY <1>1, <1>v, <2>2, JobStill
  <2>7. RankingsExplained'
    <3>1. SUFFICES ASSUME since < Cap, NEW a \in Athletes \ dropped, NEW t \in Tables
                   PROVE  \E v \in 0 .. version : rankings'[a][t] = Says(t, v, a) /\ past[v] < since + Hour + MaxTook
      BY <1>1, <2>2 DEF RankingsExplained
    <3>2. CASE a # b
      <4>1. rankings'[a] = rankings[a]
        BY <1>t, <2>1, <3>2
      <4>2. QED
        BY <3>1, <4>1 DEF CachesInv, RankingsExplained
    <3>3. CASE a = b
      <4>1. rankings'[a] = Of(a)
        BY <1>t, <2>1, <3>3
      <4>2. PICK v \in 0 .. version : Of(a)[t] = Says(t, v, a) /\ past[v] < took["job"] + Hour + MaxTook
        BY <1>o
      <4>3. past[v] < since + Hour + MaxTook
        BY <1>j, <1>k, <1>p, <1>t, <4>2
      <4>4. QED
        BY <4>1, <4>2, <4>3
    <3>4. QED
      BY <3>2, <3>3
  <2>8. QED
    BY <1>2, <1>3, <2>4, <2>5, <2>6, <2>7 DEF CachesInv
<1>5. CASE /\ {a \in Found : rankings[a] # Saved(a)} = {}
           /\ pc' = [pc EXCEPT !["job"] = "idle"] /\ collected' = <<>> /\ rankings' = rankings
           /\ IF Found = {} THEN UNCHANGED <<since, dropped>>
              ELSE since' = took["job"] /\ dropped' = Athletes \ Found
  <2>1. pc' \in [Callers -> {"idle", "query", "store", "next", "save"}] /\ pc'["job"] = "idle"
    BY <1>t, <1>k, <1>5
  <2>2. since' \in Nat /\ took["job"] <= since'
    BY <1>t, <1>j, <1>5
  <2>3. CachesTypeOK'
    <3>1. collected' \in Seq(Versions)
      BY <1>5
    <3>2. QED
      BY <1>1, <1>5, <2>1, <2>2, <3>1 DEF CachesInv, CachesTypeOK
  <2>4. ASSUME NEW q \in Callers
        PROVE  CallerOK(q)'
    <3>1. CASE q # "job"
      <4>1. pc'[q] = pc[q]
        BY <1>t, <1>5, <3>1
      <4>2. QED
        BY <1>1, <1>v, <4>1, CallerStill
    <3>2. CASE q = "job"
      <4>1. read[q] = <<>> /\ took[q] <= MaxTook
        BY <1>1, <3>2 DEF CachesInv, CallerOK
      <4>2. QED
        BY <1>1, <2>1, <3>2, <4>1 DEF CallerOK, NoOlder
    <3>3. QED
      BY <3>1, <3>2
  <2>5. JobOK'
    <3>1. collected' = <<>> /\ took'["job"] <= since'
      BY <1>1, <1>5, <2>2
    <3>2. QED
      BY <2>1, <3>1 DEF JobOK
  <2>6. RankingsExplained'
    <3>1. CASE Found = {}
      BY <1>5, <1>v, <3>1, RankingsStill
    <3>2. CASE Found # {}
      <4>1. since' = took["job"] /\ dropped' = Athletes \ Found /\ rankings' = rankings
        BY <1>5, <3>2
      <4>2. SUFFICES ASSUME NEW a \in Athletes \ dropped', NEW t \in Tables
                     PROVE  \E v \in 0 .. version : rankings[a][t] = Says(t, v, a) /\ past[v] < took["job"] + Hour + MaxTook
        BY <1>1, <4>1 DEF RankingsExplained
      <4>3. rankings[a] = Of(a)
        BY <1>5, <4>1 DEF Saved
      <4>4. QED
        BY <1>o, <4>3
    <3>3. QED
      BY <3>1, <3>2
  <2>7. QED
    BY <1>2, <1>3, <2>3, <2>4, <2>5, <2>6 DEF CachesInv
<1>6. QED
  BY <1>4, <1>5 DEF Save, Goto

\* A tick: everything that counts, counts at most one more.
LEMMA TickStep ==
    ASSUME CachesInv, Tick
    PROVE  CachesInv'
<1>t. /\ pc \in [Callers -> {"idle", "query", "store", "next", "save"}]
      /\ took \in [Callers -> Nat] /\ version \in Nat /\ since \in Nat /\ read \in [Callers -> Seq(Versions)]
      /\ past \in [Versions -> Nat] /\ collected \in Seq(Versions)
      /\ cache \in [Keys -> Entries \cup {None}] /\ version \in Versions
  BY CacheTypes
<1>k. /\ Hour \in Nat /\ MaxTook \in Nat /\ Hour > 0 /\ "job" \in Callers
      /\ Cap \in Nat /\ Cap >= MaxTook
  BY CacheConstants
<1>1. /\ \A q \in Callers : pc[q] # "idle" => took[q] < MaxTook
      /\ past' = [v \in Versions |-> IF v < version THEN Lesser(past[v] + 1, Cap) ELSE 0]
      /\ cache' = [k \in Keys |-> IF cache[k] = None THEN None
                                    ELSE IF Expired(k) THEN None ELSE [cache[k] EXCEPT !.age = @ + 1]]
      /\ since' = Lesser(since + 1, Cap)
      /\ UNCHANGED <<version, key, read, collected, rankings, dropped>>
  BY DEF Tick
<1>2. ASSUME NEW q \in Callers
      PROVE  \/ pc'[q] = pc[q] /\ pc[q] # "idle" /\ took'[q] = took[q] + 1 /\ took[q] < MaxTook
             \/ pc[q] = "idle" /\ took'[q] = 0 /\ (pc'[q] = "idle" \/ (q = "job" /\ pc'[q] = "next"))
  <2>1. /\ pc'[q] = IF q = "job" /\ JobDue THEN "next" ELSE pc[q]
        /\ took'[q] = IF q = "job" /\ JobDue THEN 0 ELSE IF pc[q] = "idle" THEN 0 ELSE took[q] + 1
    BY <1>t, <1>k DEF Tick
  <2>2. JobDue => pc["job"] = "idle"
    BY DEF JobDue
  <2>3. QED
    BY <1>1, <2>1, <2>2
<1>3. ASSUME NEW v \in Versions
      PROVE  past'[v] \in Nat /\ past'[v] <= past[v] + 1 /\ (v >= version => past'[v] = 0)
  <2>1. past'[v] = IF v < version THEN Lesser(past[v] + 1, Cap) ELSE 0
    BY <1>1
  <2>2. v \in Nat /\ past[v] \in Nat
    BY <1>t DEF Versions
  <2>3. QED
    BY <1>k, <1>t, <2>1, <2>2 DEF Lesser
<1>4. since' \in Nat /\ (since' = since + 1 \/ since' = Cap)
  BY <1>1, <1>t, <1>k DEF Lesser
<1>5. \A s \in Seq(Versions), n \in Nat : NoOlder(s, n) => \A i \in DOMAIN s : s[i] <= version' /\ past'[s[i]] <= n + 1
  <2>1. ASSUME NEW s \in Seq(Versions), NEW n \in Nat, NoOlder(s, n), NEW i \in DOMAIN s
        PROVE  s[i] <= version' /\ past'[s[i]] <= n + 1
    <3>1. s[i] \in Versions /\ s[i] <= version /\ past[s[i]] \in Nat /\ past[s[i]] <= n
      BY <1>t, <2>1, Older
    <3>2. past'[s[i]] \in Nat /\ past'[s[i]] <= past[s[i]] + 1
      BY <1>3, <3>1
    <3>3. QED
      BY <1>1, <3>1, <3>2
  <2>2. QED
    BY <2>1
<1>6. ASSUME NEW k \in Keys, cache'[k] # None
      PROVE  /\ cache[k] \in Entries /\ cache'[k] \in Entries
             /\ cache'[k].value = cache[k].value /\ cache'[k].age = cache[k].age + 1 /\ ~ Expired(k)
  <2>1. cache[k] # None /\ ~ Expired(k) /\ cache'[k] = [cache[k] EXCEPT !.age = @ + 1]
    BY <1>1, <1>6
  <2>2. cache[k] \in Entries
    BY <1>t, <2>1
  <2>3. QED
    BY <2>1, <2>2 DEF Entries
<1>7. CachesTypeOK'
  <2>1. past' \in [Versions -> Nat]
    BY <1>1, <1>3
  <2>2. cache' \in [Keys -> Entries \cup {None}]
    <3>1. \A k \in Keys : cache'[k] \in Entries \cup {None}
      BY <1>6
    <3>2. QED
      BY <1>1, <3>1
  <2>3. pc' \in [Callers -> {"idle", "query", "store", "next", "save"}]
    <3>1. pc' = [pc EXCEPT !["job"] = IF JobDue THEN "next" ELSE @]
      BY DEF Tick
    <3>2. QED
      BY <1>t, <3>1
  <2>4. took' \in [Callers -> Nat]
    <3>1. took' = [q \in Callers |-> took'[q]]
      BY DEF Tick
    <3>2. ASSUME NEW q \in Callers
          PROVE  took'[q] \in Nat
      <4>1. took[q] \in Nat
        BY <1>t
      <4>2. took'[q] = took[q] + 1 \/ took'[q] = 0
        BY <1>2
      <4>3. QED
        BY <4>1, <4>2
    <3>3. QED
      BY <3>1, <3>2
  <2>5. QED
    BY <1>1, <1>4, <2>1, <2>2, <2>3, <2>4 DEF CachesInv, CachesTypeOK
<1>8. NewestInv'
  BY <1>1, <1>3 DEF NewestInv
<1>9. ASSUME NEW q \in Callers
      PROVE  CallerOK(q)'
  <2>1. CallerOK(q) /\ read'[q] = read[q] /\ key'[q] = key[q] /\ read[q] \in Seq(Versions) /\ took[q] \in Nat
    BY <1>1, <1>t DEF CachesInv
  <2>2. CASE pc'[q] = pc[q] /\ took'[q] = took[q] + 1 /\ took[q] < MaxTook
    <3>1. \A i \in DOMAIN read'[q] : read'[q][i] <= version' /\ past'[read'[q][i]] <= took'[q]
      BY <1>5, <2>1, <2>2 DEF CallerOK
    <3>2. took'[q] <= MaxTook
      BY <1>k, <2>1, <2>2
    <3>3. QED
      BY <2>1, <2>2, <3>1, <3>2 DEF CallerOK, NoOlder
  <2>3. CASE pc[q] = "idle" /\ took'[q] = 0 /\ (pc'[q] = "idle" \/ (q = "job" /\ pc'[q] = "next"))
    <3>1. read'[q] = <<>>
      BY <2>1, <2>3 DEF CallerOK
    <3>2. QED
      BY <1>k, <2>3, <3>1 DEF CallerOK, NoOlder
  <2>4. QED
    BY <1>2, <2>2, <2>3
<1>10. ASSUME NEW k \in Keys
       PROVE  EntryOK(k)'
  <2>1. CASE cache'[k] # None
    <3>1. /\ cache[k] \in Entries /\ cache'[k].value = cache[k].value /\ cache'[k].age = cache[k].age + 1
          /\ ~ (cache[k].age + 1 >= Lifetime(k))
      BY <1>6, <2>1 DEF Expired
    <3>2. cache[k] # None
      BY <1>1, <2>1
    <3>3. EntryOK(k)
      BY DEF CachesInv
    <3>4. cache[k].value \in Seq(Versions) /\ cache[k].age \in Nat
      BY <3>1 DEF Entries
    <3>5. Lifetime(k) \in Nat
      BY CacheConstants
    <3>6. /\ Len(cache'[k].value) = Statements(k) /\ cache'[k].age < Lifetime(k)
      BY <3>1, <3>2, <3>3, <3>4, <3>5 DEF EntryOK
    <3>7. \A i \in DOMAIN cache[k].value :
             cache[k].value[i] <= version' /\ past'[cache[k].value[i]] <= cache[k].age + MaxTook + 1
      <4>1. NoOlder(cache[k].value, cache[k].age + MaxTook) /\ cache[k].age + MaxTook \in Nat
        BY <1>k, <3>2, <3>3, <3>4 DEF EntryOK
      <4>2. QED
        BY <1>5, <3>4, <4>1
    <3>8. cache[k].age + MaxTook + 1 = cache'[k].age + MaxTook
      BY <1>k, <3>1, <3>4
    <3>9. QED
      BY <3>1, <3>6, <3>7, <3>8 DEF EntryOK, NoOlder
  <2>2. CASE cache'[k] = None
    BY <2>2 DEF EntryOK
  <2>3. QED
    BY <2>1, <2>2
<1>11. JobOK'
  <2>1. JobOK
    BY DEF CachesInv
  <2>2. CASE pc'["job"] = pc["job"] /\ pc["job"] # "idle" /\ took'["job"] = took["job"] + 1 /\ took["job"] < MaxTook
    <3>1. ASSUME NEW i \in DOMAIN collected
          PROVE  collected[i] <= version' /\ past'[collected[i]] < took'["job"] + Hour + MaxTook
      <4>1. collected[i] \in Versions /\ took["job"] \in Nat
        BY <1>t, <1>k
      <4>2. collected[i] <= version /\ past[collected[i]] < took["job"] + Hour + MaxTook
        BY <2>1 DEF JobOK
      <4>3. past'[collected[i]] \in Nat /\ past'[collected[i]] <= past[collected[i]] + 1 /\ past[collected[i]] \in Nat
        BY <1>3, <1>t, <4>1
      <4>4. QED
        BY <1>1, <1>k, <2>2, <4>1, <4>2, <4>3
    <3>2. took["job"] <= since /\ took["job"] \in Nat
      BY <1>t, <1>k, <2>1 DEF JobOK
    <3>3. took'["job"] <= since'
      BY <1>t, <1>k, <1>4, <2>2, <3>2
    <3>4. QED
      BY <1>1, <2>1, <2>2, <3>1, <3>3 DEF JobOK
  <2>3. CASE pc["job"] = "idle" /\ took'["job"] = 0 /\ pc'["job"] \in {"idle", "next"}
    <3>1. collected' = <<>>
      BY <1>1, <2>1, <2>3 DEF JobOK
    <3>2. Len(collected') < Len(Order) /\ 0 <= since'
      BY <1>4, <3>1, CacheConstants
    <3>3. QED
      BY <2>3, <3>1, <3>2 DEF JobOK
  <2>4. QED
    BY <1>2, <1>k, <2>2, <2>3
<1>12. RankingsExplained'
  <2>1. SUFFICES ASSUME since' < Cap, NEW a \in Athletes \ dropped, NEW t \in Tables
                 PROVE  \E v \in 0 .. version : rankings[a][t] = Says(t, v, a) /\ past'[v] < since' + Hour + MaxTook
    BY <1>1 DEF RankingsExplained
  <2>2. since' = since + 1 /\ since < Cap
    BY <1>t, <1>k, <1>4, <2>1
  <2>3. PICK v \in 0 .. version : rankings[a][t] = Says(t, v, a) /\ past[v] < since + Hour + MaxTook
    BY <2>2 DEF CachesInv, RankingsExplained
  <2>4. v \in Versions
    BY <1>t, RowsAssumption DEF Versions
  <2>5. past'[v] \in Nat /\ past'[v] <= past[v] + 1 /\ past[v] \in Nat
    BY <1>3, <1>t, <2>4
  <2>6. past'[v] < since' + Hour + MaxTook
    BY <1>k, <1>t, <2>2, <2>3, <2>5
  <2>7. QED
    BY <2>3, <2>6
<1>13. QED
  BY <1>7, <1>8, <1>9, <1>10, <1>11, <1>12 DEF CachesInv

\* Writes: a new version is the newest.
LEMMA ChangeStep ==
    ASSUME CachesInv, Change \/ UNCHANGED vars
    PROVE  CachesInv'
<1>t. version \in Nat /\ version \in Versions /\ past \in [Versions -> Nat]
  BY CacheTypes
<1>k. MaxTook \in Nat
  BY CacheConstants
<1>1. UNCHANGED <<past, cache, pc, key, read, took, collected, rankings, since, dropped>>
  BY DEF Change, vars, jobVars
<1>2. version' \in Versions /\ version' \in Nat /\ version <= version'
  BY <1>t, RowsAssumption DEF Change, vars, jobVars, Versions
<1>3. CachesTypeOK'
  BY <1>1, <1>2 DEF CachesInv, CachesTypeOK
<1>4. NewestInv'
  <2>1. \A v \in Versions : v >= version' => v >= version
    BY <1>t, <1>2 DEF Versions
  <2>2. QED
    BY <1>1, <2>1 DEF CachesInv, NewestInv
<1>5. \A q \in Callers : CallerOK(q)'
  BY <1>1, <1>2, CallerStill
<1>6. \A k \in Keys : EntryOK(k)'
  BY <1>1, <1>2, <1>k, EntryStill
<1>7. JobOK'
  BY <1>1, <1>2, JobStill
<1>8. RankingsExplained'
  BY <1>1, <1>2, RankingsStill
<1>9. QED
  BY <1>3, <1>4, <1>5, <1>6, <1>7, <1>8 DEF CachesInv

LEMMA CachesInvariance == Spec => []CachesInv
<1>1. CachesInv /\ [Next]_(vars) => CachesInv'
  <2> SUFFICES ASSUME CachesInv, [Next]_(vars)
               PROVE  CachesInv'
    OBVIOUS
  <2>1. ASSUME NEW r \in Requests, Ask(r)
        PROVE  CachesInv'
    <3>1. r \in Callers /\ r # "job" /\ pc[r] = "idle"
      BY <2>1, CacheConstants DEF Callers, Ask
    <3>2. QED
      BY <2>1, <3>1, LookupStep DEF Ask
  <2>2. CASE \E c \in Callers : Query(c) \/ Store(c) \/ Fail(c)
    BY <2>2, QueryStep, StoreStep, FailStep
  <2>3. CASE NextTable
    BY <2>3, NextTableStep
  <2>4. CASE Save
    BY <2>4, SaveStep
  <2>5. CASE Tick
    BY <2>5, TickStep
  <2>6. CASE Change \/ UNCHANGED vars
    BY <2>6, ChangeStep
  <2>7. QED
    BY <2>1, <2>2, <2>3, <2>4, <2>5, <2>6 DEF Next
<1>2. QED
  BY CachesInit, <1>1, PTL DEF Spec

\* Nothing is answered that was overtaken for longer than an entry lives and a fill lasts.
THEOREM ServesTheorem == Spec => []ServesRecent
<1>1. ASSUME CachesInv
      PROVE  ServesRecent
  <2>k. MaxTook \in Nat
    BY CacheConstants
  <2>t. past \in [Versions -> Nat] /\ cache \in [Keys -> Entries \cup {None}]
    BY <1>1, CacheTypes
  <2>1. ASSUME NEW k \in Keys, cache[k] # None, NEW n \in 1 .. Statements(k)
        PROVE  past[cache[k].value[n]] < Lifetime(k) + MaxTook
    <3>1. EntryOK(k)
      BY <1>1 DEF CachesInv
    <3>2. cache[k].value \in Seq(Versions) /\ cache[k].age \in Nat
      BY <2>t, <2>1 DEF Entries
    <3>3. /\ Len(cache[k].value) = Statements(k) /\ cache[k].age < Lifetime(k)
          /\ NoOlder(cache[k].value, cache[k].age + MaxTook) /\ cache[k].age + MaxTook \in Nat
      BY <2>1, <2>k, <3>1, <3>2 DEF EntryOK
    <3>4. n \in DOMAIN cache[k].value
      BY <3>2, <3>3
    <3>5. past[cache[k].value[n]] \in Nat /\ past[cache[k].value[n]] <= cache[k].age + MaxTook
      BY <2>t, <3>2, <3>3, <3>4, Older
    <3>6. Lifetime(k) \in Nat
      BY CacheConstants
    <3>7. QED
      BY <2>k, <3>2, <3>3, <3>5, <3>6
  <2>2. \A c \in Callers : \A n \in DOMAIN read[c] : past[read[c][n]] <= took[c]
    BY <1>1 DEF CachesInv, CallerOK, NoOlder
  <2>3. QED
    BY <2>1, <2>2 DEF ServesRecent
<1>2. QED
  BY <1>1, CachesInvariance, PTL

\* The rankings of an athlete say what the tables said when the last job began, or not
\* longer before than an entry lives and a fill lasts.
THEOREM RankingsTheorem == Spec => []RankingsExplained
<1>1. CachesInv => RankingsExplained
  BY DEF CachesInv
<1>2. QED
  BY <1>1, CachesInvariance, PTL
=============================================================================

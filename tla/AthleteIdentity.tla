--------------------------- MODULE AthleteIdentity ---------------------------
(***************************************************************************)
(* Who is the athlete of a source row: what a row and an athlete of the    *)
(* same person say of each other, what may be filled in, and what is then  *)
(* recommended.  No state.                                                 *)
(*                                                                         *)
(* A name is as somebody wrote it: the person that its normalised form     *)
(* names, the text that a query compares, which is the name in capitals    *)
(* with no blanks around it, and whether there are such blanks.  Any other *)
(* text is its normalised form, None if that is empty.  A team is the      *)
(* set of its words and a form that tells apart two teams written with the *)
(* same words; a marker of several words counts as one.                    *)
(***************************************************************************)
EXTENDS Integers

CONSTANTS
    Names,                              \* last name, first name, birth year, as written
    Genders, Cities, Teams, Licenses,
    ClubMarkers, RegionMarkers, GenericMarkers, NoiseWords,
    None

ASSUME TextAssumption ==
    /\ None \notin Names \cup Genders \cup Cities \cup Teams \cup Licenses
    /\ \A t \in Teams : "words" \in DOMAIN t

\* One person may be written in several ways, no text is of two persons.
ASSUME NamesAssumption ==
    /\ \A n \in Names : {"person", "text", "padded"} \subseteq DOMAIN n
    /\ \A n, m \in Names : n.text = m.text => n.person = m.person

Optional(S) == S \cup {None}

\* A row of a protocol and a row of athletes.
SourceRow == [who : Names, gender : Optional(Genders), city : Optional(Cities),
              team : Optional(Teams), license : Optional(Licenses)]
Athlete   == [who : Names, gender : Genders, city : Optional(Cities),
              club : Optional(Teams), license : Optional(Licenses)]

\* A field that is not in a patch is None there.
Patch == [city : Optional(Cities), club : Optional(Teams), license : Optional(Licenses)]
NoPatch == [city |-> None, club |-> None, license |-> None]

-----------------------------------------------------------------------------

WordsOf(team) == IF team = None THEN {} ELSE team.words

Meaningful(team) == WordsOf(team) \cap ClubMarkers # {}
Weak(team)       == team # None /\ ~Meaningful(team)

\* The markers of a club come first.
RegionOrGeneric(team) ==
    /\ ~Meaningful(team)
    /\ WordsOf(team) \cap (RegionMarkers \cup GenericMarkers) # {}

Informative(team) == WordsOf(team) \ NoiseWords

\* The query strips the name of the row and compares it with the name as it is stored.
SpeltAs(s, a) == s.who.text = a.who.text /\ ~a.who.padded

\* Found by the query, whatever else is known of the athlete.
Listed(s, a) ==
    /\ SpeltAs(s, a)
    /\ s.gender \in {None, a.gender}

SameCandidate(s, a) ==
    /\ s.who.person = a.who.person
    /\ s.gender \in {None, a.gender}

\* What the rows of one request that share an answer have in common.
CacheKey(s) == <<s.who.person, s.gender, s.city, s.team, s.license>>

CanEnrich(existing, source) == source # None /\ existing = None

CanEnrichClub(existing, source) ==
    /\ Meaningful(source)
    /\ existing = None \/ Weak(existing)

\* Mutated: a city is suggested only where no club is.
SuggestedPatchEither(s, a) ==
    LET club == IF CanEnrichClub(a.club, s.team) THEN s.team ELSE None IN
    [city    |-> IF club = None /\ CanEnrich(a.city, s.city) THEN s.city ELSE None,
     club    |-> club,
     license |-> IF CanEnrich(a.license, s.license) THEN s.license ELSE None]

SuggestedPatch(s, a) ==
    [city    |-> IF CanEnrich(a.city, s.city) THEN s.city ELSE None,
     club    |-> IF CanEnrichClub(a.club, s.team) THEN s.team ELSE None,
     license |-> IF CanEnrich(a.license, s.license) THEN s.license ELSE None]

\* The part of a patch that is written to an athlete.
SafePatch(patch, a) ==
    [city    |-> IF CanEnrich(a.city, patch.city) THEN patch.city ELSE None,
     club    |-> IF CanEnrichClub(a.club, patch.club) THEN patch.club ELSE None,
     license |-> IF CanEnrich(a.license, patch.license) THEN patch.license ELSE None]

Patched(a, patch) ==
    [a EXCEPT !.city    = IF patch.city = None THEN @ ELSE patch.city,
              !.club    = IF patch.club = None THEN @ ELSE patch.club,
              !.license = IF patch.license = None THEN @ ELSE patch.license]

-----------------------------------------------------------------------------
(* The signals of score_candidate.                                         *)

CityMissing(s, a)  == s.city = None \/ a.city = None
CityMatch(s, a)    == ~CityMissing(s, a) /\ s.city = a.city
CityConflict(s, a) == ~CityMissing(s, a) /\ s.city # a.city

ClubMissing(s, a) == s.team = None \/ a.club = None
ClubExact(s, a)   == s.team # None /\ s.team = a.club

SourceMoreSpecific(s, a)   == CanEnrichClub(a.club, s.team)
ExistingMoreSpecific(s, a) == Weak(s.team) /\ Meaningful(a.club)

ClubCompatible(s, a) ==
    \/ ClubExact(s, a)
    \/ SourceMoreSpecific(s, a)
    \/ ExistingMoreSpecific(s, a)
    \/ Informative(s.team) \cap Informative(a.club) # {}

ClubConflict(s, a) ==
    /\ Meaningful(s.team) /\ Meaningful(a.club)
    /\ ~ClubCompatible(s, a)

\* A region or a national team says little about the city.
MeaningfulConflict(s, a) ==
    \/ ClubConflict(s, a)
    \/ CityConflict(s, a) /\ ~RegionOrGeneric(s.team)

\* Mutated: a conflict of cities adds where it should take away.
CityPointsAdded(s, a) ==
    IF CityMissing(s, a) THEN 10
    ELSE IF CityMatch(s, a) THEN 120
    ELSE IF RegionOrGeneric(s.team) THEN 60 ELSE 160

\* Points for what row and athlete agree on, or could.
CityPoints(s, a) ==
    IF CityMissing(s, a) THEN 10
    ELSE IF CityMatch(s, a) THEN 120
    ELSE IF RegionOrGeneric(s.team) THEN -60 ELSE -160

ClubPoints(s, a) ==
    IF s.team = None THEN IF a.club = None THEN 5 ELSE 10
    ELSE IF ClubExact(s, a) THEN 180
    ELSE IF SourceMoreSpecific(s, a) THEN 90
    ELSE IF ExistingMoreSpecific(s, a) THEN 50
    ELSE IF Informative(s.team) \cap Informative(a.club) # {} THEN 130
    ELSE IF ClubConflict(s, a) THEN -220 ELSE 20

Points(condition, n) == IF condition THEN n ELSE 0

Score(s, a) ==
    CityPoints(s, a) + ClubPoints(s, a)
    + Points(CanEnrich(a.city, s.city), 20)
    + Points(CanEnrichClub(a.club, s.team), 25)
    + Points(CanEnrich(a.license, s.license), 10)

-----------------------------------------------------------------------------
(* The decision of decide_identity.                                        *)

SafeMatch(s, a) ==
    /\ ~CityConflict(s, a) /\ ~ClubConflict(s, a)
    /\ ClubCompatible(s, a) \/ ClubMissing(s, a)

StrictMatch(s, a) ==
    /\ CityMatch(s, a)
    /\ ~ClubConflict(s, a) /\ ClubCompatible(s, a)
    /\ ~SourceMoreSpecific(s, a) /\ ~ExistingMoreSpecific(s, a)

\* Of the only candidate.
DecideOne(s, a) ==
    IF MeaningfulConflict(s, a) THEN "create_new"
    ELSE IF SuggestedPatch(s, a) # NoPatch /\ SafeMatch(s, a) THEN "enrich_existing"
    ELSE IF StrictMatch(s, a) THEN "match_existing"
    ELSE "manual_review"

\* Mutated: a meaningful conflict decides before the number of candidates does.
DecideConflictFirst(s, table, candidates) ==
    IF candidates = {} \/ \E a \in candidates : MeaningfulConflict(s, table[a])
    THEN "create_new"
    ELSE IF \E a, b \in candidates : a # b THEN "manual_review"
    ELSE DecideOne(s, table[CHOOSE a \in candidates : TRUE])

\* Of the athletes in table, a function, whose ids are candidates.
Decide(s, table, candidates) ==
    IF candidates = {} THEN "create_new"
    ELSE IF \E a, b \in candidates : a # b THEN "manual_review"
    ELSE DecideOne(s, table[CHOOSE a \in candidates : TRUE])

\* The confidence of confidence_from_signals for an only candidate.
Confidence(s, a) ==
    IF CityConflict(s, a) \/ ClubConflict(s, a) THEN "low"
    ELSE IF StrictMatch(s, a) THEN "high"
    ELSE IF SuggestedPatch(s, a) # NoPatch \/ CityMissing(s, a) \/ ClubMissing(s, a)
         THEN "medium" ELSE "low"
=============================================================================

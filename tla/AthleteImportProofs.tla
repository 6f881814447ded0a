------------------------- MODULE AthleteImportProofs -------------------------
(***************************************************************************)
(* Proofs about AthleteIdentity and AthleteImport: what an accepted patch  *)
(* settles stays settled, so a row that was imported stays recognised; and *)
(* bulk-update writes what the preview has answered unless it was raced.   *)
(***************************************************************************)
EXTENDS AthleteImport, FiniteSetTheorems, WellFoundedInduction, TLAPS

-----------------------------------------------------------------------------
(* Rows and athletes.                                                      *)

\* An athlete has all that a row says of its city and its club.
Settled(s, a) ==
    /\ SameCandidate(s, a)
    /\ s.city = None \/ a.city = s.city
    /\ Meaningful(s.team) =>
          /\ Meaningful(a.club)
          /\ a.club = s.team \/ Informative(s.team) \cap Informative(a.club) # {}

\* No team is not a club.
LEMMA NoneIsNoClub == ~Meaningful(None)
BY DEF Meaningful, WordsOf

\* The parts of a patched athlete.
LEMMA PatchedFields ==
    ASSUME NEW a \in Athlete, NEW p \in Patch
    PROVE  /\ Patched(a, p) \in Athlete
           /\ Patched(a, p).who = a.who /\ Patched(a, p).gender = a.gender
           /\ Patched(a, p).city = IF p.city = None THEN a.city ELSE p.city
           /\ Patched(a, p).club = IF p.club = None THEN a.club ELSE p.club
           /\ Patched(a, p).license = IF p.license = None THEN a.license ELSE p.license
<1>1. /\ p.city \in Optional(Cities) /\ p.club \in Optional(Teams)
      /\ p.license \in Optional(Licenses)
  BY DEF Patch
<1>2. /\ a.city \in Optional(Cities) /\ a.club \in Optional(Teams)
      /\ a.license \in Optional(Licenses)
  BY DEF Athlete
<1>3. QED
  BY <1>1, <1>2 DEF Patched, Athlete

\* No patch is a patch.
LEMMA EmptyPatch == NoPatch \in Patch
BY DEF NoPatch, Patch, Optional

\* A suggested patch and the safe part of any patch are patches.
LEMMA PatchTypes ==
    ASSUME NEW s \in SourceRow, NEW a \in Athlete, NEW p \in Patch
    PROVE  SuggestedPatch(s, a) \in Patch /\ SafePatch(p, a) \in Patch
<1>1. /\ s.city \in Optional(Cities) /\ s.team \in Optional(Teams)
      /\ s.license \in Optional(Licenses)
  BY DEF SourceRow
<1>2. /\ p.city \in Optional(Cities) /\ p.club \in Optional(Teams)
      /\ p.license \in Optional(Licenses)
  BY DEF Patch
<1>3. None \in Optional(Cities) /\ None \in Optional(Teams) /\ None \in Optional(Licenses)
  BY DEF Optional
<1>4. SuggestedPatch(s, a) \in Patch
  BY <1>1, <1>3 DEF SuggestedPatch, Patch
<1>5. SafePatch(p, a) \in Patch
  BY <1>2, <1>3 DEF SafePatch, Patch
<1>6. QED
  BY <1>4, <1>5

\* The preview and the application of decisions agree: all of what
\* build_suggested_patch suggests for an athlete is safe for that athlete
\* (build_suggested_patch and safe_patch_payload).
THEOREM SuggestionIsSafe ==
    ASSUME NEW s \in SourceRow, NEW a \in Athlete
    PROVE  SafePatch(SuggestedPatch(s, a), a) = SuggestedPatch(s, a)
<1> DEFINE p == SuggestedPatch(s, a)
<1>1. /\ p.city = IF CanEnrich(a.city, s.city) THEN s.city ELSE None
      /\ p.club = IF CanEnrichClub(a.club, s.team) THEN s.team ELSE None
      /\ p.license = IF CanEnrich(a.license, s.license) THEN s.license ELSE None
  BY DEF SuggestedPatch
<1>2. ~CanEnrich(a.city, None) /\ ~CanEnrich(a.license, None) /\ ~CanEnrichClub(a.club, None)
  BY NoneIsNoClub DEF CanEnrich, CanEnrichClub
<1>3. /\ (IF CanEnrich(a.city, p.city) THEN p.city ELSE None) = p.city
      /\ (IF CanEnrichClub(a.club, p.club) THEN p.club ELSE None) = p.club
      /\ (IF CanEnrich(a.license, p.license) THEN p.license ELSE None) = p.license
  BY <1>1, <1>2
<1>4. SafePatch(p, a) = [city |-> p.city, club |-> p.club, license |-> p.license]
  BY <1>3 DEF SafePatch
<1>5. p = [city |-> p.city, club |-> p.club, license |-> p.license]
  BY DEF SuggestedPatch
<1>6. QED
  BY <1>4, <1>5

\* A row is settled by the athlete that is created from it.
LEMMA CreatedSettles ==
    ASSUME NEW s \in SourceRow, CanCreate(s)
    PROVE  Created(s) \in Athlete /\ Settled(s, Created(s))
<1>1. /\ s.who \in Names /\ s.gender \in Genders /\ s.city \in Optional(Cities)
      /\ s.team \in Optional(Teams) /\ s.license \in Optional(Licenses)
  BY DEF SourceRow, CanCreate, Optional
<1>2. QED
  BY <1>1 DEF Created, Athlete, Settled, SameCandidate

\* ... and by one that is matched or enriched, once it is patched.
LEMMA AcceptedSettles ==
    ASSUME NEW s \in SourceRow, NEW a \in Athlete, SameCandidate(s, a),
           DecideOne(s, a) \in {"match_existing", "enrich_existing"}
    PROVE  Settled(s, Patched(a, SuggestedPatch(s, a)))
<1> DEFINE p == SuggestedPatch(s, a)
           b == Patched(a, p)
<1>1. p \in Patch
  BY PatchTypes, EmptyPatch
<1>2. /\ b.who = a.who /\ b.gender = a.gender
      /\ b.city = IF p.city = None THEN a.city ELSE p.city
      /\ b.club = IF p.club = None THEN a.club ELSE p.club
  BY <1>1, PatchedFields
<1>3. /\ p.city = IF CanEnrich(a.city, s.city) THEN s.city ELSE None
      /\ p.club = IF CanEnrichClub(a.club, s.team) THEN s.team ELSE None
  BY DEF SuggestedPatch
<1>4. SafeMatch(s, a) \/ StrictMatch(s, a)
  BY DEF DecideOne
<1>5. ~CityConflict(s, a) /\ ~ClubConflict(s, a)
  BY <1>4 DEF SafeMatch, StrictMatch, CityMatch, CityConflict
<1>6. s.city = None \/ b.city = s.city
  BY <1>2, <1>3, <1>5 DEF CanEnrich, CityConflict, CityMissing
<1>7. ASSUME Meaningful(s.team)
      PROVE  Meaningful(b.club) /\ (b.club = s.team \/ Informative(s.team) \cap Informative(b.club) # {})
  <2>1. s.team # None
    BY <1>7, NoneIsNoClub
  <2>2. CASE CanEnrichClub(a.club, s.team)
    BY <1>2, <1>3, <1>7, <2>1, <2>2
  <2>3. CASE ~CanEnrichClub(a.club, s.team)
    <3>1. Meaningful(a.club) /\ b.club = a.club
      BY <1>2, <1>3, <1>7, <2>3 DEF CanEnrichClub, Weak
    <3>2. ClubCompatible(s, a)
      BY <1>5, <1>7, <3>1 DEF ClubConflict
    <3>3. ClubExact(s, a) \/ Informative(s.team) \cap Informative(a.club) # {}
      BY <1>7, <2>3, <3>2 DEF ClubCompatible, SourceMoreSpecific, ExistingMoreSpecific, Weak
    <3>4. QED
      BY <3>1, <3>3 DEF ClubExact
  <2>4. QED
    BY <2>2, <2>3
<1>8. SameCandidate(s, b)
  BY <1>2 DEF SameCandidate
<1>9. QED
  BY <1>6, <1>7, <1>8 DEF Settled

\* Nobody advises to create what is settled.
LEMMA SettledIsNotNew ==
    ASSUME NEW s, NEW a, Settled(s, a)
    PROVE  DecideOne(s, a) # "create_new"
<1>1. ~CityConflict(s, a)
  BY DEF Settled, CityConflict, CityMissing
<1>2. ~ClubConflict(s, a)
  <2>1. SUFFICES ASSUME Meaningful(s.team), Meaningful(a.club) PROVE ClubCompatible(s, a)
    BY DEF ClubConflict
  <2>2. s.team # None
    BY <2>1, NoneIsNoClub
  <2>3. QED
    BY <2>1, <2>2 DEF Settled, ClubCompatible, ClubExact
<1>3. QED
  BY <1>1, <1>2 DEF DecideOne, MeaningfulConflict

\* What loses nothing stays settled, and so does what a patch has yet to settle.
LEMMA SettledStays ==
    ASSUME NEW s, NEW old, NEW new, ~Loses(old, new), Settled(s, old)
    PROVE  Settled(s, new)
BY DEF Loses, Settled, SameCandidate

LEMMA PatchStillSettles ==
    ASSUME NEW s, NEW p \in Patch, NEW old \in Athlete, NEW new \in Athlete,
           ~Loses(old, new), Settled(s, Patched(old, p))
    PROVE  Settled(s, Patched(new, p))
<1>1. ~Loses(Patched(old, p), Patched(new, p))
  BY PatchedFields DEF Loses
<1>2. QED
  BY <1>1, SettledStays

\* A row whose patch has been written asks for no other and creates nothing:
\* deciding again for the same row is a match or a review (decide_identity).
THEOREM EnrichmentConverges ==
    ASSUME NEW s \in SourceRow, NEW a \in Athlete, SameCandidate(s, a),
           DecideOne(s, a) = "enrich_existing"
    PROVE  DecideOne(s, Patched(a, SuggestedPatch(s, a))) \in {"match_existing", "manual_review"}
<1> DEFINE p == SuggestedPatch(s, a)
           b == Patched(a, p)
<1>1. p \in Patch
  BY PatchTypes, EmptyPatch
<1>2. /\ b.city = IF p.city = None THEN a.city ELSE p.city
      /\ b.club = IF p.club = None THEN a.club ELSE p.club
      /\ b.license = IF p.license = None THEN a.license ELSE p.license
  BY <1>1, PatchedFields
<1>3. /\ p.city = IF CanEnrich(a.city, s.city) THEN s.city ELSE None
      /\ p.club = IF CanEnrichClub(a.club, s.team) THEN s.team ELSE None
      /\ p.license = IF CanEnrich(a.license, s.license) THEN s.license ELSE None
  BY DEF SuggestedPatch
<1>4. ~CanEnrich(b.city, s.city) /\ ~CanEnrich(b.license, s.license)
  BY <1>2, <1>3 DEF CanEnrich
<1>5. ~CanEnrichClub(b.club, s.team)
  <2>1. CASE CanEnrichClub(a.club, s.team)
    BY <1>2, <1>3, <2>1, NoneIsNoClub DEF CanEnrichClub, Weak
  <2>2. CASE ~CanEnrichClub(a.club, s.team)
    BY <1>2, <1>3, <2>2
  <2>3. QED
    BY <2>1, <2>2
<1>6. SuggestedPatch(s, b) = NoPatch
  BY <1>4, <1>5 DEF SuggestedPatch, NoPatch
<1>7. DecideOne(s, b) # "create_new"
  BY AcceptedSettles, SettledIsNotNew
<1>8. QED
  BY <1>6, <1>7 DEF DecideOne

\* A row that is left for review is never shown as of high confidence, and one that
\* is matched always is (confidence_from_signals, decide_identity).
THEOREM HighMeansMatched ==
    ASSUME NEW s \in SourceRow, NEW a \in Athlete
    PROVE  /\ DecideOne(s, a) = "manual_review" => Confidence(s, a) # "high"
           /\ DecideOne(s, a) = "match_existing" => Confidence(s, a) = "high"
<1>1. StrictMatch(s, a) => ~CityConflict(s, a) /\ ~ClubConflict(s, a)
  BY DEF StrictMatch, CityMatch, CityConflict
<1>2. QED
  BY <1>1 DEF DecideOne, Confidence, MeaningfulConflict

-----------------------------------------------------------------------------
(* Points.                                                                 *)

\* What row and athlete say of the club, in points: a conflict, a strict agreement, and
\* all between them.
LEMMA ClubMargins ==
    ASSUME NEW s, NEW a
    PROVE  LET p == ClubPoints(s, a) + Points(CanEnrichClub(a.club, s.team), 25) IN
           /\ p \in Int /\ p <= 180
           /\ ClubConflict(s, a) => p = -220
           /\ ~ClubConflict(s, a) => p >= 5
           /\ ~ClubConflict(s, a) /\ s.team # None => p >= 20
           /\ s.team = None => p <= 10
           /\ ClubCompatible(s, a) /\ ~SourceMoreSpecific(s, a) /\ ~ExistingMoreSpecific(s, a) =>
                 p >= 130
           /\ ClubConflict(s, a) \/ ~ClubCompatible(s, a) \/ SourceMoreSpecific(s, a)
                 \/ ExistingMoreSpecific(s, a) => p <= 115
<1> USE NoneIsNoClub
<1>1. Informative(None) = {}
  BY DEF Informative, WordsOf
<1>2. ClubExact(s, a) => ~SourceMoreSpecific(s, a) /\ ~ExistingMoreSpecific(s, a)
  BY DEF ClubExact, SourceMoreSpecific, CanEnrichClub, ExistingMoreSpecific, Weak
<1>3. ClubConflict(s, a) => s.team # None /\ ~ClubExact(s, a) /\ ~SourceMoreSpecific(s, a)
                            /\ ~ExistingMoreSpecific(s, a)
                            /\ Informative(s.team) \cap Informative(a.club) = {}
  BY DEF ClubConflict, ClubCompatible
<1>4. s.team = None => /\ ~SourceMoreSpecific(s, a) /\ ~ExistingMoreSpecific(s, a) /\ ~ClubExact(s, a)
                       /\ Informative(s.team) \cap Informative(a.club) = {}
  BY <1>1 DEF SourceMoreSpecific, CanEnrichClub, ExistingMoreSpecific, Weak, ClubExact
<1>5. ClubCompatible(s, a) <=> \/ ClubExact(s, a) \/ SourceMoreSpecific(s, a)
                               \/ ExistingMoreSpecific(s, a)
                               \/ Informative(s.team) \cap Informative(a.club) # {}
  BY DEF ClubCompatible
<1>6. CanEnrichClub(a.club, s.team) <=> SourceMoreSpecific(s, a)
  BY DEF SourceMoreSpecific
<1>7. QED
  BY <1>2, <1>3, <1>4, <1>5, <1>6 DEF ClubPoints, Points

\* The same of the city.
LEMMA CityMargins ==
    ASSUME NEW s, NEW a
    PROVE  LET p == CityPoints(s, a) + Points(CanEnrich(a.city, s.city), 20) IN
           /\ p \in Int /\ p <= 120
           /\ CityMatch(s, a) => p = 120
           /\ ~CityMatch(s, a) => p <= 30
           /\ ~CityConflict(s, a) => p >= 10
           /\ ~CityConflict(s, a) /\ s.city # None => p >= 30
           /\ CityConflict(s, a) /\ ~RegionOrGeneric(s.team) => p = -160
BY DEF CityPoints, Points, CanEnrich, CityMatch, CityConflict, CityMissing

\* The best sum that does not amount to a match is five points below the least that
\* does; the best one with a conflict is twenty below the least without (score_candidate).
LEMMA Margins ==
    ASSUME NEW s, NEW x, NEW y,
           \/ StrictMatch(s, x) /\ ~StrictMatch(s, y)
           \/ ~MeaningfulConflict(s, x) /\ MeaningfulConflict(s, y)
    PROVE  Score(s, x) > Score(s, y)
<1> DEFINE City(a) == CityPoints(s, a) + Points(CanEnrich(a.city, s.city), 20)
           Club(a) == ClubPoints(s, a) + Points(CanEnrichClub(a.club, s.team), 25)
           License(a) == Points(CanEnrich(a.license, s.license), 10)
<1>1. \A a : License(a) \in 0 .. 10
  BY DEF Points
<1>2. /\ \A a : City(a) \in Int /\ Club(a) \in Int
      /\ Score(s, x) = City(x) + Club(x) + License(x)
      /\ Score(s, y) = City(y) + Club(y) + License(y)
  <2>1. \A a : CityPoints(s, a) \in Int /\ ClubPoints(s, a) \in Int
    BY DEF CityPoints, ClubPoints
  <2>2. \A c, n : n \in Int => Points(c, n) \in Int
    BY DEF Points
  <2>3. QED
    BY <2>1, <2>2 DEF Score
<1> HIDE DEF City, Club, License
<1>3. CASE StrictMatch(s, x) /\ ~StrictMatch(s, y)
  <2>1. City(x) = 120 /\ Club(x) >= 130
    BY <1>3, ClubMargins, CityMargins DEF StrictMatch, City, Club
  <2>2. \/ City(y) <= 30 /\ Club(y) <= 180
        \/ City(y) <= 120 /\ Club(y) <= 115
    BY <1>3, ClubMargins, CityMargins DEF StrictMatch, City, Club
  <2>3. QED
    BY <1>1, <1>2, <2>1, <2>2
<1>4. CASE ~MeaningfulConflict(s, x) /\ MeaningfulConflict(s, y)
  <2>1. CASE ClubConflict(s, y)
    <3>1. ~RegionOrGeneric(s.team)
      BY <2>1 DEF ClubConflict, RegionOrGeneric
    <3>2. City(x) >= 10 /\ Club(x) >= 5 /\ City(y) <= 120 /\ Club(y) = -220
      BY <1>4, <2>1, <3>1, ClubMargins, CityMargins DEF MeaningfulConflict, City, Club
    <3>3. QED
      BY <1>1, <1>2, <3>2
  <2>2. CASE CityConflict(s, y) /\ ~RegionOrGeneric(s.team)
    <3>1. s.city # None
      BY <2>2 DEF CityConflict, CityMissing
    <3>2. City(x) >= 30 /\ City(y) = -160
      BY <1>4, <2>2, <3>1, CityMargins DEF MeaningfulConflict, City
    <3>3. \/ Club(x) >= 5 /\ Club(y) <= 10
          \/ Club(x) >= 20 /\ Club(y) <= 180
      BY <1>4, ClubMargins DEF MeaningfulConflict, Club
    <3>4. QED
      BY <1>1, <1>2, <3>2, <3>3
  <2>3. QED
    BY <1>4, <2>1, <2>2 DEF MeaningfulConflict
<1>5. QED
  BY <1>3, <1>4

-----------------------------------------------------------------------------
(* What a client knows.                                                    *)

Table == [AthleteIds -> Athlete \cup {None}]

\* The locals of a client.
LocalOK(f, label) ==
    /\ f \in Frames
    /\ Len(f.replies) + Len(f.todo) <= MaxRows
    /\ \A i \in f.creates : i \in 1 .. Len(f.replies) /\ CanCreate(f.replies[i].row)
    /\ f.updates # {} => label \in {"create", "update", "write"}
    /\ label = "idle" => f = EmptyFrame
    /\ label = "write" => \A u \in f.updates : f.read[u.athlete] # None

LocalInv ==
    /\ athletes \in Table
    /\ pc \in [Requests -> Labels]
    /\ frame \in [Requests -> Frames]
    /\ written \in [Requests -> SUBSET AthleteIds]
    /\ \A r \in Requests : LocalOK(frame[r], pc[r])

\* A step of one client that leaves its locals in order leaves all in order.
LEMMA LocalUpdate ==
    ASSUME LocalInv, NEW r \in Requests, NEW f, NEW label \in Labels,
           frame' = [frame EXCEPT ![r] = f], pc' = [pc EXCEPT ![r] = label],
           LocalOK(f, label), athletes' \in Table,
           written' \in [Requests -> SUBSET AthleteIds]
    PROVE  LocalInv'
<1>1. f \in Frames
  BY DEF LocalOK
<1>2. /\ frame' \in [Requests -> Frames] /\ pc' \in [Requests -> Labels]
      /\ frame'[r] = f /\ pc'[r] = label
  BY <1>1 DEF LocalInv
<1>3. ASSUME NEW q \in Requests PROVE LocalOK(frame'[q], pc'[q])
  <2>1. CASE q = r
    BY <1>2, <2>1
  <2>2. CASE q # r
    BY <2>2 DEF LocalInv
  <2>3. QED
    BY <2>1, <2>2
<1>4. QED
  BY <1>2, <1>3 DEF LocalInv

\* Nothing is known at the start and at the end.
LEMMA EmptyIsOK ==
    ASSUME NEW label \in Labels \ {"write"}
    PROVE  EmptyFrame \in Frames /\ LocalOK(EmptyFrame, label)
<1>1. Nobody \in Table
  BY DEF Nobody, Table
<1>2. EmptyFrame \in Frames
  BY <1>1 DEF EmptyFrame, Frames, Table
<1>3. Len(<<>>) + Len(<<>>) <= MaxRows
  BY BatchesAssumption
<1>4. QED
  BY <1>2, <1>3 DEF EmptyFrame, LocalOK

LEMMA FinishIsOK ==
    ASSUME LocalInv, NEW r \in Requests, NEW label \in {"done", "refused", "failed"},
           Finish(r, label), athletes' \in Table, written' \in [Requests -> SUBSET AthleteIds]
    PROVE  LocalInv'
<1>1. label \in Labels /\ LocalOK(EmptyFrame, label)
  BY EmptyIsOK DEF Labels
<1>2. QED
  BY <1>1, LocalUpdate DEF Finish, Goto

\* What decide_identity may answer.
LEMMA DecideType ==
    ASSUME NEW s, NEW table, NEW C
    PROVE  Decide(s, table, C) \in Actions
BY DEF Decide, DecideOne, Actions

\* Writing the table keeps its type and that of the history.
LEMMA WriteType ==
    ASSUME LocalInv, NEW r \in Requests, NEW table \in Table, Write(r, table)
    PROVE  athletes' \in Table /\ written' \in [Requests -> SUBSET AthleteIds]
BY DEF Write, LocalInv

\* Of some updates one is last.
LEMMA LastUpdate ==
    ASSUME NEW U \in SUBSET Update, U # {}
    PROVE  \E u \in U : \A v \in U : v.at <= u.at
<1> DEFINE R == OpToRel(<, Nat)
           left(u) == MaxRows - u.at
           T == {left(u) : u \in U}
<1>1. ASSUME NEW u \in U PROVE u.at \in 1 .. MaxRows
  BY DEF Update
<1>2. MaxRows \in Nat
  BY BatchesAssumption
<1>3. T \subseteq Nat /\ T # {}
  BY <1>1, <1>2
<1>4. \E x \in T : \A y \in T : ~ (<<y, x>> \in R)
  BY <1>3, NatLessThanWellFounded, WFMin
<1>5. PICK u \in U : \A v \in U : ~ (<<left(v), left(u)>> \in R)
  BY <1>4
<1>6. ASSUME NEW v \in U PROVE v.at <= u.at
  <2>1. left(v) \in Nat /\ left(u) \in Nat
    BY <1>1, <1>2
  <2>2. ~ (left(v) < left(u))
    BY <1>5, <2>1 DEF OpToRel
  <2>3. QED
    BY <1>1, <1>2, <2>2
<1>7. QED
  BY <1>6

\* The value of a field that is written.
LEMMA ValueType ==
    ASSUME LocalInv, NEW r \in Requests, NEW a \in AthleteIds, NEW f \in {"city", "club", "license"}
    PROVE  \/ Value(r, a, f) = frame[r].read[a][f]
           \/ \E u \in Updates(r) : /\ u.athlete = a /\ u.patch[f] # None
                                    /\ Value(r, a, f) = u.patch[f]
<1> DEFINE sent == {u \in Updates(r) : u.athlete = a /\ u.patch[f] # None}
<1>1. CASE sent = {}
  BY <1>1 DEF Value
<1>2. CASE sent # {}
  <2>1. sent \in SUBSET Update
    BY DEF LocalInv, Frames, Updates
  <2>2. PICK u \in sent : u = CHOOSE w \in sent : \A v \in sent : v.at <= w.at
    BY <1>2, <2>1, LastUpdate
  <2>3. Value(r, a, f) = u.patch[f]
    BY <1>2, <2>2 DEF Value
  <2>4. QED
    BY <2>3
<1>3. QED
  BY <1>1, <1>2

\* An athlete that is updated.
LEMMA UpdatedType ==
    ASSUME LocalInv, NEW r \in Requests, pc[r] = "write", NEW a \in AthleteIds,
           athletes[a] # None, NEW w \in Updates(r), w.athlete = a
    PROVE  /\ Updated(r, a) \in Athlete
           /\ Updated(r, a).who = athletes[a].who
           /\ Updated(r, a).gender = athletes[a].gender
           /\ Updated(r, a).city = IF "city" \in Fields(r) THEN Value(r, a, "city")
                                   ELSE athletes[a].city
           /\ Updated(r, a).club = IF "club" \in Fields(r) THEN Value(r, a, "club")
                                   ELSE athletes[a].club
           /\ Updated(r, a).license = IF "license" \in Fields(r) THEN Value(r, a, "license")
                                      ELSE athletes[a].license
<1>1. athletes[a] \in Athlete
  BY DEF LocalInv, Table
<1>2. frame[r].read[a] \in Athlete
  <2>1. LocalOK(frame[r], "write")
    BY DEF LocalInv
  <2>2. frame[r].read[w.athlete] # None
    BY <2>1 DEF LocalOK, Updates
  <2>3. frame[r].read \in Table
    BY <2>1 DEF LocalOK, Frames, Table
  <2>4. QED
    BY <2>2, <2>3 DEF Table
<1>3. ASSUME NEW u \in Updates(r) PROVE u.patch \in Patch
  BY DEF LocalInv, Frames, Updates, Update
<1>4. Value(r, a, "city") \in Optional(Cities)
  BY <1>2, <1>3, ValueType DEF Athlete, Patch
<1>5. Value(r, a, "club") \in Optional(Teams)
  BY <1>2, <1>3, ValueType DEF Athlete, Patch
<1>6. Value(r, a, "license") \in Optional(Licenses)
  BY <1>2, <1>3, ValueType DEF Athlete, Patch
<1>7. QED
  BY <1>1, <1>4, <1>5, <1>6 DEF Updated, Athlete

-----------------------------------------------------------------------------
(* The steps that add to what a client knows.                              *)

\* An answer given again: to a row of the same key, with all that it said.
Shared(old, new) ==
    /\ CacheKey(new.row) = CacheKey(old.row)
    /\ new.action = old.action /\ new.seen = old.seen

\* An answer of resolve-candidates is from the cache or from the table.
LEMMA ResolveFacts ==
    ASSUME LocalInv, NEW r \in Requests, Resolve(r)
    PROVE  /\ frame[r].todo # <<>>
           /\ \E reply \in Reply :
                /\ frame' = [frame EXCEPT ![r].todo = Tail(@), ![r].replies = Append(@, reply)]
                /\ \/ \E i \in 1 .. Len(Replies(r)) : Shared(Replies(r)[i], reply)
                   \/ /\ reply.seen = Candidates(reply.row)
                      /\ reply.action = Decide(reply.row, athletes, reply.seen)
<1> DEFINE s == Head(frame[r].todo)
           cached == {i \in DOMAIN Replies(r) : CacheKey(Replies(r)[i].row) = CacheKey(s)}
           fresh == [row |-> s, action |-> Decide(s, athletes, Candidates(s)),
                     seen |-> Candidates(s)]
           reply == IF cached # {} THEN [Replies(r)[CHOOSE i \in cached : TRUE] EXCEPT !.row = s]
                    ELSE fresh
<1>1. frame[r].todo # <<>>
  BY DEF Resolve
<1>2. frame[r].todo \in Seq(SourceRow) /\ Replies(r) \in Seq(Reply)
  BY DEF LocalInv, Frames, Replies
<1>3. s \in SourceRow
  BY <1>1, <1>2
<1>4. fresh \in Reply
  BY <1>3, DecideType DEF Reply, Candidates, Present
<1>5. frame' = [frame EXCEPT ![r].todo = Tail(@), ![r].replies = Append(@, reply)]
  BY DEF Resolve
<1>6. CASE cached # {}
  <2>1. PICK i \in cached : reply = [Replies(r)[i] EXCEPT !.row = s]
    BY <1>6
  <2>2. i \in 1 .. Len(Replies(r)) /\ Replies(r)[i] \in Reply
    BY <1>2, <2>1
  <2>3. reply \in Reply /\ Shared(Replies(r)[i], reply)
    BY <1>3, <2>1, <2>2 DEF Reply, Shared
  <2>4. QED
    BY <1>1, <1>5, <2>2, <2>3
<1>7. CASE cached = {}
  BY <1>1, <1>4, <1>5, <1>7
<1>8. QED
  BY <1>6, <1>7

\* What the preview has accepted for a row of the answers.
Taken(r, s, a) ==
    /\ \E i \in 1 .. Len(Replies(r)) : s = Replies(r)[i].row /\ a \in Replies(r)[i].seen
    /\ athletes[a] # None
    /\ DecideOne(s, athletes[a]) \in {"match_existing", "enrich_existing"}

LEMMA PreviewFacts ==
    ASSUME LocalInv, NEW r \in Requests, Preview(r)
    PROVE  \/ Finish(r, "refused") /\ UNCHANGED <<athletes, history>>
           \/ /\ \E C \in SUBSET (1 .. MaxRows), U \in SUBSET Update,
                    I \in SUBSET (SourceRow \X AthleteIds) :
                    /\ frame' = [frame EXCEPT ![r].creates = C, ![r].updates = U]
                    /\ imported' = imported \cup I
                    /\ \A i \in C : i \in 1 .. Len(Replies(r)) /\ CanCreate(Replies(r)[i].row)
                    /\ \A u \in U : /\ Taken(r, u.row, u.athlete)
                                    /\ u.patch = SuggestedPatch(u.row, athletes[u.athlete])
                    /\ \A p \in I : /\ Taken(r, p[1], p[2])
                                    /\ SuggestedPatch(p[1], athletes[p[2]]) = NoPatch
              /\ written' = [written EXCEPT ![r] = {}]
              /\ Goto(r, "create")
              /\ UNCHANGED <<athletes, disturbed, sound>>
<1>1. PICK choice \in [DOMAIN Replies(r) -> Choices] :
          /\ \A i \in DOMAIN choice : Sensible(Replies(r)[i], choice[i])
          /\ LET Row(i) == Replies(r)[i].row
                 named   == {i \in DOMAIN choice : choice[i][2] # None}
                 taken   == {i \in named : Accepted(Row(i), choice[i])}
                 patched == {i \in taken : PatchFor(Row(i), choice[i][2]) # NoPatch}
             IN IF \E i \in named : choice[i][2] \notin Present
                THEN Finish(r, "refused") /\ UNCHANGED <<athletes, history>>
                ELSE /\ frame' = [frame EXCEPT
                           ![r].creates = {i \in DOMAIN choice : /\ choice[i][1] = "create_new"
                                                                 /\ CanCreate(Row(i))},
                           ![r].updates = {[at |-> i, row |-> Row(i), athlete |-> choice[i][2],
                                            patch |-> PatchFor(Row(i), choice[i][2])]
                                           : i \in patched}]
                     /\ imported' = imported \cup
                           {<<Row(i), choice[i][2]>> : i \in taken \ patched}
                     /\ written' = [written EXCEPT ![r] = {}]
                     /\ Goto(r, "create")
                     /\ UNCHANGED <<athletes, disturbed, sound>>
  BY DEF Preview
<1> DEFINE Row(i) == Replies(r)[i].row
           named   == {i \in DOMAIN choice : choice[i][2] # None}
           taken   == {i \in named : Accepted(Row(i), choice[i])}
           patched == {i \in taken : PatchFor(Row(i), choice[i][2]) # NoPatch}
           C == {i \in DOMAIN choice : choice[i][1] = "create_new" /\ CanCreate(Row(i))}
           U == {[at |-> i, row |-> Row(i), athlete |-> choice[i][2],
                  patch |-> PatchFor(Row(i), choice[i][2])] : i \in patched}
           I == {<<Row(i), choice[i][2]>> : i \in taken \ patched}
<1>2. CASE \E i \in named : choice[i][2] \notin Present
  BY <1>1, <1>2
<1>3. CASE ~ \E i \in named : choice[i][2] \notin Present
  <2>1. /\ frame' = [frame EXCEPT ![r].creates = C, ![r].updates = U]
        /\ imported' = imported \cup I
        /\ written' = [written EXCEPT ![r] = {}] /\ Goto(r, "create")
        /\ UNCHANGED <<athletes, disturbed, sound>>
    BY <1>1, <1>3
  <2>2. Replies(r) \in Seq(Reply) /\ Len(Replies(r)) <= MaxRows
    <3>1. LocalOK(frame[r], pc[r])
      BY DEF LocalInv
    <3>2. Replies(r) \in Seq(Reply) /\ frame[r].todo \in Seq(SourceRow)
      BY <3>1 DEF LocalOK, Frames, Replies
    <3>3. Len(Replies(r)) + Len(frame[r].todo) <= MaxRows
      BY <3>1 DEF LocalOK, Replies
    <3>4. QED
      BY <3>2, <3>3, BatchesAssumption
  <2>3. DOMAIN choice = 1 .. Len(Replies(r)) /\ DOMAIN choice \subseteq 1 .. MaxRows
    BY <2>2, BatchesAssumption
  <2>4. ASSUME NEW i \in DOMAIN choice PROVE Row(i) \in SourceRow /\ Replies(r)[i].seen \subseteq AthleteIds
    <3>1. Replies(r)[i] \in Reply
      BY <2>2, <2>3
    <3>2. QED
      BY <3>1 DEF Reply
  <2>5. ASSUME NEW i \in taken
        PROVE  /\ choice[i][2] \in AthleteIds /\ athletes[choice[i][2]] \in Athlete
               /\ Taken(r, Row(i), choice[i][2])
               /\ PatchFor(Row(i), choice[i][2]) = SuggestedPatch(Row(i), athletes[choice[i][2]])
               /\ PatchFor(Row(i), choice[i][2]) \in Patch
    <3> DEFINE a == choice[i][2]
    <3>1. a \in Present /\ a # None /\ i \in DOMAIN choice
      BY <1>3
    <3>2. a \in AthleteIds /\ athletes[a] # None /\ athletes[a] \in Athlete
      BY <3>1 DEF Present, LocalInv, Table
    <3>3. a \in Replies(r)[i].seen
      BY <1>1, <3>1 DEF Sensible
    <3>4. DecideOne(Row(i), athletes[a]) \in {"match_existing", "enrich_existing"}
      BY DEF Accepted
    <3>5. Taken(r, Row(i), a)
      BY <2>3, <3>1, <3>2, <3>3, <3>4 DEF Taken
    <3>6. PatchFor(Row(i), a) = SuggestedPatch(Row(i), athletes[a])
      BY <2>4, <3>1, <3>2, SuggestionIsSafe DEF PatchFor
    <3>7. SuggestedPatch(Row(i), athletes[a]) \in Patch
      BY <2>4, <3>1, <3>2, PatchTypes, EmptyPatch
    <3>8. QED
      BY <3>2, <3>5, <3>6, <3>7
  <2>6. C \in SUBSET (1 .. MaxRows) /\ \A i \in C : i \in 1 .. Len(Replies(r)) /\ CanCreate(Row(i))
    BY <2>3
  <2>7. ASSUME NEW u \in U
        PROVE  /\ u \in Update /\ Taken(r, u.row, u.athlete)
               /\ u.patch = SuggestedPatch(u.row, athletes[u.athlete])
    <3>1. PICK i \in patched : u = [at |-> i, row |-> Row(i), athlete |-> choice[i][2],
                                    patch |-> PatchFor(Row(i), choice[i][2])]
      OBVIOUS
    <3>2. i \in taken /\ i \in 1 .. MaxRows /\ Row(i) \in SourceRow
      BY <2>3, <2>4
    <3>3. QED
      BY <2>5, <3>1, <3>2 DEF Update
  <2>8. ASSUME NEW p \in I
        PROVE  /\ p \in SourceRow \X AthleteIds /\ Taken(r, p[1], p[2])
               /\ SuggestedPatch(p[1], athletes[p[2]]) = NoPatch
    <3>1. PICK i \in taken \ patched : p = <<Row(i), choice[i][2]>>
      OBVIOUS
    <3>2. i \in taken /\ Row(i) \in SourceRow /\ PatchFor(Row(i), choice[i][2]) = NoPatch
      BY <2>4
    <3>3. QED
      BY <2>5, <3>1, <3>2
  <2>9. U \in SUBSET Update /\ I \in SUBSET (SourceRow \X AthleteIds)
    BY <2>7, <2>8
  <2>10. QED
    BY <2>1, <2>6, <2>7, <2>8, <2>9
<1>4. QED
  BY <1>2, <1>3

-----------------------------------------------------------------------------
(* The locals stay in order.                                               *)

LEMMA LocalStep ==
    ASSUME LocalInv, Next
    PROVE  LocalInv'
<1>a. /\ athletes \in Table /\ written \in [Requests -> SUBSET AthleteIds]
      /\ pc \in [Requests -> Labels] /\ frame \in [Requests -> Frames]
  BY DEF LocalInv
<1>b. ASSUME NEW r \in Requests PROVE LocalOK(frame[r], pc[r])
  BY DEF LocalInv
<1>1. ASSUME NEW r \in Requests, StartResolve(r) PROVE LocalInv'
  <2>1. PICK b \in Batches : frame' = [frame EXCEPT ![r].todo = b]
    BY <1>1 DEF StartResolve
  <2> DEFINE f == [frame[r] EXCEPT !.todo = b]
  <2>2. pc[r] = "idle" /\ Goto(r, "resolve") /\ UNCHANGED <<athletes, written>>
    BY <1>1 DEF StartResolve, history
  <2>3. b \in Seq(SourceRow) /\ Len(b) <= MaxRows /\ Len(b) \in Nat
    BY BatchesAssumption
  <2>4. frame[r] = EmptyFrame
    BY <1>b, <2>2 DEF LocalOK
  <2>5. /\ f \in Frames /\ f.todo = b /\ f.replies = <<>> /\ f.creates = {} /\ f.updates = {}
    <3>1. /\ f \in Frames /\ f.todo = b /\ f.replies = frame[r].replies
          /\ f.creates = frame[r].creates /\ f.updates = frame[r].updates
      BY <1>a, <2>3 DEF Frames
    <3>2. QED
      BY <2>4, <3>1 DEF EmptyFrame
  <2>6. Len(f.replies) + Len(f.todo) <= MaxRows
    BY <2>3, <2>5
  <2>7. LocalOK(f, "resolve")
    BY <2>5, <2>6 DEF LocalOK
  <2>8. QED
    BY <1>a, <2>1, <2>2, <2>7, LocalUpdate DEF Goto, Labels
<1>2. ASSUME NEW r \in Requests, Resolve(r) PROVE LocalInv'
  <2>1. PICK reply \in Reply :
           frame' = [frame EXCEPT ![r].todo = Tail(@), ![r].replies = Append(@, reply)]
    BY <1>2, ResolveFacts
  <2> DEFINE f == [frame[r] EXCEPT !.todo = Tail(@), !.replies = Append(@, reply)]
             label == IF Tail(frame[r].todo) = <<>> THEN "preview" ELSE "resolve"
  <2>2. pc[r] = "resolve" /\ Goto(r, label) /\ UNCHANGED <<athletes, written>> /\ frame[r].todo # <<>>
    BY <1>2 DEF Resolve, history
  <2>3. /\ frame[r].todo \in Seq(SourceRow) /\ frame[r].replies \in Seq(Reply)
        /\ frame[r].updates = {} /\ Len(frame[r].replies) + Len(frame[r].todo) <= MaxRows
        /\ \A i \in frame[r].creates : /\ i \in 1 .. Len(frame[r].replies)
                                       /\ CanCreate(frame[r].replies[i].row)
    BY <1>a, <1>b, <2>2 DEF Frames, LocalOK
  <2>s. /\ Tail(frame[r].todo) \in Seq(SourceRow)
        /\ Len(Tail(frame[r].todo)) = Len(frame[r].todo) - 1
        /\ Append(frame[r].replies, reply) \in Seq(Reply)
    BY <2>2, <2>3
  <2>4. /\ f.todo = Tail(frame[r].todo) /\ f.replies = Append(frame[r].replies, reply)
        /\ f.creates = frame[r].creates /\ f.updates = {} /\ f \in Frames
    BY <1>a, <2>s, <2>3 DEF Frames
  <2>5. /\ Len(f.replies) = Len(frame[r].replies) + 1 /\ Len(f.todo) = Len(frame[r].todo) - 1
        /\ Len(frame[r].replies) \in Nat /\ Len(frame[r].todo) \in Nat
    BY <2>s, <2>3, <2>4
  <2>6. \A i \in f.creates : i \in 1 .. Len(f.replies) /\ CanCreate(f.replies[i].row)
    BY <2>3, <2>4, <2>5
  <2>7. LocalOK(f, label)
    <3>2. label \notin {"idle", "write"}
      OBVIOUS
    <3> HIDE DEF f, label
    <3>a. \A m, n, k \in Nat : m + n <= k => (m + 1) + (n - 1) <= k
      OBVIOUS
    <3>1. Len(f.replies) + Len(f.todo) <= MaxRows
      BY <2>3, <2>5, <3>a, BatchesAssumption
    <3>3. QED
      BY <2>4, <2>6, <3>1, <3>2 DEF LocalOK
  <2>8. frame' = [frame EXCEPT ![r] = f] /\ label \in Labels
    BY <1>a, <2>1 DEF Labels
  <2>9. QED
    BY <1>a, <2>2, <2>7, <2>8, LocalUpdate DEF Goto
<1>3. ASSUME NEW r \in Requests, Preview(r) PROVE LocalInv'
  <2>1. CASE Finish(r, "refused") /\ UNCHANGED <<athletes, history>>
    BY <1>a, <2>1, FinishIsOK DEF history
  <2>2. CASE ~ (Finish(r, "refused") /\ UNCHANGED <<athletes, history>>)
    <3>1. PICK C \in SUBSET (1 .. MaxRows), U \in SUBSET Update :
             /\ frame' = [frame EXCEPT ![r].creates = C, ![r].updates = U]
             /\ \A i \in C : i \in 1 .. Len(Replies(r)) /\ CanCreate(Replies(r)[i].row)
      BY <1>3, <2>2, PreviewFacts
    <3>2. /\ written' = [written EXCEPT ![r] = {}] /\ Goto(r, "create") /\ UNCHANGED athletes
      BY <1>3, <2>2, PreviewFacts
    <3> DEFINE f == [frame[r] EXCEPT !.creates = C, !.updates = U]
    <3>3. /\ f \in Frames /\ f.creates = C /\ f.replies = Replies(r)
          /\ f.todo = frame[r].todo
      BY <1>a DEF Frames, Replies
    <3>4. LocalOK(f, "create")
      BY <1>b, <3>1, <3>3 DEF LocalOK, Replies
    <3>5. frame' = [frame EXCEPT ![r] = f] /\ "create" \in Labels
      BY <1>a, <3>1 DEF Labels
    <3>6. written' \in [Requests -> SUBSET AthleteIds]
      BY <1>a, <3>2
    <3>7. QED
      BY <1>a, <3>2, <3>4, <3>5, <3>6, LocalUpdate DEF Goto
  <2>3. QED
    BY <2>1, <2>2
<1>4. ASSUME NEW r \in Requests, BulkCreate(r) PROVE LocalInv'
  <2> DEFINE Row(i) == Replies(r)[i].row
             new   == {<<r, i>> : i \in frame[r].creates}
             table == [a \in AthleteIds |-> IF a \in new THEN Created(Row(a[2])) ELSE athletes[a]]
  <2>1. Write(r, table) /\ Goto(r, "update") /\ UNCHANGED frame /\ pc[r] = "create"
    BY <1>4 DEF BulkCreate
  <2>2. ASSUME NEW i \in frame[r].creates PROVE Created(Row(i)) \in Athlete
    <3>1. i \in 1 .. Len(Replies(r)) /\ CanCreate(Row(i)) /\ Replies(r) \in Seq(Reply)
      BY <1>a, <1>b DEF LocalOK, Frames, Replies
    <3>2. Replies(r)[i] \in Reply
      BY <3>1
    <3>3. QED
      BY <3>1, <3>2, CreatedSettles DEF Reply
  <2>3. table \in Table
    BY <1>a, <2>2 DEF Table
  <2>4. LocalOK(frame[r], "update")
    BY <1>b, <2>1 DEF LocalOK
  <2>5. frame' = [frame EXCEPT ![r] = frame[r]] /\ "update" \in Labels
    BY <1>a, <2>1 DEF Labels
  <2>6. QED
    BY <2>1, <2>3, <2>4, <2>5, WriteType, LocalUpdate DEF Goto
<1>5. ASSUME NEW r \in Requests, BulkUpdateRead(r) PROVE LocalInv'
  <2>1. pc[r] = "update" /\ UNCHANGED <<athletes, written>>
    BY <1>5 DEF BulkUpdateRead, history
  <2>2. CASE Finish(r, "done") \/ Finish(r, "refused")
    BY <1>a, <2>1, <2>2, FinishIsOK
  <2>3. CASE ~ (Finish(r, "done") \/ Finish(r, "refused"))
    <3> DEFINE f == [frame[r] EXCEPT !.read = athletes]
    <3>1. /\ frame' = [frame EXCEPT ![r].read = athletes] /\ Goto(r, "write")
          /\ \A u \in Updates(r) : u.athlete \in Present
      BY <1>5, <2>3 DEF BulkUpdateRead
    <3>2. /\ f \in Frames /\ f.read = athletes /\ f.updates = Updates(r) /\ f.replies = Replies(r)
          /\ f.todo = frame[r].todo /\ f.creates = frame[r].creates
      BY <1>a DEF Frames, Updates, Replies, Table
    <3>3. LocalOK(f, "write")
      BY <1>b, <3>1, <3>2 DEF LocalOK, Replies, Present
    <3>4. frame' = [frame EXCEPT ![r] = f] /\ "write" \in Labels
      BY <1>a, <3>1 DEF Labels
    <3>5. QED
      BY <1>a, <2>1, <3>1, <3>3, <3>4, LocalUpdate DEF Goto
  <2>4. QED
    BY <2>2, <2>3
<1>6. ASSUME NEW r \in Requests, BulkUpdateWrite(r) PROVE LocalInv'
  <2> DEFINE ids   == {u.athlete : u \in Updates(r)} \cap Present
             table == [a \in AthleteIds |-> IF a \in ids THEN Updated(r, a) ELSE athletes[a]]
  <2>1. Write(r, table) /\ Finish(r, "done") /\ pc[r] = "write"
    BY <1>6 DEF BulkUpdateWrite
  <2>2. ASSUME NEW a \in ids PROVE Updated(r, a) \in Athlete
    BY <2>1, UpdatedType DEF Present
  <2>3. table \in Table
    BY <1>a, <2>2 DEF Table
  <2>4. QED
    BY <2>1, <2>3, WriteType, FinishIsOK
<1>7. ASSUME NEW r \in Requests, EditAthlete(r) \/ DeleteAthlete(r) PROVE LocalInv'
  <2>1. /\ \E table \in Table : Write(r, table)
        /\ pc[r] = "idle" /\ Goto(r, "done") /\ UNCHANGED frame
    <3>1. CASE EditAthlete(r)
      <4>1. PICK a \in Present, e \in Edits : Write(r, [athletes EXCEPT ![a] = e])
        BY <3>1 DEF EditAthlete
      <4>2. [athletes EXCEPT ![a] = e] \in Table
        BY <1>a, BatchesAssumption DEF Table
      <4>3. QED
        BY <3>1, <4>1, <4>2 DEF EditAthlete
    <3>2. CASE DeleteAthlete(r)
      <4>1. PICK a \in Present : Write(r, [athletes EXCEPT ![a] = None])
        BY <3>2 DEF DeleteAthlete
      <4>2. [athletes EXCEPT ![a] = None] \in Table
        BY <1>a DEF Table
      <4>3. QED
        BY <3>2, <4>1, <4>2 DEF DeleteAthlete
    <3>3. QED
      BY <1>7, <3>1, <3>2
  <2>2. LocalOK(frame[r], "done")
    BY <1>b, <2>1 DEF LocalOK
  <2>3. frame' = [frame EXCEPT ![r] = frame[r]] /\ "done" \in Labels
    BY <1>a, <2>1 DEF Labels
  <2>4. QED
    BY <2>1, <2>2, <2>3, WriteType, LocalUpdate DEF Goto
<1>8. ASSUME NEW r \in Requests, Stop(r) PROVE LocalInv'
  BY <1>a, <1>8, FinishIsOK DEF Stop, history
<1>9. QED
  BY <1>1, <1>2, <1>3, <1>4, <1>5, <1>6, <1>7, <1>8 DEF Next

-----------------------------------------------------------------------------
(* What is known of athletes that have lost nothing.                       *)

\* An athlete that has not been created yet is in nobody's hands.
Untouched(a) ==
    /\ athletes[a] = None
    /\ \A p \in imported : p[2] # a
    /\ \A r \in Requests :
          /\ \A i \in 1 .. Len(Replies(r)) : a \notin Replies(r)[i].seen
          /\ \A u \in Updates(r) : u.athlete # a

FreshInv ==
    \A r \in Requests, n \in 1 .. MaxRows :
        pc[r] \in {"idle", "resolve", "preview", "create"} => Untouched(<<r, n>>)

\* The athlete is there and has lost nothing.
Intact(a) == athletes[a] # None /\ a \notin disturbed

RepliesInv ==
    \A r \in Requests : \A i \in 1 .. Len(Replies(r)) : \A a \in Replies(r)[i].seen :
        Intact(a) => SameCandidate(Replies(r)[i].row, athletes[a])

UpdatesInv ==
    \A r \in Requests : \A u \in Updates(r) :
        Intact(u.athlete) => Settled(u.row, Patched(athletes[u.athlete], u.patch))

ImportedInv ==
    /\ imported \subseteq SourceRow \X AthleteIds
    /\ \A p \in imported : Intact(p[2]) => Settled(p[1], athletes[p[2]])

\* A patch is still safe for an athlete that nobody has written since the preview,
\* and what bulk-update has read of it is still so.
RaceInv ==
    \A r \in Requests :
        /\ \A u \in Updates(r) :
              athletes[u.athlete] # None /\ u.athlete \notin written[r] =>
                  /\ u.patch.city # None => athletes[u.athlete].city = None
                  /\ u.patch.club # None => ~Meaningful(athletes[u.athlete].club)
        /\ pc[r] = "write" => \A a \in AthleteIds \ written[r] : frame[r].read[a] = athletes[a]

\* A client has only the parts of its locals replaced that its step is about.
LEMMA FrameStep ==
    ASSUME LocalInv, NEW r \in Requests, NEW q \in Requests,
           \/ StartResolve(r) \/ BulkCreate(r) \/ BulkUpdateRead(r) \/ BulkUpdateWrite(r)
           \/ EditAthlete(r) \/ DeleteAthlete(r) \/ Stop(r)
    PROVE  /\ q # r => frame'[q] = frame[q] /\ pc'[q] = pc[q]
           /\ \/ Updates(q)' = Updates(q) /\ Replies(q)' = Replies(q)
              \/ Updates(q)' = {} /\ Replies(q)' = <<>>
<1>a. frame \in [Requests -> Frames] /\ pc \in [Requests -> Labels]
  BY DEF LocalInv
<1>1. q # r => frame'[q] = frame[q] /\ pc'[q] = pc[q]
  BY <1>a DEF StartResolve, BulkCreate, BulkUpdateRead, BulkUpdateWrite, EditAthlete,
     DeleteAthlete, Stop, Goto, Finish
<1>2. CASE q # r
  BY <1>1, <1>2 DEF Updates, Replies
<1>3. CASE q = r
  <2>1. CASE \E label \in Labels : Finish(r, label)
    BY <1>a, <1>3, <2>1 DEF Finish, EmptyFrame, Updates, Replies
  <2>2. CASE frame' = frame
    <3>1. frame'[q].updates = frame[q].updates /\ frame'[q].replies = frame[q].replies
      BY <2>2
    <3>2. QED
      BY <1>3, <3>1 DEF Updates, Replies
  <2>3. CASE \E b \in Batches : frame' = [frame EXCEPT ![r].todo = b]
    BY <1>a, <1>3, <2>3 DEF Frames, Updates, Replies
  <2>4. CASE frame' = [frame EXCEPT ![r].read = athletes]
    BY <1>a, <1>3, <2>4 DEF Frames, Updates, Replies
  <2>5. QED
    BY <2>1, <2>2, <2>3, <2>4 DEF StartResolve, BulkCreate, BulkUpdateRead, BulkUpdateWrite,
       EditAthlete, DeleteAthlete, Stop, Labels
<1>4. QED
  BY <1>1, <1>2, <1>3

\* A step leaves an athlete alone, creates one nobody has heard of, or writes one
\* and records what is lost.
LEMMA TableStep ==
    ASSUME LocalInv, FreshInv, Next, NEW a \in AthleteIds, athletes'[a] # None
    PROVE  /\ athletes[a] = None => Untouched(a)
           /\ athletes[a] # None /\ a \notin disturbed' =>
                 a \notin disturbed /\ ~Loses(athletes[a], athletes'[a])
<1>a. athletes \in Table
  BY DEF LocalInv
<1>s. ~Loses(athletes[a], athletes[a])
  BY DEF Loses
<1>1. ASSUME NEW r \in Requests,
             StartResolve(r) \/ Resolve(r) \/ Preview(r) \/ BulkUpdateRead(r) \/ Stop(r)
      PROVE  athletes' = athletes /\ disturbed' = disturbed
  <2>1. CASE Preview(r)
    BY <2>1, PreviewFacts DEF history
  <2>2. CASE StartResolve(r) \/ Resolve(r) \/ BulkUpdateRead(r) \/ Stop(r)
    BY <2>2 DEF StartResolve, Resolve, BulkUpdateRead, Stop, history
  <2>3. QED
    BY <1>1, <2>1, <2>2
<1>2. ASSUME NEW r \in Requests, BulkCreate(r)
      PROVE  /\ athletes[a] = None => Untouched(a)
             /\ athletes[a] # None => athletes'[a] = athletes[a]
             /\ disturbed' = disturbed
  <2> DEFINE Row(i) == Replies(r)[i].row
             new   == {<<r, i>> : i \in frame[r].creates}
             table == [b \in AthleteIds |-> IF b \in new THEN Created(Row(b[2])) ELSE athletes[b]]
  <2>1. Write(r, table) /\ pc[r] = "create" /\ disturbed' = disturbed
    BY <1>2 DEF BulkCreate
  <2>2. athletes'[a] = IF a \in new THEN Created(Row(a[2])) ELSE athletes[a]
    BY <2>1 DEF Write
  <2>3. frame[r].creates \subseteq 1 .. MaxRows
    BY DEF LocalInv, Frames
  <2>4. a \in new => Untouched(a) /\ athletes[a] = None
    BY <2>1, <2>3 DEF FreshInv, Untouched
  <2>5. QED
    BY <2>1, <2>2, <2>4
<1>3. ASSUME NEW r \in Requests, BulkUpdateWrite(r)
      PROVE  /\ athletes[a] # None
             /\ a \notin disturbed' => a \notin disturbed /\ ~Loses(athletes[a], athletes'[a])
  <2> DEFINE ids   == {u.athlete : u \in Updates(r)} \cap Present
             table == [b \in AthleteIds |-> IF b \in ids THEN Updated(r, b) ELSE athletes[b]]
             lost  == {b \in ids : \/ Loses(athletes[b], table[b])
                                   \/ \E u \in Updates(r) :
                                         /\ u.athlete = b
                                         /\ Loses(Patched(athletes[b], u.patch), table[b])}
  <2>1. Write(r, table) /\ disturbed' = disturbed \cup lost
    BY <1>3 DEF BulkUpdateWrite
  <2>2. athletes'[a] = table[a] /\ (a \notin ids => table[a] = athletes[a])
    BY <2>1 DEF Write
  <2>3. athletes[a] # None
    BY <2>2 DEF Present
  <2>4. QED
    BY <1>s, <2>1, <2>2, <2>3
<1>4. ASSUME NEW r \in Requests, EditAthlete(r)
      PROVE  /\ athletes[a] # None
             /\ a \notin disturbed' => a \notin disturbed /\ ~Loses(athletes[a], athletes'[a])
  <2>1. PICK b \in Present, e \in Edits :
           /\ Write(r, [athletes EXCEPT ![b] = e])
           /\ disturbed' = IF Loses(athletes[b], e) THEN disturbed \cup {b} ELSE disturbed
    BY <1>4 DEF EditAthlete
  <2>2. athletes'[a] = (IF a = b THEN e ELSE athletes[a]) /\ athletes[b] # None
    BY <1>a, <2>1 DEF Write, Table, Present
  <2>3. QED
    BY <1>s, <2>1, <2>2
<1>5. ASSUME NEW r \in Requests, DeleteAthlete(r)
      PROVE  athletes'[a] = athletes[a] /\ disturbed' = disturbed
  <2>1. PICK b \in Present : Write(r, [athletes EXCEPT ![b] = None])
    BY <1>5 DEF DeleteAthlete
  <2>2. QED
    BY <1>a, <1>5, <2>1 DEF Write, Table, Present, DeleteAthlete
<1>6. QED
  BY <1>s, <1>1, <1>2, <1>3, <1>4, <1>5 DEF Next

\* An athlete of the table is named by the table.
LEMMA IntactBefore ==
    ASSUME LocalInv, FreshInv, Next, NEW a \in AthleteIds, Intact(a)', ~Untouched(a)
    PROVE  /\ Intact(a) /\ ~Loses(athletes[a], athletes'[a])
           /\ athletes[a] \in Athlete /\ athletes'[a] \in Athlete
<1>1. athletes'[a] # None /\ a \notin disturbed'
  BY DEF Intact
<1>2. athletes \in Table /\ athletes' \in Table
  BY LocalStep DEF LocalInv
<1>3. QED
  BY <1>1, <1>2, TableStep DEF Intact, Table

\* Every answer was there, or is from the table as it stands.
LEMMA NewReplies ==
    ASSUME LocalInv, Next, NEW q \in Requests, NEW i \in 1 .. Len(Replies(q)')
    PROVE  \/ \E j \in 1 .. Len(Replies(q)) : Shared(Replies(q)[j], Replies(q)'[i])
           \/ /\ Replies(q)'[i].seen = Candidates(Replies(q)'[i].row)
              /\ Replies(q)'[i].action = Decide(Replies(q)'[i].row, athletes, Replies(q)'[i].seen)
              /\ athletes' = athletes /\ disturbed' = disturbed
<1>a. /\ frame \in [Requests -> Frames]
      /\ \A r \in Requests : Replies(r) \in Seq(Reply)
  BY DEF LocalInv, Frames, Replies
<1>1. ASSUME NEW r \in Requests, Resolve(r)
      PROVE  \/ \E j \in 1 .. Len(Replies(q)) : Shared(Replies(q)[j], Replies(q)'[i])
             \/ /\ Replies(q)'[i].seen = Candidates(Replies(q)'[i].row)
                /\ Replies(q)'[i].action = Decide(Replies(q)'[i].row, athletes, Replies(q)'[i].seen)
                /\ athletes' = athletes /\ disturbed' = disturbed
  <2>1. PICK reply \in Reply :
           /\ frame' = [frame EXCEPT ![r].todo = Tail(@), ![r].replies = Append(@, reply)]
           /\ \/ \E j \in 1 .. Len(Replies(r)) : Shared(Replies(r)[j], reply)
              \/ /\ reply.seen = Candidates(reply.row)
                 /\ reply.action = Decide(reply.row, athletes, reply.seen)
    BY <1>1, ResolveFacts
  <2>2. athletes' = athletes /\ disturbed' = disturbed
    BY <1>1 DEF Resolve, history
  <2>3. CASE q = r
    <3>1. Replies(q)' = Append(Replies(q), reply)
      BY <1>a, <2>1, <2>3 DEF Replies, Frames
    <3>2. Replies(q)'[i] = reply \/ (i \in 1 .. Len(Replies(q)) /\ Replies(q)'[i] = Replies(q)[i])
      BY <1>a, <3>1
    <3>3. QED
      BY <2>1, <2>2, <2>3, <3>2 DEF Shared
  <2>4. CASE q # r
    BY <1>a, <2>1, <2>4 DEF Replies, Shared
  <2>5. QED
    BY <2>3, <2>4
<1>2. ASSUME NEW r \in Requests, Preview(r) PROVE Replies(q)' = Replies(q) \/ Replies(q)' = <<>>
  <2>1. CASE Finish(r, "refused") /\ UNCHANGED <<athletes, history>>
    BY <1>a, <2>1 DEF Finish, EmptyFrame, Replies
  <2>2. CASE ~ (Finish(r, "refused") /\ UNCHANGED <<athletes, history>>)
    <3>1. PICK C \in SUBSET (1 .. MaxRows), U \in SUBSET Update :
             /\ frame' = [frame EXCEPT ![r].creates = C, ![r].updates = U]
             /\ \A j \in C : j \in 1 .. Len(Replies(r)) /\ CanCreate(Replies(r)[j].row)
      BY <1>2, <2>2, PreviewFacts
    <3>2. QED
      BY <1>a, <3>1 DEF Replies, Frames
  <2>3. QED
    BY <2>1, <2>2
<1>3. ASSUME NEW r \in Requests,
             \/ StartResolve(r) \/ BulkCreate(r) \/ BulkUpdateRead(r) \/ BulkUpdateWrite(r)
             \/ EditAthlete(r) \/ DeleteAthlete(r) \/ Stop(r)
      PROVE  Replies(q)' = Replies(q) \/ Replies(q)' = <<>>
  BY <1>3, FrameStep
<1>4. CASE Replies(q)' = Replies(q) \/ Replies(q)' = <<>>
  <2>1. Replies(q)' = Replies(q)
    BY <1>4
  <2>2. QED
    BY <2>1 DEF Shared
<1>5. QED
  BY <1>1, <1>2, <1>3, <1>4 DEF Next

\* Every update was there, or was accepted for the table as it stands.
LEMMA NewUpdates ==
    ASSUME LocalInv, Next, NEW q \in Requests, NEW u \in Updates(q)'
    PROVE  \/ u \in Updates(q)
           \/ /\ u \in Update /\ Taken(q, u.row, u.athlete)
              /\ u.patch = SuggestedPatch(u.row, athletes[u.athlete])
              /\ athletes' = athletes /\ disturbed' = disturbed
<1>a. frame \in [Requests -> Frames]
  BY DEF LocalInv
<1>1. ASSUME NEW r \in Requests, Preview(r)
      PROVE  \/ u \in Updates(q)
             \/ /\ u \in Update /\ Taken(q, u.row, u.athlete)
                /\ u.patch = SuggestedPatch(u.row, athletes[u.athlete])
                /\ athletes' = athletes /\ disturbed' = disturbed
  <2>1. CASE Finish(r, "refused") /\ UNCHANGED <<athletes, history>>
    BY <1>a, <2>1 DEF Finish, EmptyFrame, Updates
  <2>2. CASE ~ (Finish(r, "refused") /\ UNCHANGED <<athletes, history>>)
    <3>1. PICK C \in SUBSET (1 .. MaxRows), U \in SUBSET Update,
                I \in SUBSET (SourceRow \X AthleteIds) :
             /\ frame' = [frame EXCEPT ![r].creates = C, ![r].updates = U]
             /\ imported' = imported \cup I
             /\ \A i \in C : i \in 1 .. Len(Replies(r)) /\ CanCreate(Replies(r)[i].row)
             /\ \A v \in U : /\ Taken(r, v.row, v.athlete)
                             /\ v.patch = SuggestedPatch(v.row, athletes[v.athlete])
             /\ \A p \in I : /\ Taken(r, p[1], p[2])
                             /\ SuggestedPatch(p[1], athletes[p[2]]) = NoPatch
      BY <1>1, <2>2, PreviewFacts
    <3>2. athletes' = athletes /\ disturbed' = disturbed
      BY <1>1, <2>2, PreviewFacts
    <3>3. q = r => Updates(q)' = U
      BY <1>a, <3>1 DEF Updates, Frames
    <3>4. q # r => Updates(q)' = Updates(q)
      BY <1>a, <3>1 DEF Updates
    <3>5. QED
      BY <3>1, <3>2, <3>3, <3>4
  <2>3. QED
    BY <2>1, <2>2
<1>2. ASSUME NEW r \in Requests, Resolve(r) PROVE Updates(q)' = Updates(q)
  <2>1. PICK reply :
           frame' = [frame EXCEPT ![r].todo = Tail(@), ![r].replies = Append(@, reply)]
    BY <1>2, ResolveFacts
  <2>2. QED
    BY <1>a, <2>1 DEF Updates, Frames
<1>3. ASSUME NEW r \in Requests,
             \/ StartResolve(r) \/ BulkCreate(r) \/ BulkUpdateRead(r) \/ BulkUpdateWrite(r)
             \/ EditAthlete(r) \/ DeleteAthlete(r) \/ Stop(r)
      PROVE  Updates(q)' = Updates(q) \/ Updates(q)' = {}
  BY <1>3, FrameStep
<1>4. QED
  BY <1>1, <1>2, <1>3 DEF Next

\* Every import was there, or was matched, created or updated in this step.
LEMMA NewImports ==
    ASSUME LocalInv, Next, NEW p \in imported'
    PROVE  \/ p \in imported
           \/ /\ \E r \in Requests : Taken(r, p[1], p[2])
              /\ p \in SourceRow \X AthleteIds
              /\ SuggestedPatch(p[1], athletes[p[2]]) = NoPatch
              /\ athletes' = athletes /\ disturbed' = disturbed
           \/ \E r \in Requests : BulkCreate(r) /\ \E i \in frame[r].creates :
                 p = <<Replies(r)[i].row, <<r, i>>>>
           \/ \E r \in Requests : BulkUpdateWrite(r) /\ \E u \in Updates(r) :
                 p = <<u.row, u.athlete>>
<1>1. ASSUME NEW r \in Requests, Preview(r), p \notin imported
      PROVE  /\ Taken(r, p[1], p[2])
             /\ p \in SourceRow \X AthleteIds
             /\ SuggestedPatch(p[1], athletes[p[2]]) = NoPatch
             /\ athletes' = athletes /\ disturbed' = disturbed
  BY <1>1, PreviewFacts DEF history
<1>2. ASSUME NEW r \in Requests, BulkCreate(r)
      PROVE  p \in imported \/ \E i \in frame[r].creates : p = <<Replies(r)[i].row, <<r, i>>>>
  BY <1>2 DEF BulkCreate
<1>3. ASSUME NEW r \in Requests, BulkUpdateWrite(r)
      PROVE  p \in imported \/ \E u \in Updates(r) : p = <<u.row, u.athlete>>
  BY <1>3 DEF BulkUpdateWrite
<1>4. ASSUME NEW r \in Requests,
             \/ StartResolve(r) \/ Resolve(r) \/ BulkUpdateRead(r)
             \/ EditAthlete(r) \/ DeleteAthlete(r) \/ Stop(r)
      PROVE  imported' = imported
  BY <1>4 DEF StartResolve, Resolve, BulkUpdateRead, EditAthlete, DeleteAthlete, Stop, history
<1>5. QED
  BY <1>1, <1>2, <1>3, <1>4 DEF Next

\* A label of an import that has created nothing follows only such labels.
LEMMA EarlyLabels ==
    ASSUME LocalInv, Next, NEW r \in Requests, pc'[r] \in {"idle", "resolve", "preview", "create"}
    PROVE  pc[r] \in {"idle", "resolve", "preview", "create"} /\ ~BulkCreate(r)
<1>a. pc \in [Requests -> Labels]
  BY DEF LocalInv
<1>1. ASSUME NEW q \in Requests, StartResolve(q) \/ Resolve(q) PROVE pc[q] \in {"idle", "resolve"}
  BY <1>1 DEF StartResolve, Resolve
<1>2. ASSUME NEW q \in Requests,
             StartResolve(q) \/ Resolve(q) \/ Preview(q) \/ BulkCreate(q) \/ BulkUpdateRead(q)
             \/ BulkUpdateWrite(q) \/ EditAthlete(q) \/ DeleteAthlete(q) \/ Stop(q)
      PROVE  \E label \in Labels : Goto(q, label)
  <2>1. CASE Preview(q)
    BY <2>1, PreviewFacts DEF Finish, Labels
  <2>2. CASE ~Preview(q)
    BY <1>2, <2>2 DEF StartResolve, Resolve, BulkCreate, BulkUpdateRead, BulkUpdateWrite,
       EditAthlete, DeleteAthlete, Stop, Finish, Labels
  <2>3. QED
    BY <2>1, <2>2
<1>3. PICK q \in Requests :
         StartResolve(q) \/ Resolve(q) \/ Preview(q) \/ BulkCreate(q) \/ BulkUpdateRead(q)
         \/ BulkUpdateWrite(q) \/ EditAthlete(q) \/ DeleteAthlete(q) \/ Stop(q)
  BY DEF Next
<1>4. CASE q # r
  <2>1. pc'[r] = pc[r]
    BY <1>a, <1>2, <1>3, <1>4 DEF Goto
  <2>2. CASE BulkCreate(r)
    <3>1. Goto(r, "update")
      BY <2>2 DEF BulkCreate
    <3>2. pc'[r] = "update"
      BY <1>a, <3>1 DEF Goto
    <3>3. QED
      BY <3>2
  <2>3. QED
    BY <2>1, <2>2
<1>5. CASE q = r
  <2>1. CASE StartResolve(r) \/ Resolve(r)
    BY <1>1, <2>1 DEF StartResolve, Resolve, BulkCreate
  <2>2. CASE Preview(r)
    BY <2>2 DEF Preview, BulkCreate
  <2>3. CASE BulkCreate(r) \/ BulkUpdateRead(r) \/ BulkUpdateWrite(r)
             \/ EditAthlete(r) \/ DeleteAthlete(r) \/ Stop(r)
    <3>1. \E label \in {"update", "write", "done", "refused", "failed"} : Goto(r, label)
      BY <2>3 DEF BulkCreate, BulkUpdateRead, BulkUpdateWrite, EditAthlete, DeleteAthlete,
         Stop, Finish
    <3>2. QED
      BY <1>a, <3>1 DEF Goto
  <2>4. QED
    BY <1>3, <1>5, <2>1, <2>2, <2>3
<1>6. QED
  BY <1>4, <1>5

\* Only bulk-create makes athletes.
LEMMA BornByCreate ==
    ASSUME LocalInv, Next, NEW a \in AthleteIds, athletes[a] = None, athletes'[a] # None
    PROVE  \E r \in Requests : BulkCreate(r) /\ \E i \in frame[r].creates : a = <<r, i>>
<1>a. athletes \in Table
  BY DEF LocalInv
<1>1. ASSUME NEW r \in Requests, Preview(r) PROVE athletes' = athletes
  BY <1>1, PreviewFacts
<1>2. ASSUME NEW r \in Requests, StartResolve(r) \/ Resolve(r) \/ BulkUpdateRead(r) \/ Stop(r)
      PROVE  athletes' = athletes
  BY <1>2 DEF StartResolve, Resolve, BulkUpdateRead, Stop
<1>3. ASSUME NEW r \in Requests, BulkCreate(r) PROVE \E i \in frame[r].creates : a = <<r, i>>
  BY <1>3 DEF BulkCreate, Write
<1>4. ASSUME NEW r \in Requests, BulkUpdateWrite(r) PROVE athletes'[a] = athletes[a]
  BY <1>4 DEF BulkUpdateWrite, Write, Present
<1>5. ASSUME NEW r \in Requests, EditAthlete(r) PROVE athletes'[a] = athletes[a]
  <2>1. PICK b \in Present, e \in Edits : Write(r, [athletes EXCEPT ![b] = e])
    BY <1>5 DEF EditAthlete
  <2>2. QED
    BY <1>a, <2>1 DEF Write, Table, Present
<1>6. ASSUME NEW r \in Requests, DeleteAthlete(r) PROVE athletes'[a] = athletes[a]
  <2>1. PICK b \in Present : Write(r, [athletes EXCEPT ![b] = None])
    BY <1>6 DEF DeleteAthlete
  <2>2. QED
    BY <1>a, <2>1 DEF Write, Table, Present
<1>7. QED
  BY <1>1, <1>2, <1>3, <1>4, <1>5, <1>6 DEF Next

LEMMA FreshStep ==
    ASSUME LocalInv, FreshInv, Next
    PROVE  FreshInv'
<1>1. SUFFICES ASSUME NEW r \in Requests, NEW n \in 1 .. MaxRows,
                      pc'[r] \in {"idle", "resolve", "preview", "create"}
               PROVE  Untouched(<<r, n>>)'
  BY DEF FreshInv
<1> DEFINE a == <<r, n>>
<1>2. a \in AthleteIds
  BY DEF AthleteIds
<1>3. Untouched(a) /\ ~BulkCreate(r)
  BY <1>1, EarlyLabels DEF FreshInv
<1>4. ASSUME NEW q \in Requests, BulkCreate(q), NEW i, a = <<q, i>> PROVE FALSE
  BY <1>3, <1>4
<1>5. athletes'[a] = None
  BY <1>2, <1>3, <1>4, BornByCreate DEF Untouched
<1>6. ASSUME NEW q \in Requests, NEW s PROVE ~Taken(q, s, a)
  BY <1>3 DEF Taken, Untouched
<1>7. ASSUME NEW p \in imported' PROVE p[2] # a
  <2>1. CASE p \in imported
    BY <1>3, <2>1 DEF Untouched
  <2>2. CASE \E q \in Requests : Taken(q, p[1], p[2])
    BY <1>6, <2>2
  <2>3. CASE \E q \in Requests : BulkCreate(q) /\ \E i \in frame[q].creates :
                p = <<Replies(q)[i].row, <<q, i>>>>
    BY <1>4, <2>3
  <2>4. CASE \E q \in Requests : BulkUpdateWrite(q) /\ \E u \in Updates(q) :
                p = <<u.row, u.athlete>>
    BY <1>3, <2>4 DEF Untouched
  <2>5. QED
    BY <2>1, <2>2, <2>3, <2>4, NewImports
<1>8. ASSUME NEW q \in Requests, NEW i \in 1 .. Len(Replies(q)') PROVE a \notin Replies(q)'[i].seen
  <2>1. CASE \E j \in 1 .. Len(Replies(q)) : Shared(Replies(q)[j], Replies(q)'[i])
    BY <1>3, <2>1 DEF Untouched, Shared
  <2>2. CASE Replies(q)'[i].seen = Candidates(Replies(q)'[i].row)
    BY <1>3, <2>2 DEF Untouched, Candidates, Present
  <2>3. QED
    BY <2>1, <2>2, NewReplies
<1>9. ASSUME NEW q \in Requests, NEW u \in Updates(q)' PROVE u.athlete # a
  <2>1. CASE u \in Updates(q)
    BY <1>3, <2>1 DEF Untouched
  <2>2. CASE Taken(q, u.row, u.athlete)
    BY <1>6, <2>2
  <2>3. QED
    BY <2>1, <2>2, NewUpdates
<1>10. QED
  BY <1>5, <1>7, <1>8, <1>9 DEF Untouched

-----------------------------------------------------------------------------
(* What is intact stays what it was.                                       *)

\* The types behind the answers and the updates.
LEMMA KnownTypes ==
    ASSUME LocalInv, NEW q \in Requests
    PROVE  /\ \A i \in 1 .. Len(Replies(q)) : Replies(q)[i] \in Reply
           /\ \A u \in Updates(q) : u \in Update
<1>1. frame[q] \in Frames
  BY DEF LocalInv
<1>2. QED
  BY <1>1 DEF Frames, Replies, Updates

LEMMA RepliesStep ==
    ASSUME LocalInv, FreshInv, RepliesInv, Next
    PROVE  RepliesInv'
<1>1. SUFFICES ASSUME NEW q \in Requests, NEW i \in 1 .. Len(Replies(q)'),
                      NEW a \in Replies(q)'[i].seen, Intact(a)'
               PROVE  SameCandidate(Replies(q)'[i].row, athletes'[a])
  BY DEF RepliesInv
<1>2. CASE \E j \in 1 .. Len(Replies(q)) : Shared(Replies(q)[j], Replies(q)'[i])
  <2>1. PICK j \in 1 .. Len(Replies(q)) : Shared(Replies(q)[j], Replies(q)'[i])
    BY <1>2
  <2>2. a \in AthleteIds /\ a \in Replies(q)[j].seen
    BY <2>1, KnownTypes DEF Reply, Shared
  <2>3. ~Untouched(a)
    BY <2>2 DEF Untouched
  <2>4. Intact(a) /\ ~Loses(athletes[a], athletes'[a])
    BY <1>1, <2>2, <2>3, IntactBefore
  <2>5. SameCandidate(Replies(q)[j].row, athletes[a])
    BY <2>2, <2>4 DEF RepliesInv
  <2>6. QED
    BY <2>1, <2>4, <2>5 DEF SameCandidate, Loses, Shared, CacheKey
<1>3. CASE Replies(q)'[i].seen = Candidates(Replies(q)'[i].row) /\ athletes' = athletes
  BY <1>3 DEF Candidates
<1>4. QED
  BY <1>2, <1>3, NewReplies

\* What was taken is settled, once it is patched.
LEMMA TakenSettles ==
    ASSUME LocalInv, RepliesInv, NEW q \in Requests, NEW s \in SourceRow, NEW a \in AthleteIds,
           Taken(q, s, a), Intact(a)
    PROVE  Settled(s, Patched(athletes[a], SuggestedPatch(s, athletes[a])))
<1>1. PICK i \in 1 .. Len(Replies(q)) : s = Replies(q)[i].row /\ a \in Replies(q)[i].seen
  BY DEF Taken
<1>2. SameCandidate(s, athletes[a])
  BY <1>1 DEF RepliesInv
<1>3. athletes[a] \in Athlete
  BY DEF LocalInv, Table, Intact
<1>4. QED
  BY <1>2, <1>3, AcceptedSettles DEF Taken

LEMMA UpdatesStep ==
    ASSUME LocalInv, FreshInv, RepliesInv, UpdatesInv, Next
    PROVE  UpdatesInv'
<1>1. SUFFICES ASSUME NEW q \in Requests, NEW u \in Updates(q)', Intact(u.athlete)'
               PROVE  Settled(u.row, Patched(athletes'[u.athlete], u.patch))
  BY DEF UpdatesInv
<1> DEFINE a == u.athlete
<1>2. CASE u \in Updates(q)
  <2>1. u \in Update
    BY <1>2, KnownTypes
  <2>2. a \in AthleteIds /\ u.patch \in Patch
    BY <2>1 DEF Update
  <2>3. ~Untouched(a)
    BY <1>2 DEF Untouched
  <2>4. Intact(a) /\ ~Loses(athletes[a], athletes'[a]) /\ athletes[a] \in Athlete /\ athletes'[a] \in Athlete
    BY <1>1, <2>2, <2>3, IntactBefore
  <2>5. Settled(u.row, Patched(athletes[a], u.patch))
    BY <1>2, <2>4 DEF UpdatesInv
  <2>6. QED
    BY <2>2, <2>4, <2>5, PatchStillSettles
<1>3. CASE /\ u \in Update /\ Taken(q, u.row, u.athlete)
           /\ u.patch = SuggestedPatch(u.row, athletes[u.athlete])
           /\ athletes' = athletes /\ disturbed' = disturbed
  <2>1. u.row \in SourceRow /\ a \in AthleteIds /\ Intact(a)
    BY <1>1, <1>3 DEF Update, Intact
  <2>2. QED
    BY <1>3, <2>1, TakenSettles
<1>4. QED
  BY <1>2, <1>3, NewUpdates

LEMMA ImportedStep ==
    ASSUME LocalInv, FreshInv, RepliesInv, UpdatesInv, ImportedInv, Next
    PROVE  ImportedInv'
<1>1. ASSUME NEW p \in imported'
      PROVE  p \in SourceRow \X AthleteIds /\ (Intact(p[2])' => Settled(p[1], athletes'[p[2]]))
  <2>1. CASE p \in imported
    <3>1. p \in SourceRow \X AthleteIds /\ (Intact(p[2]) => Settled(p[1], athletes[p[2]]))
      BY <2>1 DEF ImportedInv
    <3>2. ~Untouched(p[2]) /\ p[2] \in AthleteIds
      BY <2>1, <3>1 DEF Untouched
    <3>3. Intact(p[2])' => Intact(p[2]) /\ ~Loses(athletes[p[2]], athletes'[p[2]])
      BY <3>2, IntactBefore
    <3>4. QED
      BY <3>1, <3>3, SettledStays
  <2>2. CASE /\ \E r \in Requests : Taken(r, p[1], p[2])
             /\ p \in SourceRow \X AthleteIds
             /\ SuggestedPatch(p[1], athletes[p[2]]) = NoPatch
             /\ athletes' = athletes /\ disturbed' = disturbed
    <3>1. SUFFICES ASSUME Intact(p[2])' PROVE Settled(p[1], athletes'[p[2]])
      BY <2>2
    <3>2. Intact(p[2]) /\ p[1] \in SourceRow /\ p[2] \in AthleteIds
      BY <2>2, <3>1 DEF Intact
    <3>3. Settled(p[1], Patched(athletes[p[2]], NoPatch))
      BY <2>2, <3>2, TakenSettles
    <3>4. ~Loses(Patched(athletes[p[2]], NoPatch), athletes[p[2]])
      <4>1. athletes[p[2]] \in Athlete
        BY <3>2 DEF LocalInv, Table, Intact
      <4>2. QED
        BY <4>1, EmptyPatch, PatchedFields DEF NoPatch, Loses
    <3>5. QED
      BY <2>2, <3>3, <3>4, SettledStays
  <2>3. ASSUME NEW r \in Requests, BulkCreate(r), NEW i \in frame[r].creates,
               p = <<Replies(r)[i].row, <<r, i>>>>
        PROVE  p \in SourceRow \X AthleteIds /\ Settled(p[1], athletes'[p[2]])
    <3>1. LocalOK(frame[r], pc[r])
      BY DEF LocalInv
    <3>2. i \in 1 .. Len(Replies(r)) /\ CanCreate(Replies(r)[i].row) /\ i \in 1 .. MaxRows
      BY <2>3, <3>1 DEF LocalOK, Replies, Frames
    <3>3. Replies(r)[i].row \in SourceRow
      BY <3>2, KnownTypes DEF Reply
    <3>4. <<r, i>> \in AthleteIds
      BY <3>2 DEF AthleteIds
    <3>5. athletes'[<<r, i>>] = Created(Replies(r)[i].row)
      BY <2>3, <3>4 DEF BulkCreate, Write
    <3>6. QED
      BY <2>3, <3>2, <3>3, <3>4, <3>5, CreatedSettles
  <2>4. ASSUME NEW r \in Requests, BulkUpdateWrite(r), NEW u \in Updates(r),
               p = <<u.row, u.athlete>>
        PROVE  p \in SourceRow \X AthleteIds /\ (Intact(p[2])' => Settled(p[1], athletes'[p[2]]))
    <3> DEFINE a     == u.athlete
               ids   == {v.athlete : v \in Updates(r)} \cap Present
               table == [b \in AthleteIds |-> IF b \in ids THEN Updated(r, b) ELSE athletes[b]]
               lost  == {b \in ids : \/ Loses(athletes[b], table[b])
                                     \/ \E v \in Updates(r) :
                                           /\ v.athlete = b
                                           /\ Loses(Patched(athletes[b], v.patch), table[b])}
    <3>1. u.row \in SourceRow /\ a \in AthleteIds
      BY <2>4, KnownTypes DEF Update
    <3>2. SUFFICES ASSUME Intact(a)' PROVE Settled(u.row, athletes'[a])
      BY <2>4, <3>1
    <3>3. ~Untouched(a)
      BY <2>4 DEF Untouched
    <3>4. Intact(a)
      BY <3>1, <3>2, <3>3, IntactBefore
    <3>5. Write(r, table) /\ disturbed' = disturbed \cup lost
      BY <2>4 DEF BulkUpdateWrite
    <3>6. athletes'[a] = table[a] /\ a \in ids /\ a \notin lost
      BY <2>4, <3>1, <3>2, <3>4, <3>5 DEF Write, Intact, Present
    <3>7. ~Loses(Patched(athletes[a], u.patch), athletes'[a])
      BY <2>4, <3>6
    <3>8. Settled(u.row, Patched(athletes[a], u.patch))
      BY <2>4, <3>4 DEF UpdatesInv
    <3>9. QED
      BY <3>7, <3>8, SettledStays
  <2>5. QED
    BY <2>1, <2>2, <2>3, <2>4, NewImports
<1>2. QED
  BY <1>1 DEF ImportedInv

-----------------------------------------------------------------------------
(* What a client has read is so, or it is told.                            *)

\* What is not told to a client is as it was, but for what it creates itself.
LEMMA ToldOrSame ==
    ASSUME LocalInv, Next, NEW r \in Requests, pc[r] # "idle", ~Preview(r), ~BulkUpdateWrite(r),
           NEW a \in AthleteIds, a \notin written'[r]
    PROVE  /\ a \notin written[r]
           /\ \/ athletes'[a] = athletes[a]
              \/ BulkCreate(r) /\ \E i \in frame[r].creates : a = <<r, i>>
<1>a. written \in [Requests -> SUBSET AthleteIds]
  BY DEF LocalInv
<1>1. ASSUME NEW q \in Requests, q # r, NEW table, Write(q, table)
      PROVE  a \notin written[r] /\ athletes'[a] = athletes[a]
  BY <1>1 DEF Write
<1>2. ASSUME NEW q \in Requests, Preview(q)
      PROVE  a \notin written[r] /\ athletes'[a] = athletes[a]
  <2>1. CASE UNCHANGED <<athletes, history>>
    BY <2>1 DEF history
  <2>2. CASE written' = [written EXCEPT ![q] = {}] /\ UNCHANGED athletes
    <3>1. q # r
      BY <1>2
    <3>2. QED
      BY <1>a, <2>2, <3>1
  <2>3. QED
    BY <1>2, <2>1, <2>2, PreviewFacts
<1>3. ASSUME NEW q \in Requests, StartResolve(q) \/ Resolve(q) \/ BulkUpdateRead(q) \/ Stop(q)
      PROVE  a \notin written[r] /\ athletes'[a] = athletes[a]
  BY <1>3 DEF StartResolve, Resolve, BulkUpdateRead, Stop, history
<1>4. ASSUME NEW q \in Requests, EditAthlete(q) \/ DeleteAthlete(q)
      PROVE  a \notin written[r] /\ athletes'[a] = athletes[a]
  <2>1. q # r
    BY <1>4 DEF EditAthlete, DeleteAthlete
  <2>2. \E table : Write(q, table)
    BY <1>4 DEF EditAthlete, DeleteAthlete
  <2>3. QED
    BY <1>1, <2>1, <2>2
<1>5. ASSUME NEW q \in Requests, BulkUpdateWrite(q)
      PROVE  a \notin written[r] /\ athletes'[a] = athletes[a]
  <2>1. q # r
    BY <1>5
  <2>2. \E table : Write(q, table)
    BY <1>5 DEF BulkUpdateWrite
  <2>3. QED
    BY <1>1, <2>1, <2>2
<1>6. ASSUME NEW q \in Requests, BulkCreate(q)
      PROVE  /\ a \notin written[r]
             /\ \/ athletes'[a] = athletes[a]
                \/ q = r /\ \E i \in frame[r].creates : a = <<r, i>>
  <2>1. CASE q # r
    <3>1. \E table : Write(q, table)
      BY <1>6 DEF BulkCreate
    <3>2. QED
      BY <1>1, <2>1, <3>1
  <2>2. CASE q = r
    BY <1>6, <2>2 DEF BulkCreate, Write
  <2>3. QED
    BY <2>1, <2>2
<1>7. QED
  BY <1>2, <1>3, <1>4, <1>5, <1>6 DEF Next

\* A patch is safe for what it was made from.
LEMMA SuggestionFills ==
    ASSUME NEW s, NEW a, NEW p, p = SuggestedPatch(s, a)
    PROVE  /\ p.city # None => a.city = None
           /\ p.club # None => ~Meaningful(a.club)
BY NoneIsNoClub DEF SuggestedPatch, CanEnrich, CanEnrichClub, Weak

LEMMA RaceStep ==
    ASSUME LocalInv, FreshInv, RaceInv, Next
    PROVE  RaceInv'
<1>a. /\ pc \in [Requests -> Labels] /\ frame \in [Requests -> Frames] /\ athletes \in Table
      /\ \A r \in Requests : LocalOK(frame[r], pc[r])
  BY DEF LocalInv
<1>1. ASSUME NEW r \in Requests, NEW u \in Updates(r)', u.athlete \notin written'[r],
             athletes'[u.athlete] # None
      PROVE  /\ u.patch.city # None => athletes'[u.athlete].city = None
             /\ u.patch.club # None => ~Meaningful(athletes'[u.athlete].club)
  <2> DEFINE a == u.athlete
  <2>1. CASE /\ u.patch = SuggestedPatch(u.row, athletes[a]) /\ athletes' = athletes
    BY <2>1, SuggestionFills
  <2>2. CASE u \in Updates(r)
    <3>1. pc[r] \in {"create", "update", "write"}
      BY <1>a, <2>2 DEF LocalOK, Updates
    <3>2. ~Preview(r)
      BY <3>1 DEF Preview
    <3>3. ~BulkUpdateWrite(r)
      <4>1. BulkUpdateWrite(r) => Finish(r, "done")
        BY DEF BulkUpdateWrite
      <4>2. Finish(r, "done") => Updates(r)' = {}
        BY <1>a DEF Finish, Updates, EmptyFrame
      <4>3. QED
        BY <1>1, <4>1, <4>2
    <3>4. a \in AthleteIds
      BY <2>2, KnownTypes DEF Update
    <3>5. ~ (BulkCreate(r) /\ \E i \in frame[r].creates : a = <<r, i>>)
      <4>1. SUFFICES ASSUME BulkCreate(r), NEW i \in frame[r].creates, a = <<r, i>> PROVE FALSE
        OBVIOUS
      <4>2. pc[r] = "create" /\ i \in 1 .. MaxRows
        BY <1>a, <4>1 DEF BulkCreate, Frames
      <4>3. Untouched(a)
        BY <4>1, <4>2 DEF FreshInv
      <4>4. QED
        BY <2>2, <4>3 DEF Untouched
    <3>6. a \notin written[r] /\ athletes'[a] = athletes[a]
      BY <1>1, <3>1, <3>2, <3>3, <3>4, <3>5, ToldOrSame
    <3>7. QED
      BY <1>1, <2>2, <3>6 DEF RaceInv
  <2>3. QED
    BY <2>1, <2>2, NewUpdates
<1>2. ASSUME NEW r \in Requests, pc'[r] = "write", NEW a \in AthleteIds \ written'[r]
      PROVE  frame'[r].read[a] = athletes'[a]
  <2>1. PICK q \in Requests :
           StartResolve(q) \/ Resolve(q) \/ Preview(q) \/ BulkCreate(q) \/ BulkUpdateRead(q)
           \/ BulkUpdateWrite(q) \/ EditAthlete(q) \/ DeleteAthlete(q) \/ Stop(q)
    BY DEF Next
  <2>2. CASE q = r
    <3>1. CASE BulkUpdateRead(r)
      <4>1. ~ (Finish(r, "done") \/ Finish(r, "refused"))
        BY <1>a, <1>2 DEF Finish, Goto
      <4>2. frame' = [frame EXCEPT ![r].read = athletes] /\ UNCHANGED athletes
        BY <3>1, <4>1 DEF BulkUpdateRead
      <4>3. QED
        BY <1>a, <4>2 DEF Frames
    <3>2. CASE ~BulkUpdateRead(r)
      <4>1. CASE Preview(r)
        BY <1>a, <1>2, <4>1, PreviewFacts DEF Finish, Goto
      <4>2. CASE ~Preview(r)
        BY <1>a, <1>2, <2>1, <2>2, <3>2, <4>2 DEF StartResolve, Resolve, BulkCreate,
           BulkUpdateWrite, EditAthlete, DeleteAthlete, Stop, Finish, Goto
      <4>3. QED
        BY <4>1, <4>2
    <3>3. QED
      BY <3>1, <3>2
  <2>3. CASE q # r
    <3>1. frame'[r] = frame[r] /\ pc'[r] = pc[r]
      <4>1. CASE Preview(q)
        <5>1. CASE Finish(q, "refused") /\ UNCHANGED <<athletes, history>>
          BY <1>a, <2>3, <5>1 DEF Finish, Goto
        <5>2. CASE ~ (Finish(q, "refused") /\ UNCHANGED <<athletes, history>>)
          <6>1. PICK C \in SUBSET (1 .. MaxRows), U \in SUBSET Update :
                   /\ frame' = [frame EXCEPT ![q].creates = C, ![q].updates = U]
                   /\ \A j \in C : j \in 1 .. Len(Replies(q)) /\ CanCreate(Replies(q)[j].row)
            BY <4>1, <5>2, PreviewFacts
          <6>2. Goto(q, "create")
            BY <4>1, <5>2, PreviewFacts
          <6>3. QED
            BY <1>a, <2>3, <6>1, <6>2 DEF Goto
        <5>3. QED
          BY <5>1, <5>2
      <4>2. CASE Resolve(q)
        BY <1>a, <2>3, <4>2 DEF Resolve, Goto
      <4>3. CASE ~Preview(q) /\ ~Resolve(q)
        BY <2>1, <2>3, <4>3, FrameStep
      <4>4. QED
        BY <4>1, <4>2, <4>3
    <3>2. pc[r] = "write"
      BY <1>2, <3>1
    <3>3. ~Preview(r) /\ ~BulkCreate(r)
      BY <3>2 DEF Preview, BulkCreate
    <3>4. ~BulkUpdateWrite(r)
      <4>1. BulkUpdateWrite(r) => Goto(r, "done")
        BY DEF BulkUpdateWrite, Finish
      <4>2. QED
        BY <1>a, <1>2, <4>1 DEF Goto
    <3>5. a \notin written[r] /\ athletes'[a] = athletes[a]
      BY <1>2, <3>2, <3>3, <3>4, ToldOrSame
    <3>6. QED
      BY <3>1, <3>2, <3>5 DEF RaceInv
  <2>4. QED
    BY <2>2, <2>3
<1>3. QED
  BY <1>1, <1>2 DEF RaceInv

-----------------------------------------------------------------------------
(* The invariant and the theorems.                                         *)

-----------------------------------------------------------------------------
(* How many athletes advice makes of one person.                           *)

\* The recommendation to create knows of one candidate at most.
AdviceInv ==
    \A r \in Requests : \A i \in 1 .. Len(Replies(r)) :
        Replies(r)[i].action = "create_new" => \A x, y \in Replies(r)[i].seen : x = y

LEMMA AdviceStep ==
    ASSUME LocalInv, AdviceInv, Next
    PROVE  AdviceInv'
<1>1. SUFFICES ASSUME NEW q \in Requests, NEW i \in 1 .. Len(Replies(q)'),
                      Replies(q)'[i].action = "create_new",
                      NEW x \in Replies(q)'[i].seen, NEW y \in Replies(q)'[i].seen
               PROVE  x = y
  BY DEF AdviceInv
<1>2. CASE \E j \in 1 .. Len(Replies(q)) : Shared(Replies(q)[j], Replies(q)'[i])
  BY <1>1, <1>2 DEF AdviceInv, Shared
<1>3. CASE Replies(q)'[i].action = Decide(Replies(q)'[i].row, athletes, Replies(q)'[i].seen)
  BY <1>1, <1>3 DEF Decide
<1>4. QED
  BY <1>2, <1>3, NewReplies

SamePerson(a, b) == a.who = b.who /\ a.gender = b.gender

\* One query finds both.
Alike(a, b) == /\ a.who.text = b.who.text /\ ~a.who.padded /\ ~b.who.padded
               /\ a.gender = b.gender

NoThree(S, table) ==
    \A x, y, z \in S :
        Alike(table[x], table[y]) /\ Alike(table[y], table[z]) => x = y \/ y = z \/ x = z

SoundInv == sound \subseteq Present /\ NoThree(sound, athletes)

\* What counts as created on advice is there, and stays the person it was, or has
\* just been created.
LEMMA SoundStays ==
    ASSUME LocalInv, FreshInv, SoundInv, Next, NEW x \in sound'
    PROVE  \/ x \in sound /\ x \in AthleteIds /\ athletes[x] # None /\ athletes'[x] # None
              /\ SamePerson(athletes'[x], athletes[x])
           \/ \E r \in Requests : BulkCreate(r)
<1>a. athletes \in Table
  BY DEF LocalInv
<1>1. ASSUME NEW r \in Requests, Preview(r) PROVE athletes' = athletes /\ sound' = sound
  BY <1>1, PreviewFacts DEF history
<1>2. ASSUME NEW r \in Requests, StartResolve(r) \/ Resolve(r) \/ BulkUpdateRead(r) \/ Stop(r)
      PROVE  athletes' = athletes /\ sound' = sound
  BY <1>2 DEF StartResolve, Resolve, BulkUpdateRead, Stop, history
<1>3. x \in sound => x \in AthleteIds /\ athletes[x] # None /\ athletes[x] \in Athlete
  BY <1>a DEF SoundInv, Present, Table
<1>4. ASSUME NEW r \in Requests, BulkUpdateWrite(r)
      PROVE  x \in sound /\ athletes'[x] # None /\ SamePerson(athletes'[x], athletes[x])
  <2> DEFINE ids   == {u.athlete : u \in Updates(r)} \cap Present
             table == [a \in AthleteIds |-> IF a \in ids THEN Updated(r, a) ELSE athletes[a]]
  <2>1. athletes' = table /\ sound' = sound /\ pc[r] = "write"
    BY <1>4 DEF BulkUpdateWrite, Write
  <2>2. CASE x \in ids
    <3>1. PICK w \in Updates(r) : w.athlete = x
      BY <2>2
    <3>2. /\ Updated(r, x) \in Athlete /\ Updated(r, x).who = athletes[x].who
          /\ Updated(r, x).gender = athletes[x].gender
      BY <1>3, <2>1, <3>1, UpdatedType
    <3>3. athletes'[x] = Updated(r, x)
      BY <1>3, <2>1, <2>2
    <3>4. QED
      BY <2>1, <3>2, <3>3, ExistingAssumption DEF SamePerson
  <2>3. CASE x \notin ids
    BY <1>3, <2>1, <2>3 DEF SamePerson
  <2>4. QED
    BY <2>2, <2>3
<1>5. ASSUME NEW r \in Requests, EditAthlete(r)
      PROVE  x \in sound /\ athletes'[x] = athletes[x]
  <2>1. PICK b \in Present, e \in Edits :
           Write(r, [athletes EXCEPT ![b] = e]) /\ sound' = sound \ {b}
    BY <1>5 DEF EditAthlete
  <2>2. QED
    BY <1>a, <1>3, <2>1 DEF Write, Table
<1>6. ASSUME NEW r \in Requests, DeleteAthlete(r)
      PROVE  x \in sound /\ athletes'[x] = athletes[x]
  <2>1. PICK b \in Present :
           Write(r, [athletes EXCEPT ![b] = None]) /\ sound' = sound \ {b}
    BY <1>6 DEF DeleteAthlete
  <2>2. QED
    BY <1>a, <1>3, <2>1 DEF Write, Table
<1>7. QED
  BY <1>1, <1>2, <1>3, <1>4, <1>5, <1>6 DEF Next, SamePerson

\* A client that creates on advice knew of one other of the person at most.
LEMMA SoundCreate ==
    ASSUME LocalInv, FreshInv, AdviceInv, SoundInv, NEW r \in Requests, BulkCreate(r)
    PROVE  SoundInv'
<1> DEFINE Row(i) == Replies(r)[i].row
           new   == {<<r, i>> : i \in frame[r].creates}
           table == [a \in AthleteIds |-> IF a \in new THEN Created(Row(a[2])) ELSE athletes[a]]
           Knew(i) == \A a \in Present \cup (new \ {<<r, i>>}) :
                         Listed(Row(i), table[a]) => a \in Replies(r)[i].seen
           made == {<<r, i>> : i \in {n \in frame[r].creates :
                                        Replies(r)[n].action = "create_new" /\ Knew(n)}}
<1>1. athletes' = table /\ sound' = sound \cup made /\ pc[r] = "create"
  BY DEF BulkCreate, Write
<1>2. /\ frame[r].creates \subseteq 1 .. MaxRows
      /\ \A i \in frame[r].creates : /\ i \in 1 .. Len(Replies(r)) /\ Replies(r)[i] \in Reply
                                     /\ CanCreate(Row(i))
  BY KnownTypes DEF LocalInv, LocalOK, Frames, Replies
<1>3. \A a \in new : a \in AthleteIds /\ athletes[a] = None
  BY <1>1, <1>2 DEF AthleteIds, FreshInv, Untouched
<1>4. \A a \in Present : a \in AthleteIds /\ a \notin new /\ table[a] = athletes[a]
  BY <1>3 DEF Present
<1>5. ASSUME NEW i \in frame[r].creates
      PROVE  /\ table[<<r, i>>] = Created(Row(i)) /\ Created(Row(i)) # None
             /\ Created(Row(i)).who = Row(i).who /\ Created(Row(i)).gender = Row(i).gender
  <2>1. Row(i) \in SourceRow /\ Row(i).gender # None
    BY <1>2 DEF Reply, CanCreate
  <2>2. Created(Row(i)) \in Athlete
    BY <2>1 DEF Created, Athlete, SourceRow, Optional
  <2>3. table[<<r, i>>] = Created(Row(i))
    BY <1>3
  <2>4. QED
    BY <2>2, <2>3, ExistingAssumption DEF Created
<1>6. sound' \subseteq Present \cup new
  BY <1>1 DEF SoundInv
<1>7. sound' \subseteq Present'
  <2>1. ASSUME NEW x \in sound' PROVE x \in AthleteIds /\ table[x] # None
    BY <1>3, <1>4, <1>5, <1>6 DEF Present
  <2>2. QED
    BY <1>1, <2>1 DEF Present
<1>8. ASSUME NEW x \in made, NEW y \in sound' \ {x}, NEW z \in sound' \ {x},
             Alike(table[x], table[y]), Alike(table[x], table[z])
      PROVE  y = z
  <2>1. PICK i \in frame[r].creates :
           x = <<r, i>> /\ Replies(r)[i].action = "create_new" /\ Knew(i)
    OBVIOUS
  <2>2. ASSUME NEW w \in sound' \ {x}, Alike(table[x], table[w])
        PROVE  w \in Replies(r)[i].seen
    <3>1. w \in Present \cup (new \ {<<r, i>>})
      BY <1>6, <2>1
    <3>2. Listed(Row(i), table[w])
      <4>1. table[x].who = Row(i).who /\ table[x].gender = Row(i).gender
        BY <1>5, <2>1
      <4> HIDE DEF table, Row
      <4>2. QED
        BY <2>2, <4>1 DEF Listed, SpeltAs, Alike
    <3>3. QED
      BY <2>1, <3>1, <3>2
  <2>3. QED
    BY <1>2, <1>8, <2>1, <2>2 DEF AdviceInv
<1>9. ASSUME NEW x \in sound', NEW y \in sound', NEW z \in sound',
             Alike(table[x], table[y]), Alike(table[y], table[z])
      PROVE  x = y \/ y = z \/ x = z
  <2>s. \A u, w \in {x, y, z} : Alike(table[u], table[w])
    <3> HIDE DEF table
    <3>1. QED
      BY <1>9 DEF Alike
  <2>1. CASE x \in made
    BY <1>8, <2>1, <2>s
  <2>2. CASE y \in made
    BY <1>8, <2>2, <2>s
  <2>3. CASE z \in made
    BY <1>8, <2>3, <2>s
  <2>4. CASE x \notin made /\ y \notin made /\ z \notin made
    <3>1. x \in sound /\ y \in sound /\ z \in sound
      BY <1>1, <2>4
    <3>2. table[x] = athletes[x] /\ table[y] = athletes[y] /\ table[z] = athletes[z]
      BY <1>4, <3>1 DEF SoundInv
    <3>3. QED
      BY <1>9, <3>1, <3>2 DEF SoundInv, NoThree
  <2>5. QED
    BY <2>1, <2>2, <2>3, <2>4
<1> HIDE DEF table
<1>10. QED
  BY <1>1, <1>7, <1>9 DEF SoundInv, NoThree

LEMMA SoundStep ==
    ASSUME LocalInv, FreshInv, AdviceInv, SoundInv, Next
    PROVE  SoundInv'
<1>1. CASE \E r \in Requests : BulkCreate(r)
  BY <1>1, SoundCreate
<1>2. CASE ~ \E r \in Requests : BulkCreate(r)
  <2>1. ASSUME NEW x \in sound'
        PROVE  /\ x \in sound /\ x \in AthleteIds /\ athletes'[x] # None
               /\ SamePerson(athletes'[x], athletes[x])
    BY <1>2, SoundStays
  <2>2. sound' \subseteq Present'
    BY <2>1 DEF Present
  <2>3. ASSUME NEW x \in sound', NEW y \in sound', NEW z \in sound',
               Alike(athletes'[x], athletes'[y]), Alike(athletes'[y], athletes'[z])
        PROVE  x = y \/ y = z \/ x = z
    <3>1. Alike(athletes[x], athletes[y]) /\ Alike(athletes[y], athletes[z])
      BY <2>1, <2>3 DEF Alike, SamePerson
    <3>2. QED
      BY <2>1, <3>1 DEF SoundInv, NoThree
  <2>4. QED
    BY <2>2, <2>3 DEF SoundInv, NoThree
<1>3. QED
  BY <1>1, <1>2

\* A set without three different elements.
LEMMA TwoElements ==
    ASSUME NEW S, \A x, y, z \in S : x = y \/ y = z \/ x = z
    PROVE  Cardinality(S) <= 2
<1>1. CASE S = {}
  BY <1>1, FS_EmptySet
<1>2. CASE \E x \in S : S = {x}
  <2>1. PICK x : S = {x}
    BY <1>2
  <2>2. Cardinality({x}) = 1
    BY FS_Singleton
  <2>3. QED
    BY <2>1, <2>2
<1>3. CASE S # {} /\ ~ \E x \in S : S = {x}
  <2>1. PICK x \in S, y \in S : x # y
    BY <1>3
  <2>2. S = {x} \cup {y}
    BY <2>1
  <2>3. IsFiniteSet({x}) /\ Cardinality({x}) = 1
    BY FS_Singleton
  <2>4. Cardinality({x} \cup {y}) = 2
    BY <2>1, <2>3, FS_AddElement
  <2>5. QED
    BY <2>2, <2>4
<1>4. QED
  BY <1>1, <1>2, <1>3

-----------------------------------------------------------------------------
(* The invariant of all reachable states.                                  *)

HistoryTypes == disturbed \subseteq AthleteIds /\ sound \subseteq AthleteIds

IInv == /\ LocalInv /\ HistoryTypes /\ FreshInv
        /\ RepliesInv /\ UpdatesInv /\ ImportedInv /\ RaceInv
        /\ AdviceInv /\ SoundInv

LEMMA InitInv == Init => IInv
<1> SUFFICES ASSUME Init PROVE IInv
  OBVIOUS
<1>1. /\ pc = [r \in Requests |-> "idle"] /\ frame = [r \in Requests |-> EmptyFrame]
      /\ imported = {} /\ disturbed = {} /\ sound = {}
      /\ written = [r \in Requests |-> {}] /\ athletes \in Existing
  BY DEF Init
<1>2. athletes \in Table
  BY <1>1, ExistingAssumption DEF Table
<1>3. EmptyFrame \in Frames /\ LocalOK(EmptyFrame, "idle")
  BY EmptyIsOK DEF Labels
<1>4. \A r \in Requests : /\ frame[r] = EmptyFrame /\ pc[r] = "idle"
                          /\ Len(Replies(r)) = 0 /\ Updates(r) = {}
  BY <1>1 DEF EmptyFrame, Replies, Updates
<1>5. LocalInv
  BY <1>1, <1>2, <1>3 DEF LocalInv, Labels
<1>6. FreshInv
  <2>1. ASSUME NEW r \in Requests, NEW n \in 1 .. MaxRows PROVE athletes[<<r, n>>] = None
    BY <1>1, ExistingAssumption
  <2>2. QED
    BY <1>1, <1>4, <2>1 DEF FreshInv, Untouched
<1>7. RepliesInv /\ UpdatesInv /\ ImportedInv /\ RaceInv /\ HistoryTypes
  BY <1>1, <1>4 DEF RepliesInv, UpdatesInv, ImportedInv, RaceInv, HistoryTypes
<1>8. AdviceInv /\ SoundInv
  BY <1>1, <1>4 DEF AdviceInv, SoundInv, NoThree
<1>9. QED
  BY <1>5, <1>6, <1>7, <1>8 DEF IInv

LEMMA HistoryStep ==
    ASSUME LocalInv, HistoryTypes, Next
    PROVE  HistoryTypes'
<1>1. ASSUME NEW r \in Requests, Preview(r) PROVE HistoryTypes'
  BY <1>1, PreviewFacts DEF HistoryTypes, history
<1>2. ASSUME NEW r \in Requests, StartResolve(r) \/ Resolve(r) \/ BulkUpdateRead(r) \/ Stop(r)
      PROVE  HistoryTypes'
  BY <1>2 DEF StartResolve, Resolve, BulkUpdateRead, Stop, HistoryTypes, history
<1>3. ASSUME NEW r \in Requests, BulkCreate(r) PROVE HistoryTypes'
  <2>1. frame[r].creates \subseteq 1 .. MaxRows
    BY DEF LocalInv, Frames
  <2>2. \A i \in frame[r].creates : <<r, i>> \in AthleteIds
    BY <2>1 DEF AthleteIds
  <2>3. QED
    BY <1>3, <2>2 DEF BulkCreate, HistoryTypes
<1>4. ASSUME NEW r \in Requests, BulkUpdateWrite(r) PROVE HistoryTypes'
  BY <1>4 DEF BulkUpdateWrite, HistoryTypes, Present
<1>5. ASSUME NEW r \in Requests, EditAthlete(r) \/ DeleteAthlete(r) PROVE HistoryTypes'
  BY <1>5 DEF EditAthlete, DeleteAthlete, HistoryTypes, Present
<1>6. QED
  BY <1>1, <1>2, <1>3, <1>4, <1>5 DEF Next

LEMMA StepInv == IInv /\ [Next]_vars => IInv'
<1> SUFFICES ASSUME IInv, [Next]_vars PROVE IInv'
  OBVIOUS
<1>1. CASE Next
  BY <1>1, LocalStep, HistoryStep, FreshStep, RepliesStep, UpdatesStep, ImportedStep, RaceStep,
     AdviceStep, SoundStep DEF IInv
<1>2. CASE UNCHANGED vars
  <2>1. UNCHANGED <<athletes, pc, frame, imported, disturbed, written, sound>>
    BY <1>2 DEF vars, history
  <2>2. LocalInv' /\ HistoryTypes'
    BY <2>1 DEF IInv, LocalInv, HistoryTypes
  <2>3. FreshInv' /\ RepliesInv'
    BY <2>1 DEF IInv, FreshInv, RepliesInv, Untouched, Intact, Replies, Updates
  <2>4. UpdatesInv' /\ ImportedInv' /\ RaceInv'
    BY <2>1 DEF IInv, UpdatesInv, ImportedInv, RaceInv, Intact, Replies, Updates
  <2>5. AdviceInv' /\ SoundInv'
    BY <2>1 DEF IInv, AdviceInv, SoundInv, NoThree, Replies, Present
  <2>6. QED
    BY <2>2, <2>3, <2>4, <2>5 DEF IInv
<1>3. QED
  BY <1>1, <1>2

\* The inductive invariant: what any client may still use of its answers is true of
\* the table, or the athlete concerned has lost something.
THEOREM Invariance == Spec => []IInv
BY InitInv, StepInv, PTL DEF Spec

\* The table, the answers of resolve-candidates and the patches of the preview are
\* what resolve.py and bulk_ops.py declare.
THEOREM TypeCorrectness == Spec => []TypeOK
<1>1. IInv => TypeOK
  BY DEF IInv, LocalInv, HistoryTypes, ImportedInv, TypeOK, Table
<1>2. QED
  BY <1>1, Invariance, PTL

\* A row that bulk-create or bulk-update has made an athlete of, or that was matched
\* to one, is never again recommended as new (decide_identity), whatever any number
\* of clients import, while its athlete is there, has lost nothing and is stored under
\* the name that resolve_source_candidates looks up for the row.
THEOREM RecognisedTheorem == Spec => []Recognised
<1>1. IInv => Recognised
  <2>1. SUFFICES ASSUME IInv, NEW p \in imported, p[2] \in Present \ disturbed,
                        SpeltAs(p[1], athletes[p[2]])
                 PROVE  Decide(p[1], athletes, Candidates(p[1])) # "create_new"
    BY DEF Recognised
  <2>2. Settled(p[1], athletes[p[2]])
    BY <2>1 DEF IInv, ImportedInv, Intact, Present
  <2>3. p[2] \in Candidates(p[1])
    BY <2>1, <2>2 DEF Candidates, Settled, Listed, SameCandidate
  <2>4. CASE \E a, b \in Candidates(p[1]) : a # b
    BY <2>3, <2>4 DEF Decide
  <2>5. CASE ~ \E a, b \in Candidates(p[1]) : a # b
    <3>1. (CHOOSE a \in Candidates(p[1]) : TRUE) = p[2]
      BY <2>3, <2>5
    <3>2. Decide(p[1], athletes, Candidates(p[1])) = DecideOne(p[1], athletes[p[2]])
      BY <2>3, <2>5, <3>1 DEF Decide
    <3>3. QED
      BY <2>2, <3>2, SettledIsNotNew
  <2>6. QED
    BY <2>4, <2>5
<1>2. QED
  BY <1>1, Invariance, PTL

\* decide_identity sends whoever has two candidates to a reviewer, so the recommendation
\* to create makes at most two athletes that one query of resolve_source_candidates finds,
\* for any number of clients and batches that know of each other. Of names that no query
\* finds it says nothing.
THEOREM TwoTheorem == Spec => []TwoAtMost
<1>1. IInv => TwoAtMost
  <2>1. SUFFICES ASSUME IInv, NEW n \in Names, NEW g \in Genders
                 PROVE  Cardinality({a \in sound : Listed([who |-> n, gender |-> g], athletes[a])}) <= 2
    BY DEF TwoAtMost
  <2> DEFINE S == {a \in sound : Listed([who |-> n, gender |-> g], athletes[a])}
  <2>2. g # None
    BY TextAssumption
  <2>3. \A x, y \in S : Alike(athletes[x], athletes[y])
    BY <2>2 DEF Listed, SpeltAs, Alike
  <2>4. \A x, y, z \in S : x = y \/ y = z \/ x = z
    BY <2>1, <2>3 DEF IInv, SoundInv, NoThree
  <2>5. QED
    BY <2>4, TwoElements
<1>2. QED
  BY <1>1, Invariance, PTL

\* Of the candidates of a row, one that would be matched has more points than every other
\* and one with a conflict that means something fewer (score_candidate), for all texts,
\* markers and tables.
THEOREM RankedTheorem == Spec => []RankedByTrust
<1>1. RankedByTrust
  BY Margins DEF RankedByTrust
<1>2. QED
  BY <1>1, PTL

\* What bulk-update writes to an athlete nobody else has written since the preview:
\* each field is what it was or what a patch has for it.
LEMMA WrittenFields ==
    ASSUME IInv, NEW r \in Requests, BulkUpdateWrite(r), NEW w \in Updates(r),
           athletes[w.athlete] # None, w.athlete \notin written[r]
    PROVE  /\ athletes[w.athlete] \in Athlete
           /\ athletes'[w.athlete] = Updated(r, w.athlete)
           /\ Updated(r, w.athlete) \in Athlete
           /\ Updated(r, w.athlete).who = athletes[w.athlete].who
           /\ Updated(r, w.athlete).gender = athletes[w.athlete].gender
           /\ \A f \in {"city", "club", "license"} :
                 \/ /\ Updated(r, w.athlete)[f] = athletes[w.athlete][f]
                    /\ \A u \in Updates(r) : u.athlete = w.athlete => u.patch[f] = None
                 \/ \E u \in Updates(r) : /\ u.athlete = w.athlete /\ u.patch[f] # None
                                          /\ Updated(r, w.athlete)[f] = u.patch[f]
<1> DEFINE a == w.athlete
<1>1. pc[r] = "write" /\ LocalInv
  BY DEF BulkUpdateWrite, IInv
<1>2. a \in AthleteIds
  BY <1>1, KnownTypes DEF Update
<1>3. athletes[a] \in Athlete
  BY <1>1, <1>2 DEF LocalInv, Table
<1>4. athletes'[a] = Updated(r, a)
  BY <1>2 DEF BulkUpdateWrite, Write, Present
<1>5. /\ Updated(r, a) \in Athlete
      /\ Updated(r, a).who = athletes[a].who /\ Updated(r, a).gender = athletes[a].gender
      /\ \A f \in {"city", "club", "license"} :
            Updated(r, a)[f] = IF f \in Fields(r) THEN Value(r, a, f) ELSE athletes[a][f]
  BY <1>1, <1>2, UpdatedType
<1>6. frame[r].read[a] = athletes[a]
  BY <1>1, <1>2 DEF IInv, RaceInv
<1>7. ASSUME NEW f \in {"city", "club", "license"}
      PROVE  \/ /\ Updated(r, a)[f] = athletes[a][f]
                /\ \A u \in Updates(r) : u.athlete = a => u.patch[f] = None
             \/ \E u \in Updates(r) : /\ u.athlete = a /\ u.patch[f] # None
                                      /\ Updated(r, a)[f] = u.patch[f]
  <2>1. CASE \A u \in Updates(r) : u.athlete = a => u.patch[f] = None
    <3>1. Value(r, a, f) = frame[r].read[a][f]
      BY <1>1, <1>2, <2>1, ValueType
    <3>2. QED
      BY <1>5, <1>6, <2>1, <3>1
  <2>2. CASE \E u \in Updates(r) : u.athlete = a /\ u.patch[f] # None
    <3>1. f \in Fields(r)
      BY <2>2 DEF Fields
    <3>2. \E u \in Updates(r) : u.athlete = a /\ u.patch[f] # None /\ Value(r, a, f) = u.patch[f]
      <4> DEFINE sent == {u \in Updates(r) : u.athlete = a /\ u.patch[f] # None}
      <4>1. sent \in SUBSET Update /\ sent # {}
        BY <1>1, <2>2, KnownTypes
      <4>2. PICK u \in sent : u = CHOOSE x \in sent : \A v \in sent : v.at <= x.at
        BY <4>1, LastUpdate
      <4>3. QED
        BY <4>1, <4>2 DEF Value
    <3>3. QED
      BY <1>5, <3>1, <3>2
  <2>3. QED
    BY <2>1, <2>2
<1>8. QED
  BY <1>3, <1>4, <1>5, <1>7

\* Unless an athlete is written by another request between the preview and the
\* bulk-update, bulk-update takes nothing from it, and a single patch is applied
\* exactly (bulk_update_athletes), for any batches, tables and edits.
THEOREM PatchedTheorem == Spec => PatchedUnlessRaced
<1>1. ASSUME IInv, Next, NEW r \in Requests, pc[r] = "write", pc'[r] = "done",
             NEW u \in Updates(r), athletes[u.athlete] # None, u.athlete \notin written[r]
      PROVE  /\ ~Loses(athletes[u.athlete], athletes'[u.athlete])
             /\ (\A v \in Updates(r) : v.athlete = u.athlete => v = u) =>
                   athletes'[u.athlete] = Patched(athletes[u.athlete], u.patch)
  <2> DEFINE a == u.athlete
  <2>1. BulkUpdateWrite(r)
    <3>1. pc \in [Requests -> Labels]
      BY <1>1 DEF IInv, LocalInv
    <3>2. PICK q \in Requests :
             StartResolve(q) \/ Resolve(q) \/ Preview(q) \/ BulkCreate(q) \/ BulkUpdateRead(q)
             \/ BulkUpdateWrite(q) \/ EditAthlete(q) \/ DeleteAthlete(q) \/ Stop(q)
      BY <1>1 DEF Next
    <3>3. ASSUME q # r PROVE pc'[r] = pc[r]
      <4>1. CASE Preview(q)
        BY <1>1, <3>1, <3>3, <4>1, PreviewFacts DEF Goto, Finish, IInv
      <4>2. CASE ~Preview(q)
        BY <3>1, <3>2, <3>3, <4>2 DEF StartResolve, Resolve, BulkCreate, BulkUpdateRead,
           BulkUpdateWrite, EditAthlete, DeleteAthlete, Stop, Goto, Finish
      <4>3. QED
        BY <4>1, <4>2
    <3>4. q = r
      BY <1>1, <3>3
    <3>5. ~Stop(r)
      BY <1>1, <3>1 DEF Stop, Goto, Finish
    <3>6. QED
      BY <1>1, <3>2, <3>4, <3>5 DEF StartResolve, Resolve, Preview, BulkCreate,
         BulkUpdateRead, EditAthlete, DeleteAthlete
  <2>2. /\ athletes[a] \in Athlete /\ athletes'[a] = Updated(r, a) /\ Updated(r, a) \in Athlete
        /\ Updated(r, a).who = athletes[a].who /\ Updated(r, a).gender = athletes[a].gender
        /\ \A f \in {"city", "club", "license"} :
              \/ /\ Updated(r, a)[f] = athletes[a][f]
                 /\ \A v \in Updates(r) : v.athlete = a => v.patch[f] = None
              \/ \E v \in Updates(r) : /\ v.athlete = a /\ v.patch[f] # None
                                       /\ Updated(r, a)[f] = v.patch[f]
    BY <1>1, <2>1, WrittenFields
  <2>3. \A v \in Updates(r) : v.athlete = a =>
           /\ v.patch.city # None => athletes[a].city = None
           /\ v.patch.club # None => ~Meaningful(athletes[a].club)
    BY <1>1 DEF IInv, RaceInv
  <2>4. ~Loses(athletes[a], athletes'[a])
    BY <2>2, <2>3 DEF Loses
  <2>5. ASSUME \A v \in Updates(r) : v.athlete = a => v = u
        PROVE  athletes'[a] = Patched(athletes[a], u.patch)
    <3>1. u.patch \in Patch
      BY <1>1, KnownTypes DEF IInv, Update
    <3>2. \A f \in {"city", "club", "license"} :
             Updated(r, a)[f] = IF u.patch[f] = None THEN athletes[a][f] ELSE u.patch[f]
      BY <1>1, <2>2, <2>5
    <3>3. /\ Patched(athletes[a], u.patch) \in Athlete
          /\ Patched(athletes[a], u.patch).who = Updated(r, a).who
          /\ Patched(athletes[a], u.patch).gender = Updated(r, a).gender
          /\ Patched(athletes[a], u.patch).city = Updated(r, a).city
          /\ Patched(athletes[a], u.patch).club = Updated(r, a).club
          /\ Patched(athletes[a], u.patch).license = Updated(r, a).license
      BY <2>2, <3>1, <3>2, PatchedFields
    <3>4. ASSUME NEW x \in Athlete, NEW y \in Athlete, x.who = y.who, x.gender = y.gender,
                 x.city = y.city, x.club = y.club, x.license = y.license
          PROVE  x = y
      BY <3>4 DEF Athlete
    <3>5. QED
      BY <2>2, <3>3, <3>4
  <2>6. QED
    BY <2>4, <2>5
<1>2. IInv /\ [Next]_vars =>
        [\A r \in Requests : pc[r] = "write" /\ pc'[r] = "done" =>
          \A u \in Updates(r) :
             LET a == u.athlete IN
             athletes[a] # None /\ a \notin written[r] =>
                 /\ ~Loses(athletes[a], athletes'[a])
                 /\ (\A v \in Updates(r) : v.athlete = a => v = u) =>
                       athletes'[a] = Patched(athletes[a], u.patch)]_vars
  BY <1>1
<1>3. QED
  BY <1>2, Invariance, PTL DEF Spec, PatchedUnlessRaced
=============================================================================

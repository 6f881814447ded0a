--------------------------- MODULE MCAthleteImport ---------------------------
(* AthleteImport with single rows of one person, whose name has two        *)
(* spellings and may have blanks around it, and batches of two rows of one *)
(* or two persons.                                                         *)
EXTENDS AthleteImport, TLC

CONSTANTS f, kazan, omsk, first

\* Two spellings of one name, one of them also with blanks around it; a second person.
Name(person, text, padded) == [person |-> person, text |-> text, padded |-> padded]
ann   == Name("alyona", "ALYONA", FALSE)
yo    == Name("alyona", "ALYONA with yo", FALSE)
blank == Name("alyona", "ALYONA", TRUE)
bob   == Name("bob", "BOB", FALSE)

MCNames == {ann, yo, blank, bob}

\* Two clubs that share a name, one that shares nothing, a city's and a region's team.
Sokol    == [words |-> {"club", "sokol"}, form |-> 1]
SokolSch == [words |-> {"school", "sokol"}, form |-> 1]
Volna    == [words |-> {"club", "volna"}, form |-> 1]
Town     == [words |-> {"kazan"}, form |-> 1]
Region   == [words |-> {"region", "tatar"}, form |-> 1]

MCTeams == {Sokol, SokolSch, Volna, Town, Region}
MCClubMarkers == {"club", "school"}
MCRegionMarkers == {"region"}
MCGenericMarkers == {"squad"}
MCNoise == {"club", "school"}

Row(who, city, team, license) ==
    [who |-> who, gender |-> f, city |-> city, team |-> team, license |-> license]
Person(who, city, club) ==
    [who |-> who, gender |-> f, city |-> city, club |-> club, license |-> None]

\* Rows that come alone, one of them written with blanks, and one that comes with
\* another of its person, of another, or of its person in another spelling.
Mixed == {<<s>> : s \in {
             Row(blank, kazan, SokolSch, first), Row(ann, omsk, Volna, None),
             [Row(ann, None, Town, first) EXCEPT !.gender = None]}}
         \cup {<<Row(ann, kazan, Sokol, None), t>> : t \in {
             [Row(ann, omsk, Region, None) EXCEPT !.gender = None],
             Row(bob, omsk, Volna, first), Row(yo, kazan, Sokol, None)}}

\* What stands at the start.
Table(x, y) == [a \in AthleteIds |-> IF a = <<None, 1>> THEN x
                                     ELSE IF a = <<None, 2>> THEN y ELSE None]

Stored == {Table(None, None), Table(Person(ann, None, Town), None),
           Table(Person(ann, omsk, Sokol), None),
           Table(Person(ann, None, None), Person(bob, omsk, None))}

Changes == {Person(ann, omsk, Volna)}

Symmetry == Permutations(Requests)
=============================================================================

SPECIFICATION Spec
CONSTANTS
    Requests = {r1, r2, r3}
    s1 = s1
    s2 = s2
    city = city
    club = club
    Fields = {city, club}
    Sources = {s1, s2}
    Athletes = {}
    Given <- OneEach
    Payloads <- Pairs
    MaxItems = 2
    None = None
SYMMETRY Symmetry
ACTION_CONSTRAINT CityFirst
CHECK_DEADLOCK FALSE
INVARIANTS
    ResultsReviewed
    DecisionsAccounted
    CompletedWasClosed
    CompletionNotLost
PROPERTIES
    FilledKept

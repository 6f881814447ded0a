SPECIFICATION Spec
CONSTANTS
    Requests = {r1, r2, r3}
    s1 = s1
    s2 = s2
    city = city
    club = club
    Fields = {city}
    Sources = {s1}
    Athletes = {a1}
    Given <- OneEach
    Payloads <- Single
    MaxItems = 1
    None = None
CHECK_DEADLOCK FALSE
PROPERTIES
    CompletesClosed

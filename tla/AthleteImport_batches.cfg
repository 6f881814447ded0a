SPECIFICATION Spec
CONSTANTS
    Requests = {r1, r2, r3}
    f = f
    kazan = kazan
    omsk = omsk
    first = first
    None = None
    Names <- MCNames
    Genders = {f}
    Cities = {kazan, omsk}
    Licenses = {first}
    Teams <- MCTeams
    ClubMarkers <- MCClubMarkers
    RegionMarkers <- MCRegionMarkers
    GenericMarkers <- MCGenericMarkers
    NoiseWords <- MCNoise
    Batches <- Mixed
    MaxRows = 2
    Existing <- Stored
    Edits <- Changes
SYMMETRY Symmetry
CHECK_DEADLOCK FALSE
INVARIANTS
    Recognised
    RankedByTrust
    TwoAtMost
PROPERTIES
    PatchedUnlessRaced

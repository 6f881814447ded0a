SPECIFICATION RolesSpec
CONSTANTS
    Requests = {r1, r2, r3, r4}
    Coaches = {c1}
    Athletes = {a1}
    Savers = {s1, s2, s3}
    Files = {f1}
    Foreign = {u1}
    Clubs = {k1}
    None = None
SYMMETRY Symmetry
CHECK_DEADLOCK FALSE
INVARIANTS
    LinksExplained
    AvatarThere
PROPERTIES
    RejectionStands
    ColumnsKept

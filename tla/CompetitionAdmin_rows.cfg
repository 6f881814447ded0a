SPECIFICATION MeetingSpec
CONSTANTS
    Requests = {r1, r2}
    Athletes = {a1, a2, a3}
    Competitions = {c1, c2}
    Initial = {x1, x2}
    m1 = m1
    m2 = m2
    m3 = m3
    Clerks = {m1, m2, m3}
    Kinds = {k1}
    First = {d1, d2}
    None = None
SYMMETRY Symmetry
ACTION_CONSTRAINT InOrder
CHECK_DEADLOCK FALSE
INVARIANT RowsAgree
PROPERTIES ResultsLostForCause MovedFromSource EditsKept

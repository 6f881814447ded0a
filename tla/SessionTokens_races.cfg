SPECIFICATION Spec
CONSTANTS
    u1 = u1
    u2 = u2
    l1 = l1
    Users = {u1, u2}
    Requests = {r1, r2, r3, r4}
    Legacy = {l1}
    Sub <- MCSub
    None = None
SYMMETRY Symmetry
CHECK_DEADLOCK FALSE
INVARIANTS
    ReplayVerdictJust
    ForkOnlyByDoubleRotation
    LateRows
    Ownership
PROPERTIES
    EndedForCause
    KeepsLedger

SPECIFICATION FairLimitsSpec
CONSTANTS
    r1 = r1
    r2 = r2
    r3 = r3
    r4 = r4
    Askers = {r1, r2, r3, r4}
    Limits = {"send", "challenge", "token"}
    Count = 2
    Nothing = Nothing
ACTION_CONSTRAINT InOrder
CHECK_DEADLOCK FALSE
INVARIANTS
    CountersExplained
PROPERTIES
    LimitLifts

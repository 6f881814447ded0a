SPECIFICATION AllSpec
CHECK_DEADLOCK FALSE
CONSTANTS
    c1 = c1
    c2 = c2
    r1 = r1
    r2 = r2
    Star = Star
    Absent = Absent
    Null = Null
    Failed = Failed
    Categories = {c1, c2}
    Names = {r1, r2}
    Inputs <- MCInputs
    Questions <- MCQuestions
INVARIANTS
    TokenMeans
    TimesRead
    TableIsBest
    BestMarked

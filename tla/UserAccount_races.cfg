SPECIFICATION FairSpec
CONSTANTS
    Requests = {job, r1, r2, r3}
    r1 = r1
    r2 = r2
    r3 = r3
    Job = job
    MaxAttempts = 2
    None = None
ACTION_CONSTRAINT InOrder
CHECK_DEADLOCK FALSE
INVARIANTS
    CodesCounted
    EarnedByMail
PROPERTIES
    ColumnsKept
    AcceptedTakesEffect
    UnverifiedGoes

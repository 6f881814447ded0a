SPECIFICATION FairSpec
CONSTANTS
    u1 = u1
    u2 = u2
    l1 = l1
    Users = {u1}
    Requests = {r1, r2, r3}
    Legacy = {l1}
    Sub <- MCSub
    None = None
CHECK_DEADLOCK FALSE
PROPERTIES
    EndsComplete

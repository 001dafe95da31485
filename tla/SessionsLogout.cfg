SPECIFICATION Spec
CONSTANTS
    u1 = u1
    u2 = u2
    None = None
    Users <- MCUsers
    SecondFactor <- MCSecondFactor
    Requests = {r1, r2}
    Kinds <- MCKinds
    Lifetime = 1
    MaxTime = 1
INVARIANT LogoutRevokes
CHECK_DEADLOCK FALSE

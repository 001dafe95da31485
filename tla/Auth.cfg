SPECIFICATION MCSpec
CONSTANTS
    u1 = u1
    u2 = u2
    r5 = r5
    None = None
    Users <- MCUsers
    SecondFactor <- MCSecondFactor
    Requests = {r1, r2, r3, r4}
    Kinds <- MCKinds
    Lifetime = 1
    MaxTime = 2
SYMMETRY MCSymmetry
INVARIANTS
    Typed
    RevocationHolds
    TokensReachClients
    SecretAndCodesHold
    ChallengesTakenOnceAndSoon
PROPERTIES
    EndedByOwnUser
    ResetOnceInTerm
    SecretKeptUnlessOvertaken
    CounterGrowsUnlessCrossed
CHECK_DEADLOCK FALSE

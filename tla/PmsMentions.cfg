SPECIFICATION MCSpec
CONSTANTS
    Parts = {"comments"}
    Users = {ann, bob}
    Outsiders = {cal}
    Workspaces = {w1, w2}
    Projects = {p1, p2}
    Teams = {t1}
    Entities = {task}
    Rows = {x1, x2, s1, s2}
    TagIds = {t1, t2}
    Names = {"urgent", "later"}
    Items = {i1, i2, i3, i4}
    Owners <- OwnersOfWorkspaces
    SeedProjects <- ProjectRows
    TeamWorkspace <- WorkspaceOfTeams
    Grants <- GrantsOfRoles
    SeedTag = t1
    Access <- MayOpen
    SeedItems <- ItemRows
    Addresses <- AddressOf
    SeedComments <- CommentRows
    WorkplaceCalls <- CallsOfWorkplace
    TagCalls <- CallsOfTags
    DelegationCalls <- CallsOfDelegations
    ChecklistCalls <- CallsOfChecklists
    CommentCalls <- CallsOfComments
    MaxAborts = 1
    Readers = {r1}
    Writers = {v1, v2}
    Ids = {i1, i2, i3, i4}
    Parents = {p1, p2}
    SeedRows <- RowsOfLists
    DefaultLimit = 2
    MaxLimit = 2
    ListingCalls <- CallsOfListings
    r1 = r1
    v1 = v1
    v2 = v2
    ann = ann
    bob = bob
    cal = cal
    w1 = w1
    w2 = w2
    p1 = p1
    p2 = p2
    t1 = t1
    t2 = t2
    task = task
    viewer = viewer
    editor = editor
    x1 = x1
    x2 = x2
    s1 = s1
    s2 = s2
    i1 = i1
    i2 = i2
    i3 = i3
    i4 = i4
    None = None
    Requests = {r2, r3, r4}
SYMMETRY MCSymmetry
INVARIANT AddressedAreNoted
CHECK_DEADLOCK FALSE

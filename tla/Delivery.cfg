SPECIFICATION MCSpec
CONSTANTS
    None = None
    Requests = {r1, r2}
    Parts = {"told", "watched", "mails", "files"}
    ann = ann
    bob = bob
    cal = cal
    task = task
    project = project
    ticket = ticket
    deal = deal
    tag = tag
    contact = contact
    f1 = f1
    f2 = f2
    Users = {ann, bob, cal}
    Clients = {bob}
    ClientRooms <- RoomsOfBob
    Subjects <- Things
    TypeOf <- TableOf
    ProjectOf <- InProject
    Followers <- FollowersOf
    Assigned <- AssignedTo
    Fresh = {ticket}
    Deeds <- AllDeeds
    MaxJobs = 4
    MaxCrashes = 2
    DeedsOf <- DeedsOfParts
    StopsOf <- StopsOfParts
    FileIds = {f1, f2}
    Entities = {task, project}
    Others = {tag}
    SeedFiles <- SeedFile
    FileCalls <- MCFileCalls
    Within = TRUE
    MaxStops = 2
INVARIANTS
    Typed
    NoticesHold
PROPERTIES
    FilesImplement
    MailsSettle
CHECK_DEADLOCK FALSE

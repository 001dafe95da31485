-------------------------------- MODULE MCPms --------------------------------
(***************************************************************************)
(* Small instances of Workplace, Tags, Delegations, Checklists, Comments   *)
(* and Listings.  Their tables are not shared: a behaviour runs the one    *)
(* that "part" names and leaves the others in their initial states.        *)
(***************************************************************************)
EXTENDS Handlers, TLC

CONSTANTS
    Parts,   \* the parts a run looks at
    Users, Outsiders, Workspaces, Projects, Teams, Entities, Rows, TagIds, Names, Items,
    Owners, SeedProjects, TeamWorkspace, Grants, SeedTag, Access, SeedItems, Addresses, SeedComments,
    WorkplaceCalls, TagCalls, DelegationCalls, ChecklistCalls, CommentCalls,
    MaxAborts,
    Readers, Writers, Ids, Parents, SeedRows, DefaultLimit, MaxLimit, ListingCalls,
    r1, v1, v2, ann, bob, cal, w1, w2, p1, p2, t1, t2, task, viewer, editor,
    x1, x2, s1, s2, i1, i2, i3, i4

VARIABLES
    part,
    owners, projects, members, teams, teamMembers, userRoles, joins,
    tags, taggings, gEntities, gPc, gCall, gAnswer, halfway, shaken,
    dEntities, assignments, shares, dCrossed, revived,
    tasks, items, kAged, forced,
    cEntities, cMembers, comments, mentions, logs, overtaken, shutOut,
    lPc, lCall, lHeld, lAnswer, rows, parents, shifted, late

wVars == <<owners, projects, members, teams, teamMembers, userRoles, joins>>
gVars == <<tags, taggings, gEntities, gPc, gCall, gAnswer, halfway, shaken>>
dVars == <<dEntities, assignments, shares, dCrossed, revived>>
kVars == <<tasks, items, kAged, forced>>
cVars == <<cEntities, cMembers, comments, mentions, logs, overtaken, shutOut>>
lVars == <<lPc, lCall, lHeld, lAnswer, rows, parents, shifted, late>>

\* A workspace of ann's with one project and one team; two roles.
OwnersOfWorkspaces == w1 :> ann
ProjectRows == p1 :> [workspace |-> w1, manager |-> ann]
WorkspaceOfTeams == t1 :> w1
GrantsOfRoles == (viewer :> ("tasks" :> {"read"})) @@ (editor :> (("tasks" :> {"write"}) @@ ("files" :> {"all"})))
CallsOfWorkplace ==
    [kind: {"createWorkspace"}, by: {bob}, workspace: {w2}]
      \cup [kind: {"updateWorkspace"}, by: {bob}, workspace: {w1}]
      \cup [kind: {"updateWorkspace", "removeWorkspace"}, by: {ann}, workspace: {w1}]
      \cup [kind: {"createProject"}, by: {ann, bob}, project: {p2}, workspace: {w1}]
      \cup [kind: {"updateProject"}, by: {bob}, project: {p1}]
      \cup [kind: {"updateProject", "removeProject"}, by: {ann}, project: {p2}]
      \cup [kind: {"addToTeam"}, by: {ann, bob}, team: {t1}, user: {bob}]
      \cup [kind: {"removeFromTeam"}, by: {ann}, team: {t1}, user: {bob}]
      \cup [kind: {"assignRole"}, user: {bob}, role: {viewer, editor, None}]
      \cup [kind: {"removeRole"}, user: {bob}, role: {viewer}]
      \cup [kind: {"rolesGuard", "permissionsGuard"}, user: {bob}, roles: {{editor}, {None}, {}}]

\* One tag that is there and one that may be created.
CallsOfTags ==
    [kind: {"add"}, tag: {t1}, user: {bob}, entity: {task}]
      \cup [kind: {"untag"}, tag: {t1}, user: {bob}, entity: {task}]
      \cup [kind: {"remove"}, tag: {t1}, user: {ann}]
      \cup [kind: {"create"}, tag: {t2}, user: {bob}, name: {"urgent"}, visibility: {"public"}]
      \cup [kind: {"update"}, tag: {t1}, user: {ann}, name: {"urgent"}, visibility: {"private"}]
      \cup [kind: {"dropEntity"}, entity: {task}]

\* Two ids for assignments, two for shares, all of one task; cal may not open it.
MayOpen == task :> {ann, bob}
CallsOfDelegations ==
    [kind: {"assign"}, by: {ann}, row: {x1, x2}, entity: {task}, assignee: {bob}]
      \cup [kind: {"assign"}, by: {cal}, row: {x2}, entity: {task}, assignee: {bob}]
      \cup [kind: {"updateStatus"}, by: {bob}, row: {x1},
            status: {"pending", "in_progress", "completed", "declined", "unknown"}]
      \cup [kind: {"updateStatus"}, by: {cal}, row: {x1}, status: {"accepted"}]
      \cup [kind: {"updateAssignment", "removeAssignment"}, by: {ann}, row: {x1}]
      \cup [kind: {"share"}, by: {ann}, row: {s1, s2}, entity: {task}, with: {bob}]
      \cup [kind: {"share"}, by: {bob}, row: {s2}, entity: {task}, with: {t1}]
      \cup [kind: {"updateShare", "removeShare"}, by: {ann}, row: {s1, s2}]
      \cup [kind: {"removeEntity"}, entity: {task}]

\* Two items in their order, two more to be added.
ItemRows == (i1 :> [task |-> task, index |-> 0]) @@ (i2 :> [task |-> task, index |-> 1])
CallsOfChecklists ==
    [kind: {"add"}, task: {task}, item: {i3, i4}, index: {None}]
      \cup [kind: {"add"}, task: {task}, item: {i4}, index: {0}]
      \cup [kind: {"update"}, task: {task}, item: {i1}]
      \cup [kind: {"delete"}, task: {task}, item: {i1}]
      \cup [kind: {"reorder"}, task: {task}, items: {<<i2, i1>>, <<i1, i2>>, <<i2>>, <<i2, i2>>, <<i3, i1, i2>>}]
      \cup [kind: {"removeTask"}, task: {task}]

AddressOf == [u \in {ann, bob} |-> [local |-> u, domain |-> "example"]]
CommentRows == x1 :> [entity |-> task, by |-> ann, text |-> {}, deleted |-> FALSE, parent |-> None]
CallsOfComments ==
    [kind: {"comment"}, by: {ann, bob}, row: {x2}, entity: {task}, text: {{AddressOf[bob]}}, parent: {x1}]
      \cup [kind: {"edit"}, by: {ann, bob}, row: {x1}, text: {{AddressOf[bob]}, {}}]
      \cup [kind: {"edit"}, by: {bob}, row: {x2}, text: {{}}]
      \cup [kind: {"delete"}, by: {ann, bob}, row: {x1, x2}]
      \cup [kind: {"log"}, by: {bob}, row: {s1}, entity: {task}]
      \cup [kind: {"removeEntity"}, entity: {task}]
      \cup [kind: {"leave"}, by: {ann, bob}, entity: {task}]

-----------------------------------------------------------------------------

W == INSTANCE Workplace
G == INSTANCE Tags WITH
        entities <- gEntities, pc <- gPc, call <- gCall, answer <- gAnswer,
        Requests <- Requests \cup {r1}, Calls <- TagCalls
D == INSTANCE Delegations WITH
        entities <- dEntities, crossed <- dCrossed, Users <- Users \cup Outsiders
K == INSTANCE Checklists WITH aged <- kAged, Tasks <- Entities
C == INSTANCE Comments WITH entities <- cEntities, members <- cMembers, Members <- Access
L == INSTANCE Listings WITH
        pc <- lPc, call <- lCall, held <- lHeld, answer <- lAnswer, Requests <- Readers \cup Writers

\* The lists of the code, named before it is said which of them are read.
Lists == INSTANCE Listings WITH
        pc <- lPc, call <- lCall, held <- lHeld, answer <- lAnswer, Requests <- {}, Readers <- {},
        ListingCalls <- {}

\* Three rows, two to a page; two that may come, one of them first by its key.
RowsOfLists == <<[id |-> i1, parent |-> p1, key |-> 0], [id |-> i2, parent |-> p1, key |-> 1],
                 [id |-> i3, parent |-> p2, key |-> 1]>>
Walk(list, sort, order, limit) ==
    [kind |-> "walk", list |-> list, parent |-> p1, limit |-> limit, sort |-> sort, order |-> order]
CallsOfListings ==
    {Walk(Lists!FindAllTasks, "key", "asc", 1),
     Walk(Lists!FindAllTasksOfAll, "age", "desc", 2), Walk(Lists!FindAllTasksOfAll, "age", "asc", 3),
     Walk(Lists!GetTaskAttachments, "age", "desc", 1), Walk(Lists!GetTaskDependencies, "age", "desc", 0),
     Walk(Lists!GetChecklistItems, "age", "asc", 1), Walk(Lists!GetComments, "age", "asc", 2),
     Walk(Lists!FindAllCompanies, "key", "desc", 2),
     Walk(Lists!FindAllTags, "age", "desc", 0), Walk(Lists!ListFiles, "age", "desc", 2),
     Walk(Lists!GetSharedContent, "age", "descApart", 2), Walk(Lists!GetSegmentContacts, "age", "any", 2)}
      \cup [kind: {"insert"}, id: {i4}, parent: {p1}, key: {0}]
      \cup [kind: {"rekey"}, id: {i2}, key: {0}]
      \cup [kind: {"remove"}, id: {i1}]
      \cup [kind: {"leave", "drop"}, parent: {p1}]

ASSUME PartsAssumption ==
       /\ W!WorkplaceAssumption /\ G!TagsAssumption /\ D!DelegationsAssumption
       /\ K!ChecklistsAssumption /\ C!CommentsAssumption /\ L!ListingsAssumption

MCSymmetry == Permutations(Requests)

MCInit ==
    /\ part \in Parts
    /\ W!Init /\ G!Init /\ D!Init /\ K!Init /\ C!Init /\ L!Init

MCNext ==
    /\ UNCHANGED part
    /\ \/ part = "workplace" /\ W!Next /\ UNCHANGED <<gVars, dVars, kVars, cVars, lVars>>
       \/ part = "tags" /\ G!Next /\ UNCHANGED <<handlers, wVars, dVars, kVars, cVars, lVars>>
       \/ part = "delegations" /\ D!Next /\ UNCHANGED <<wVars, gVars, kVars, cVars, lVars>>
       \/ part = "checklists" /\ K!Next /\ UNCHANGED <<wVars, gVars, dVars, cVars, lVars>>
       \/ part = "comments" /\ C!Next /\ UNCHANGED <<wVars, gVars, dVars, kVars, lVars>>
       \/ part = "listings" /\ L!Next /\ UNCHANGED <<handlers, wVars, gVars, dVars, kVars, cVars>>

MCSpec == MCInit /\ [][MCNext]_<<part, handlers, wVars, gVars, dVars, kVars, cVars, lVars>>

Typed ==
    /\ G!TypeOK
    /\ part = "workplace" => W!TypeOK
    /\ part = "delegations" => D!TypeOK
    /\ part = "checklists" => K!TypeOK
    /\ part = "comments" => C!TypeOK
    /\ part = "listings" => L!TypeOK
WorkplaceHolds == part = "workplace" => W!WorkplaceHolds
TagsHold == []G!NamesAndTaggingsHold /\ []G!UsageCountsTaggings /\ G!RemovesUnusedUnlessShaken
InUseMeansCarried == G!InUseMeansCarried
DelegationsHold == part = "delegations" => D!DelegationsHold
ChecklistsHold ==
    [](part = "checklists" => K!PositionsDistinctUnlessForced) /\ K!ReorderedAsAsked
CommentsHold == C!DeletedKeepTheirText /\ C!WrittenWithAccess
AddressedAreNoted == part = "comments" => C!AddressedAreNoted
ListingsHold == part = "listings" => L!ListingsHold

=============================================================================

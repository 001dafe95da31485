------------------------------ MODULE Workplace ------------------------------
(***************************************************************************)
(* Who belongs to what: workspaces.service.ts, projects.service.ts,        *)
(* teams.service.ts and rbac.service.ts with the two guards.               *)
(*                                                                         *)
(* A project is created in two inserts, its row and then its manager as a  *)
(* member.  The right to manage a team is looked up in two statements, the *)
(* owner of the workspace and then the projects the caller manages, and    *)
(* used some statements later.  A role grants lists of actions on          *)
(* resources; a permission is asked of the merge of all a user's roles.    *)
(***************************************************************************)
EXTENDS Handlers

CONSTANTS
    Users, Workspaces, Projects, Teams,
    Owners,           \* the workspaces there are at first, with their owners
    SeedProjects,     \* the projects there are at first
    TeamWorkspace,    \* the workspace each team is in
    Grants,           \* what each role grants: resource -> actions
    WorkplaceCalls    \* the calls clients make

CreateWorkspaceCall == [kind: {"createWorkspace"}, by: Users, workspace: Workspaces]
WorkspaceCall == [kind: {"updateWorkspace", "removeWorkspace"}, by: Users, workspace: Workspaces]
CreateProjectCall == [kind: {"createProject"}, by: Users, project: Projects, workspace: Workspaces]
ProjectCall == [kind: {"updateProject", "removeProject"}, by: Users, project: Projects]
TeamCall == [kind: {"addToTeam", "removeFromTeam"}, by: Users, team: Teams, user: Users]
RoleCall == [kind: {"assignRole", "removeRole"}, user: Users, role: DOMAIN Grants \cup {None}]
\* What a route asks for: roles by name, or what these roles grant; None is a
\* name that no role has.
GuardCall == [kind: {"rolesGuard", "permissionsGuard"}, user: Users,
              roles: SUBSET (DOMAIN Grants \cup {None})]

Project == [workspace: Workspaces, manager: Users]
Roles == DOMAIN Grants

WorkplaceAssumption ==
    /\ WorkplaceCalls \subseteq CreateWorkspaceCall \cup WorkspaceCall \cup CreateProjectCall
                       \cup ProjectCall \cup TeamCall \cup RoleCall \cup GuardCall
    /\ DOMAIN Owners \subseteq Workspaces /\ \A w \in DOMAIN Owners : Owners[w] \in Users
    /\ DOMAIN SeedProjects \subseteq Projects
    /\ \A p \in DOMAIN SeedProjects :
          /\ SeedProjects[p] \in Project /\ SeedProjects[p].workspace \in DOMAIN Owners
          /\ SeedProjects[p].manager = Owners[SeedProjects[p].workspace]
    /\ \A t \in Teams : TeamWorkspace[t] \in DOMAIN Owners
    /\ None \notin Users \cup Project

VARIABLES
    owners,       \* the owner of each workspace, None where there is none
    projects,     \* None, or [workspace, manager]
    members,      \* project_members
    teams,        \* the teams there are
    teamMembers,  \* team_members
    userRoles,    \* user_roles
    joins         \* history: how often a user was added to, less removed from, a team

tables == <<owners, projects, members, teams, teamMembers, userRoles>>
vars == <<handlers, tables, joins>>

TypeOK ==
    /\ Handling({"workspace", "insertWorkspace", "writeWorkspace", "deleteWorkspace", "insertProject",
                 "insertMember", "project", "writeProject", "deleteProject", "team", "owner", "manages",
                 "user", "existing", "insertTeamMember", "deleteTeamMember",
                 "role", "upsertRole", "deleteRole", "roles", "userRole", "permissions"},
                WorkplaceCalls, {"refused"})
    /\ owners \in [Workspaces -> Users \cup {None}]
    /\ projects \in [Projects -> Project \cup {None}]
    /\ members \subseteq Projects \X Users
    /\ teams \subseteq Teams /\ teamMembers \subseteq teams \X Users
    /\ userRoles \subseteq Users \X Roles
    /\ joins \in [Teams \X Users -> Nat]

Init ==
    /\ HandlersInit
    /\ owners = [w \in Workspaces |-> IF w \in DOMAIN Owners THEN Owners[w] ELSE None]
    /\ projects = [p \in Projects |-> IF p \in DOMAIN SeedProjects THEN SeedProjects[p] ELSE None]
    /\ members = {<<p, SeedProjects[p].manager>> : p \in DOMAIN SeedProjects}
    /\ teams = Teams /\ teamMembers = {} /\ userRoles = {}
    /\ joins = [m \in Teams \X Users |-> 0]

Live == {p \in Projects : projects[p] # None}
\* The id of a row to create was never used.
FreshId(c) ==
    /\ c.kind = "createProject" =>
          /\ c.project \notin DOMAIN SeedProjects
          /\ \A q \in Requests : Kind(q) = "createProject" => call[q].project # c.project
    /\ c.kind = "createWorkspace" =>
          /\ c.workspace \notin DOMAIN Owners
          /\ \A q \in Requests : Kind(q) = "createWorkspace" => call[q].workspace # c.workspace

StartWith(r, kinds, label) ==
    /\ \E c \in {c \in WorkplaceCalls : c.kind \in kinds} : FreshId(c) /\ Begin(r, c, label)
    /\ UNCHANGED <<tables, joins>>

Start(r) ==
    \/ StartWith(r, {"createWorkspace"}, "insertWorkspace")
    \/ StartWith(r, {"updateWorkspace", "removeWorkspace", "createProject"}, "workspace")
    \/ StartWith(r, {"updateProject", "removeProject"}, "project")
    \/ StartWith(r, {"addToTeam", "removeFromTeam"}, "team")
    \/ StartWith(r, {"assignRole", "removeRole"}, "role")
    \/ StartWith(r, {"rolesGuard"}, "roles") \/ StartWith(r, {"permissionsGuard"}, "permissions")

-----------------------------------------------------------------------------
(***************************************************************************)
(* Workspaces and projects                                                 *)
(***************************************************************************)

Manages(u, w) == \E p \in Live : projects[p] = [workspace |-> w, manager |-> u]

InsertWorkspace(r) ==
    /\ pc[r] = "insertWorkspace"
    /\ owners' = [owners EXCEPT ![call[r].workspace] = call[r].by]
    /\ Reply(r, "ok")
    /\ UNCHANGED <<projects, members, teams, teamMembers, userRoles, joins>>

\* The look-up of createProject, and findOne of update and remove.
FindWorkspace(r) ==
    /\ pc[r] = "workspace"
    /\ LET owner == owners[call[r].workspace]
       IN  IF owner = None THEN Reply(r, "notFound")
           ELSE IF owner # call[r].by THEN Reply(r, "forbidden")
           ELSE Goto(r, CASE Kind(r) = "createProject" -> "insertProject"
                          [] Kind(r) = "updateWorkspace" -> "writeWorkspace"
                          [] Kind(r) = "removeWorkspace" -> "deleteWorkspace")
    /\ UNCHANGED <<tables, joins>>

\* Nothing that is written decides anything.
WriteWorkspace(r) ==
    /\ pc[r] = "writeWorkspace"
    /\ IF owners[call[r].workspace] = None THEN Fails(r) ELSE Reply(r, "ok")
    /\ UNCHANGED <<tables, joins>>

\* onDelete: Cascade takes the projects and teams with their members along.
DeleteWorkspace(r) ==
    /\ pc[r] = "deleteWorkspace"
    /\ LET w == call[r].workspace
           gone == {p \in Live : projects[p].workspace = w}
       IN  IF owners[w] = None THEN Fails(r) /\ UNCHANGED tables
           ELSE /\ owners' = [owners EXCEPT ![w] = None]
                /\ projects' = [p \in Projects |-> IF p \in gone THEN None ELSE projects[p]]
                /\ members' = {m \in members : m[1] \notin gone}
                /\ teams' = {t \in teams : TeamWorkspace[t] # w}
                /\ teamMembers' = {m \in teamMembers : TeamWorkspace[m[1]] # w}
                /\ Reply(r, "ok") /\ UNCHANGED userRoles
    /\ UNCHANGED joins

InsertProject(r) ==
    /\ pc[r] = "insertProject"
    /\ LET c == call[r]
       IN  IF owners[c.workspace] = None THEN Fails(r) /\ UNCHANGED projects
           ELSE /\ projects' = [projects EXCEPT ![c.project] =
                       [workspace |-> c.workspace, manager |-> c.by]]
                /\ Goto(r, "insertMember")
    /\ UNCHANGED <<owners, members, teams, teamMembers, userRoles, joins>>

\* The owner is the creator here, so nobody is notified.
InsertMember(r) ==
    /\ pc[r] = "insertMember"
    /\ IF projects[call[r].project] = None THEN Fails(r) /\ UNCHANGED members
       ELSE \/ /\ members' = members \cup {<<call[r].project, call[r].by>>}
               /\ Reply(r, "ok")
            \/ Fails(r) /\ UNCHANGED members
    /\ UNCHANGED <<owners, projects, teams, teamMembers, userRoles, joins>>

MayOpen(p, u) == owners[projects[p].workspace] = u \/ <<p, u>> \in members

FindProject(r) ==
    /\ pc[r] = "project"
    /\ LET p == call[r].project
       IN  IF projects[p] = None THEN Reply(r, "notFound")
           ELSE IF ~MayOpen(p, call[r].by) THEN Reply(r, "forbidden")
           ELSE Goto(r, IF Kind(r) = "updateProject" THEN "writeProject" ELSE "deleteProject")
    /\ UNCHANGED <<tables, joins>>

WriteProject(r) ==
    /\ pc[r] = "writeProject"
    /\ IF projects[call[r].project] = None THEN Fails(r) ELSE Reply(r, "ok")
    /\ UNCHANGED <<tables, joins>>

DeleteProject(r) ==
    /\ pc[r] = "deleteProject" /\ UNCHANGED <<owners, teams, teamMembers, userRoles, joins>>
    /\ LET p == call[r].project
       IN  IF projects[p] = None THEN Fails(r) /\ UNCHANGED <<projects, members>>
           ELSE /\ projects' = [projects EXCEPT ![p] = None]
                /\ members' = {m \in members : m[1] # p}
                /\ Reply(r, "ok")

-----------------------------------------------------------------------------
(***************************************************************************)
(* Teams                                                                   *)
(***************************************************************************)

FindTeam(r) ==
    /\ pc[r] = "team"
    /\ IF call[r].team \in teams THEN Goto(r, "owner") ELSE Reply(r, "notFound")
    /\ UNCHANGED <<tables, joins>>

Permitted(r) == Goto(r, IF Kind(r) = "addToTeam" THEN "user" ELSE "deleteTeamMember")

\* checkTeamManagementPermission, the owner of the workspace ...
CheckOwner(r) ==
    /\ pc[r] = "owner"
    /\ IF owners[TeamWorkspace[call[r].team]] = call[r].by THEN Permitted(r) ELSE Goto(r, "manages")
    /\ UNCHANGED <<tables, joins>>

\* ... or a manager of one of its projects.
CheckManager(r) ==
    /\ pc[r] = "manages"
    /\ IF Manages(call[r].by, TeamWorkspace[call[r].team]) THEN Permitted(r)
       ELSE Reply(r, "forbidden")
    /\ UNCHANGED <<tables, joins>>

\* The id given may name no user.
FindUser(r) ==
    /\ pc[r] = "user"
    /\ Goto(r, "existing") \/ Reply(r, "notFound")
    /\ UNCHANGED <<tables, joins>>

Membership(r) == <<call[r].team, call[r].user>>

FindExisting(r) ==
    /\ pc[r] = "existing"
    /\ IF Membership(r) \in teamMembers THEN Reply(r, "refused") ELSE Goto(r, "insertTeamMember")
    /\ UNCHANGED <<tables, joins>>

\* The keys: a team that is there, and @@unique([teamId, userId]).
Collides(r) == call[r].team \notin teams \/ Membership(r) \in teamMembers

InsertTeamMember(r) ==
    /\ pc[r] = "insertTeamMember"
    /\ IF Collides(r) THEN Fails(r) /\ UNCHANGED <<teamMembers, joins>>
       ELSE /\ teamMembers' = teamMembers \cup {Membership(r)}
            /\ joins' = [joins EXCEPT ![Membership(r)] = @ + 1]
            /\ Reply(r, "ok")
    /\ UNCHANGED <<owners, projects, members, teams, userRoles>>

\* deleteMany; the count it returns decides the answer.
DeleteTeamMember(r) ==
    /\ pc[r] = "deleteTeamMember"
    /\ teamMembers' = teamMembers \ {Membership(r)}
    /\ IF Membership(r) \in teamMembers
       THEN Reply(r, "ok") /\ joins' = [joins EXCEPT ![Membership(r)] = @ - 1]
       ELSE Reply(r, "notFound") /\ UNCHANGED joins
    /\ UNCHANGED <<owners, projects, members, teams, userRoles>>

-----------------------------------------------------------------------------
(***************************************************************************)
(* Roles                                                                   *)
(***************************************************************************)

FindRole(r) ==
    /\ pc[r] = "role"
    /\ IF call[r].role = None THEN Reply(r, "notFound")
       ELSE Goto(r, IF Kind(r) = "assignRole" THEN "upsertRole" ELSE "deleteRole")
    /\ UNCHANGED <<tables, joins>>

WriteRole(r) ==
    /\ \/ pc[r] = "upsertRole" /\ userRoles' = userRoles \cup {<<call[r].user, call[r].role>>}
       \/ pc[r] = "deleteRole" /\ userRoles' = userRoles \ {<<call[r].user, call[r].role>>}
    /\ Reply(r, "ok")
    /\ UNCHANGED <<owners, projects, members, teams, teamMembers, joins>>

\* The guard lets a route pass that asks for nothing; hasAnyRole looks up the
\* roles by name, then one row of the user's.
FindRoles(r) ==
    /\ pc[r] = "roles"
    /\ IF call[r].roles = {} THEN Reply(r, "ok")
       ELSE IF call[r].roles \cap Roles = {} THEN Reply(r, "forbidden")
       ELSE Goto(r, "userRole")
    /\ UNCHANGED <<tables, joins>>

FindUserRole(r) ==
    /\ pc[r] = "userRole"
    /\ Reply(r, IF \E g \in call[r].roles : <<call[r].user, g>> \in userRoles THEN "ok" ELSE "forbidden")
    /\ UNCHANGED <<tables, joins>>

RolesOf(u) == {g \in Roles : <<u, g>> \in userRoles}
Resources == UNION {DOMAIN Grants[g] : g \in Roles}

\* Slip: the list of the last role replaces those before it.
LastWins(u) == [x \in UNION {DOMAIN Grants[g] : g \in RolesOf(u)} |->
                   Grants[CHOOSE g \in RolesOf(u) : x \in DOMAIN Grants[g]][x]]

\* getUserPermissions: resource by resource, the actions of every role.
Permissions(u) ==
    [x \in UNION {DOMAIN Grants[g] : g \in RolesOf(u)} |->
        UNION {Grants[g][x] : g \in {g \in RolesOf(u) : x \in DOMAIN Grants[g]}}]

HasPermission(u, resource, action) ==
    /\ resource \in DOMAIN Permissions(u)
    /\ {action, "all"} \cap Permissions(u)[resource] # {}

CheckPermissions(r) ==
    /\ pc[r] = "permissions"
    /\ LET asked == UNION {{<<x, a>> : a \in UNION {Grants[g][x] : g \in {g \in call[r].roles \cap Roles :
                                                                           x \in DOMAIN Grants[g]}}} :
                           x \in Resources}
       IN  Reply(r, IF call[r].roles = {} \/ \E xa \in asked : HasPermission(call[r].user, xa[1], xa[2])
                    THEN "ok" ELSE "forbidden")
    /\ UNCHANGED <<tables, joins>>

Next ==
    \E r \in Requests :
        \/ Start(r) \/ InsertWorkspace(r) \/ FindWorkspace(r) \/ WriteWorkspace(r) \/ DeleteWorkspace(r)
        \/ InsertProject(r) \/ InsertMember(r) \/ FindProject(r) \/ WriteProject(r) \/ DeleteProject(r)
        \/ FindTeam(r) \/ CheckOwner(r) \/ CheckManager(r) \/ FindUser(r) \/ FindExisting(r)
        \/ InsertTeamMember(r) \/ DeleteTeamMember(r)
        \/ FindRole(r) \/ WriteRole(r) \/ FindRoles(r) \/ FindUserRole(r) \/ CheckPermissions(r)

Spec == Init /\ [][Next]_vars

-----------------------------------------------------------------------------
(***************************************************************************)
(* Properties                                                              *)
(***************************************************************************)

\* "Add creator as project member": a project has its manager as a member,
\* unless its creation is between the two inserts or ended there.
ManagersAreMembers ==
    \A p \in Live :
        \/ <<p, projects[p].manager>> \in members
        \/ \E r \in Requests : Kind(r) = "createProject" /\ call[r].project = p
                                 /\ (pc[r] = "insertMember" \/ answer[r] = "error")

\* Only the owner of a workspace creates projects in it, and no workspace
\* changes hands: the second way checkTeamManagementPermission leaves open, a
\* manager who is not the owner, leads nowhere.
ManagersOwn == \A p \in Live : projects[p].manager = owners[projects[p].workspace]

\* What was answered is what the table holds: of a team that still exists a
\* user is a member exactly when the additions that were answered "ok"
\* outnumber such removals, and then by one.
MembershipFollowsAnswers ==
    \A m \in teams \X Users : joins[m] = IF m \in teamMembers THEN 1 ELSE 0

\* A user who may do what some route asks may do it by one of the roles alone,
\* and adding a role takes nothing away.
PermissionsComeFromRoles ==
    \A u \in Users, x \in Resources, a \in {"read", "write", "all"} :
        HasPermission(u, x, a) <=>
            \E g \in RolesOf(u) : x \in DOMAIN Grants[g] /\ {a, "all"} \cap Grants[g][x] # {}

WorkplaceHolds == ManagersAreMembers /\ ManagersOwn /\ MembershipFollowsAnswers /\ PermissionsComeFromRoles

=============================================================================

------------------------------ MODULE TaskGraph ------------------------------
(***************************************************************************)
(* The dependency graph between tasks, as pms/tasks/tasks.service.ts       *)
(* maintains it: create, remove, addTaskDependency and                     *)
(* removeTaskDependency.  The service opens no database transaction, so a  *)
(* request is a sequence of steps, one for each await, and the requests of *)
(* different clients interleave between them.  A member of Requests is one *)
(* HTTP (or gRPC) call: it starts once, runs to its answer and stops.      *)
(*                                                                         *)
(* Rows of task_dependencies are records [id, task, on]; the id of a row   *)
(* is the request that created it, or a member of the seed.  The position  *)
(* of a row in the answer of a query is unspecified, so the queue of the   *)
(* breadth-first walk is kept as a set: every order of visiting is         *)
(* allowed, the first-in-first-out ones among them.                        *)
(***************************************************************************)
EXTENDS Naturals, FiniteSets

CONSTANTS
    Tasks,      \* task ids, those of tasks not created yet included
    Projects,   \* project ids
    ProjectOf,  \* the projectId of each task: no operation changes it
    Requests,   \* one member per call of the service
    SeedRows,   \* dependencies that earlier, finished calls may have left
    Calls       \* the calls clients make, see AddCall and the ones after it

RowIds == Requests \cup {row.id : row \in SeedRows}
Row == [id: RowIds, task: Tasks, on: Tasks]

NoCall == [kind |-> "none"]
AddCall == [kind: {"add"}, task: Tasks, on: Tasks]
RemoveCall == [kind: {"remove"}, task: Tasks, id: RowIds]
TaskCall == [kind: {"createTask", "deleteTask"}, task: Tasks]

\* No non-empty set of tasks leads back into itself from each of its members:
\* on a finite graph this says that there is no cycle.
Acyclic(E) ==
    \A S \in SUBSET Tasks :
        S # {} => \E n \in S : \A e \in E : e.task = n => e.on \notin S

\* The target belongs to every set that contains the source and is closed
\* under the dependencies.
Reaches(E, source, target) ==
    \A S \in SUBSET Tasks :
        /\ source \in S
        /\ \A e \in E : e.task \in S => e.on \in S
        => target \in S

WellFormed(E) ==
    /\ \A e \in E : e.task # e.on /\ ProjectOf[e.task] = ProjectOf[e.on]
    /\ \A e, f \in E : e.task = f.task /\ e.on = f.on => e = f
    /\ \A e, f \in E : e.id = f.id => e = f

ASSUME GraphAssumption ==
    /\ Calls \subseteq AddCall \cup RemoveCall \cup TaskCall
    /\ ProjectOf \in [Tasks -> Projects]
    /\ \A row \in SeedRows :
          /\ row \in [id: {row.id}, task: Tasks, on: Tasks]
          /\ row.id \notin Requests
    /\ WellFormed(SeedRows)
    /\ Acyclic(SeedRows)

VARIABLES
    tasks,    \* tasks: "unborn", "live" or "deleted" for each id
    deps,     \* task_dependencies: the set of rows
    pc,       \* where each request is; "done" when it has answered
    call,     \* the arguments of each request: [task, on, id]
    queue,    \* checkCircularDependency: the ids still to look at
    visited,  \* checkCircularDependency: the ids already expanded
    answer,   \* what the client of each request was told
    grew,     \* history: the requests during whose walk a row was created
    shrank,   \* history: the requests during whose walk a row was deleted
    raced     \* history: some row was created by a request in grew

vars == <<tasks, deps, pc, call, queue, visited, answer, grew, shrank, raced>>
walkVars == <<queue, visited>>
history == <<grew, shrank, raced>>

Answers == {"none", "ok", "notFound", "forbidden", "self", "project",
            "duplicate", "circular", "error"}
Labels == {"idle", "findTask", "findOn", "findPair", "walk", "findRow",
           "deleteRow", "deleteTask", "createTask", "done"}

TypeOK ==
    /\ tasks \in [Tasks -> {"unborn", "live", "deleted"}]
    /\ deps \in SUBSET Row
    /\ pc \in [Requests -> Labels]
    /\ call \in [Requests -> {NoCall} \cup Calls]
    /\ queue \in [Requests -> SUBSET Tasks]
    /\ visited \in [Requests -> SUBSET Tasks]
    /\ answer \in [Requests -> Answers]
    /\ grew \in SUBSET Requests
    /\ shrank \in SUBSET Requests
    /\ raced \in BOOLEAN

Live == {t \in Tasks : tasks[t] = "live"}
Walking == {r \in Requests : pc[r] = "walk"}

Init ==
    /\ tasks \in [Tasks -> {"unborn", "live"}]
    /\ deps \in SUBSET {row \in SeedRows : {row.task, row.on} \subseteq Live}
    /\ pc = [r \in Requests |-> "idle"]
    /\ call = [r \in Requests |-> NoCall]
    /\ queue = [r \in Requests |-> {}]
    /\ visited = [r \in Requests |-> {}]
    /\ answer = [r \in Requests |-> "none"]
    /\ grew = {}
    /\ shrank = {}
    /\ raced = FALSE

-----------------------------------------------------------------------------

Goto(r, label) == pc' = [pc EXCEPT ![r] = label]
Reply(r, what) == Goto(r, "done") /\ answer' = [answer EXCEPT ![r] = what]
Proceed(r, label) == Goto(r, label) /\ UNCHANGED answer

FirstStep == [add |-> "findTask", remove |-> "findTask",
              deleteTask |-> "findTask", createTask |-> "createTask"]
AfterFindTask == [add |-> "findOn", remove |-> "findRow", deleteTask |-> "deleteTask"]

\* A call arrives.  The id of a new task is fresh (withUlid).
Start(r) ==
    /\ pc[r] = "idle"
    /\ \E c \in Calls :
          /\ c.kind = "createTask" =>
                /\ tasks[c.task] = "unborn"
                /\ c \notin {call[q] : q \in Requests}
          /\ call' = [call EXCEPT ![r] = c]
          /\ Proceed(r, FirstStep[c.kind])
    /\ UNCHANGED <<tasks, deps, walkVars, history>>

\* findOne: no such task, or the caller is neither a member of the project
\* nor the owner of its workspace (memberships change outside this module).
LookUp(r, t, next) ==
    \/ t \notin Live /\ Reply(r, "notFound")
    \/ t \in Live /\ Reply(r, "forbidden")
    \/ t \in Live /\ next

FindTask(r) ==
    /\ pc[r] = "findTask"
    /\ LookUp(r, call[r].task, Proceed(r, AfterFindTask[call[r].kind]))
    /\ UNCHANGED <<tasks, deps, call, walkVars, history>>

\* The second findOne of addTaskDependency and the two checks behind it.
ChecksAfterLookup(r) ==
    LET t == call[r].task
        o == call[r].on
    IN  CASE t = o -> Reply(r, "self")
          [] t # o /\ ProjectOf[t] # ProjectOf[o] -> Reply(r, "project")
          [] OTHER -> Proceed(r, "findPair")

FindOn(r) ==
    /\ pc[r] = "findOn"
    /\ LookUp(r, call[r].on, ChecksAfterLookup(r))
    /\ UNCHANGED <<tasks, deps, call, walkVars, history>>

Joins(e, t, o) == e.task = t /\ e.on = o

FindPair(r) ==
    /\ pc[r] = "findPair"
    /\ IF \E e \in deps : Joins(e, call[r].task, call[r].on)
       THEN Reply(r, "duplicate") /\ UNCHANGED walkVars
       ELSE /\ Proceed(r, "walk")
            /\ queue' = [queue EXCEPT ![r] = {call[r].on}]
            /\ visited' = [visited EXCEPT ![r] = {}]
    /\ UNCHANGED <<tasks, deps, call, history>>

\* Slip: the two columns are swapped.
Dependents(n) == {e.task : e \in {d \in deps : d.on = n}}

\* Slip: the ids of the rows are read in place of the tasks they point to.
SuccessorRows(n) == {e.id : e \in {d \in deps : d.task = n}}

\* What the walk reads of a task: the tasks it depends on.
Successors(n) == {e.on : e \in {d \in deps : d.task = n}}

\* Slip: only the direct dependencies are looked at.
ExpandOnce(r, n) == IF visited[r] # {} THEN {} ELSE Successors(n)
\* Slip: the visited set is not consulted.
ExpandAlways(r, n) == Successors(n)

Expand(r, n) == IF n \in visited[r] THEN {} ELSE Successors(n)

\* One round of the loop of checkCircularDependency: an id is taken from the
\* queue; unless it is the task itself or was seen before, its own
\* dependencies are read and queued.
Walk(r) ==
    /\ pc[r] = "walk"
    /\ \E n \in queue[r] :
          IF n = call[r].task
          THEN Reply(r, "circular") /\ UNCHANGED walkVars
          ELSE /\ Proceed(r, "walk")
               /\ visited' = [visited EXCEPT ![r] = @ \cup {n}]
               /\ queue' = [queue EXCEPT ![r] = (@ \ {n}) \cup Expand(r, n)]
    /\ UNCHANGED <<tasks, deps, call, history>>

\* Slip: no unique key behind the check of findPair.
ForeignKeysOnly(row) == {row.task, row.on} \subseteq Live

\* The keys of task_dependencies: foreign keys to both tasks, one row a pair.
Insertable(row) ==
    /\ {row.task, row.on} \subseteq Live
    /\ ~ \E e \in deps : Joins(e, row.task, row.on)

\* The walk found no way back: the row is inserted.
CreateDependency(r) ==
    /\ pc[r] = "walk"
    /\ queue[r] = {}
    /\ LET row == [id |-> r, task |-> call[r].task, on |-> call[r].on]
       IN  IF Insertable(row)
           THEN /\ deps' = deps \cup {row}
                /\ Reply(r, "ok")
                /\ grew' = grew \cup Walking
                /\ raced' = (IF r \in grew THEN TRUE ELSE raced)
           ELSE Reply(r, "error") /\ UNCHANGED <<deps, grew, raced>>
    /\ UNCHANGED <<tasks, call, walkVars, shrank>>

FindRow(r) ==
    /\ pc[r] = "findRow"
    /\ IF \E e \in deps : e.id = call[r].id /\ e.task = call[r].task
       THEN Proceed(r, "deleteRow")
       ELSE Reply(r, "notFound")
    /\ UNCHANGED <<tasks, deps, call, walkVars, history>>

Drop(gone) ==
    /\ deps' = deps \ gone
    /\ shrank' = (IF gone = {} THEN shrank ELSE shrank \cup Walking)
    /\ UNCHANGED <<grew, raced>>

\* Deletion by id: the row read before may be gone by now.
DeleteRow(r) ==
    /\ pc[r] = "deleteRow"
    /\ LET gone == {e \in deps : e.id = call[r].id}
       IN  /\ Drop(gone)
           /\ Reply(r, IF gone = {} THEN "error" ELSE "ok")
    /\ UNCHANGED <<tasks, call, walkVars>>

\* remove: the rows on both sides of the task go with it (onDelete: Cascade).
DeleteTask(r) ==
    /\ pc[r] = "deleteTask"
    /\ LET t == call[r].task
       IN  IF t \in Live
           THEN /\ tasks' = [tasks EXCEPT ![t] = "deleted"]
                /\ Drop({e \in deps : t \in {e.task, e.on}})
                /\ Reply(r, "ok")
           ELSE Reply(r, "error") /\ UNCHANGED <<tasks, deps, history>>
    /\ UNCHANGED <<call, walkVars>>

\* create: refused when the project is gone or not the caller's; the parent
\* task it may name is written unchecked and plays no part here.
CreateTask(r) ==
    /\ pc[r] = "createTask"
    /\ \/ \E no \in {"notFound", "forbidden"} : Reply(r, no) /\ UNCHANGED tasks
       \/ /\ tasks' = [tasks EXCEPT ![call[r].task] = "live"]
          /\ Reply(r, "ok")
    /\ UNCHANGED <<deps, call, walkVars, history>>

Step(r) ==
    \/ FindTask(r) \/ FindOn(r) \/ FindPair(r) \/ Walk(r) \/ CreateDependency(r)
    \/ FindRow(r) \/ DeleteRow(r) \/ DeleteTask(r) \/ CreateTask(r)

Next == \E r \in Requests : Start(r) \/ Step(r)

\* A call that was accepted is carried on: the event loop resumes a handler
\* when the database answers it.
Fairness == \A r \in Requests : WF_vars(Step(r))

Spec == Init /\ [][Next]_vars
FairSpec == Spec /\ Fairness

-----------------------------------------------------------------------------
(***************************************************************************)
(* Properties                                                              *)
(***************************************************************************)

\* The stored graph stays a set of dependencies between two different, live
\* tasks of one project, one row for a pair, however the checks made before
\* the insert have aged (lines 432-455 against the insert at 469).
DependenciesWellFormed ==
    /\ WellFormed(deps)
    /\ \A e \in deps : {e.task, e.on} \subseteq Live

\* The walk of checkCircularDependency is a sound check unless another row is
\* created while it is under way: as long as that never happened, whatever
\* was deleted meanwhile, the stored graph has no cycle.
AcyclicUnlessRaced == raced \/ Acyclic(deps)

\* What the message of the refusal and the answer documented for the
\* endpoint say without that condition: no circular dependency is stored.
NoCircularDependency == Acyclic(deps)

\* A caller is told "would create a circular reference" only when the
\* dependency asked for would close a cycle of the graph as it is at that
\* moment, unless the graph changed under the walk.
CircularRefusalJustified ==
    [][\A r \in Requests :
          /\ answer[r] # "circular" /\ answer'[r] = "circular"
          /\ r \notin grew \cup shrank
          => Reaches(deps, call[r].on, call[r].task)]_vars

\* Every call is answered: the walk ends even on a graph that changes under
\* it or has become cyclic, because of the visited set.
EveryCallAnswered ==
    \A r \in Requests : pc[r] # "idle" ~> pc[r] = "done"

=============================================================================

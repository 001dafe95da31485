--------------------------- MODULE TaskGraphProofs ---------------------------
(***************************************************************************)
(* Theorems about TaskGraph, for any set of tasks, projects, calls and     *)
(* concurrent requests.                                                    *)
(***************************************************************************)
EXTENDS TaskGraph, TLAPS

-----------------------------------------------------------------------------
(***************************************************************************)
(* Facts about sets of rows                                                *)
(***************************************************************************)

\* Deleting rows never creates a cycle.
LEMMA AcyclicSubset ==
    ASSUME NEW E, NEW F, E \subseteq F, Acyclic(F)
    PROVE  Acyclic(E)
BY DEF Acyclic

\* The heart of checkCircularDependency: if V contains the task to depend on,
\* not the task itself, and every dependency of a member of V, then the row
\* closes no cycle.
LEMMA AcyclicInsert ==
    ASSUME NEW E, NEW row, NEW V,
           Acyclic(E), row.on \in V, row.task \notin V,
           \A e \in E : e.task \in V => e.on \in V
    PROVE  Acyclic(E \cup {row})
<1> DEFINE F == E \cup {row}
           Leaf(S, n) == \A e \in F : e.task = n => e.on \notin S
<1> SUFFICES ASSUME NEW S \in SUBSET Tasks, S # {}
             PROVE  \E n \in S : Leaf(S, n)
  BY DEF Acyclic
<1>1. CASE S \cap V # {}
  <2>1. PICK n \in S \cap V : \A e \in E : e.task = n => e.on \notin S \cap V
    BY <1>1 DEF Acyclic
  <2>2. Leaf(S, n)
    BY <2>1
  <2> QED BY <2>2
<1>2. CASE S \cap V = {}
  <2>1. PICK n \in S : \A e \in E : e.task = n => e.on \notin S
    BY DEF Acyclic
  <2>2. Leaf(S, n)
    BY <2>1, <1>2
  <2> QED BY <2>2
<1> QED BY <1>1, <1>2

\* A task reads as reachable, so do the tasks it depends on.
LEMMA ReachesStep ==
    ASSUME NEW E, NEW s, NEW e \in E, Reaches(E, s, e.task)
    PROVE  Reaches(E, s, e.on)
BY DEF Reaches

LEMMA ReachesSelf ==
    ASSUME NEW E, NEW s
    PROVE  Reaches(E, s, s)
BY DEF Reaches

-----------------------------------------------------------------------------
(***************************************************************************)
(* Type correctness                                                        *)
(***************************************************************************)

\* Where a request is says which kind of call it carries.
CallOK ==
    \A r \in Requests :
        /\ pc[r] = "findTask" => call[r] \in AddCall \cup RemoveCall \cup TaskCall
        /\ pc[r] = "findTask" => call[r].kind # "createTask"
        /\ pc[r] \in {"findOn", "findPair", "walk"} => call[r] \in AddCall
        /\ pc[r] \in {"findRow", "deleteRow"} => call[r] \in RemoveCall
        /\ pc[r] \in {"deleteTask", "createTask"} => call[r] \in TaskCall

Typed == TypeOK /\ CallOK

LEMMA SeedTyped == SeedRows \subseteq Row
<1> SUFFICES ASSUME NEW row \in SeedRows PROVE row \in Row
  OBVIOUS
<1>1. row \in [id: {row.id}, task: Tasks, on: Tasks]
  BY GraphAssumption
<1>2. row.id \in RowIds
  BY DEF RowIds
<1> QED BY <1>1, <1>2 DEF Row

LEMMA TypedInit == Init => Typed
<1> SUFFICES ASSUME Init PROVE Typed
  OBVIOUS
<1>1. deps \in SUBSET Row
  BY SeedTyped DEF Init
<1>2. TypeOK
  BY <1>1 DEF Init, TypeOK, Labels, Answers
<1>3. CallOK
  BY DEF Init, CallOK
<1> QED BY <1>2, <1>3 DEF Typed

\* The kind of a call says which arguments it has.
LEMMA CallKinds ==
    /\ \A c \in AddCall : c.kind = "add" /\ c.task \in Tasks /\ c.on \in Tasks
    /\ \A c \in RemoveCall : c.kind = "remove" /\ c.task \in Tasks /\ c.id \in RowIds
    /\ \A c \in TaskCall : c.kind \in {"createTask", "deleteTask"} /\ c.task \in Tasks
BY DEF AddCall, RemoveCall, TaskCall

LEMMA TypedStep == Typed /\ [Next]_vars => Typed'
<1> SUFFICES ASSUME Typed, [Next]_vars PROVE Typed'
  OBVIOUS
<1> USE CallKinds DEF Typed, TypeOK, Labels, Answers, Goto, Reply, Proceed,
                      walkVars, history
<1>1. ASSUME NEW r \in Requests, Start(r) PROVE Typed'
  <2>1. PICK c \in Calls : /\ call' = [call EXCEPT ![r] = c]
                           /\ Proceed(r, FirstStep[c.kind])
    BY <1>1 DEF Start
  <2>2. c \in AddCall \cup RemoveCall \cup TaskCall
    BY GraphAssumption
  <2>3. /\ c.kind \in {"add", "remove", "createTask", "deleteTask"}
        /\ c.kind = "createTask" => FirstStep[c.kind] = "createTask" /\ c \in TaskCall
        /\ c.kind # "createTask" => FirstStep[c.kind] = "findTask"
    BY <2>2 DEF FirstStep
  <2>4. TypeOK'
    BY <1>1, <2>1, <2>3 DEF Start
  <2>5. CallOK'
    BY <1>1, <2>1, <2>2, <2>3 DEF Start, CallOK
  <2> QED BY <2>4, <2>5
<1>2. ASSUME NEW r \in Requests, FindTask(r) PROVE Typed'
  <2>1. /\ call[r] \in AddCall \cup RemoveCall \cup TaskCall
        /\ call[r].kind # "createTask"
    BY <1>2 DEF FindTask, CallOK
  <2>2. \/ call[r] \in AddCall /\ AfterFindTask[call[r].kind] = "findOn"
        \/ call[r] \in RemoveCall /\ AfterFindTask[call[r].kind] = "findRow"
        \/ call[r] \in TaskCall /\ AfterFindTask[call[r].kind] = "deleteTask"
    BY <2>1 DEF AfterFindTask
  <2>3. TypeOK'
    BY <1>2, <2>2 DEF FindTask, LookUp
  <2>4. CallOK'
    BY <1>2, <2>2 DEF FindTask, LookUp, CallOK
  <2> QED BY <2>3, <2>4
<1>3. ASSUME NEW r \in Requests, FindOn(r) PROVE Typed'
  BY <1>3 DEF FindOn, LookUp, ChecksAfterLookup, CallOK
<1>4. ASSUME NEW r \in Requests, FindPair(r) PROVE Typed'
  <2>1. call[r].on \in Tasks
    BY <1>4 DEF FindPair, CallOK
  <2>2. TypeOK'
    BY <1>4, <2>1 DEF FindPair
  <2>3. CallOK'
    BY <1>4 DEF FindPair, CallOK
  <2> QED BY <2>2, <2>3
<1>5. ASSUME NEW r \in Requests, Walk(r) PROVE Typed'
  <2>1. PICK n \in queue[r] : Walk(r)!2!(n)
    BY <1>5 DEF Walk
  <2>2. n \in Tasks /\ Expand(r, n) \subseteq Tasks
    BY DEF Expand, Successors, Row
  <2>3. TypeOK'
    BY <1>5, <2>1, <2>2 DEF Walk
  <2>4. CallOK'
    BY <1>5, <2>1 DEF Walk, CallOK
  <2> QED BY <2>3, <2>4
<1>6. ASSUME NEW r \in Requests, CreateDependency(r) PROVE Typed'
  <2>1. [id |-> r, task |-> call[r].task, on |-> call[r].on] \in Row
    BY <1>6 DEF CreateDependency, CallOK, Row, RowIds
  <2>2. TypeOK'
    <3>1. deps' \subseteq Row /\ grew' \subseteq Requests /\ raced' \in BOOLEAN
      <4> DEFINE row == [id |-> r, task |-> call[r].task, on |-> call[r].on]
      <4>1. \/ deps' = deps \cup {row} /\ grew' = grew \cup Walking /\ raced' \in {TRUE, raced}
            \/ UNCHANGED <<deps, grew, raced>>
        BY <1>6 DEF CreateDependency
      <4>2. row \in Row /\ Walking \subseteq Requests
        BY <2>1 DEF Walking
      <4> HIDE DEF row
      <4> QED BY <4>1, <4>2
    <3>2. /\ pc' \in [Requests -> Labels]
          /\ answer' \in [Requests -> Answers]
          /\ UNCHANGED <<tasks, call, queue, visited, shrank>>
      BY <1>6 DEF CreateDependency
    <3> QED BY <3>1, <3>2
  <2>3. CallOK'
    <3>1. /\ pc'[r] = "done" /\ UNCHANGED call
          /\ \A q \in Requests \ {r} : pc'[q] = pc[q]
      BY <1>6 DEF CreateDependency
    <3> QED BY <3>1 DEF CallOK
  <2> QED BY <2>2, <2>3
<1>7. ASSUME NEW r \in Requests, FindRow(r) PROVE Typed'
  BY <1>7 DEF FindRow, CallOK
<1>8. ASSUME NEW r \in Requests, DeleteRow(r) PROVE Typed'
  BY <1>8 DEF DeleteRow, Drop, Walking, CallOK
<1>9. ASSUME NEW r \in Requests, DeleteTask(r) PROVE Typed'
  <2>1. call[r].task \in Tasks
    BY <1>9 DEF DeleteTask, CallOK
  <2>2. TypeOK'
    BY <1>9, <2>1 DEF DeleteTask, Drop, Walking
  <2>3. CallOK'
    BY <1>9 DEF DeleteTask, Drop, CallOK
  <2> QED BY <2>2, <2>3
<1>10. ASSUME NEW r \in Requests, CreateTask(r) PROVE Typed'
  <2>1. call[r].task \in Tasks
    BY <1>10 DEF CreateTask, CallOK
  <2>2. TypeOK'
    BY <1>10, <2>1 DEF CreateTask
  <2>3. CallOK'
    BY <1>10 DEF CreateTask, CallOK
  <2> QED BY <2>2, <2>3
<1>11. CASE UNCHANGED vars
  BY <1>11 DEF vars, CallOK
<1> QED
  BY <1>1, <1>2, <1>3, <1>4, <1>5, <1>6, <1>7, <1>8, <1>9, <1>10, <1>11
  DEF Next, Step

\* Every variable keeps its type, whatever calls are made.
THEOREM TypeCorrect == Spec => []TypeOK
<1>1. Typed => TypeOK BY DEF Typed
<1> QED BY TypedInit, TypedStep, <1>1, PTL DEF Spec

-----------------------------------------------------------------------------
(***************************************************************************)
(* Well-formed rows                                                        *)
(*                                                                         *)
(* DependenciesWellFormed is not inductive: the insert relies on checks    *)
(* made several awaits before.  Two of them cannot age, because they are   *)
(* about the arguments and the project of a task (ChecksPassed); the       *)
(* others are made good by the keys of the table.                          *)
(***************************************************************************)

ChecksPassed ==
    \A r \in Requests : pc[r] \in {"findPair", "walk"} =>
        /\ call[r].task # call[r].on
        /\ ProjectOf[call[r].task] = ProjectOf[call[r].on]

\* A request inserts its row with its last step.
OwnRowsLast == \A e \in deps : e.id \in Requests => pc[e.id] = "done"

Rows == ChecksPassed /\ OwnRowsLast /\ DependenciesWellFormed

LEMMA WellFormedSubset ==
    ASSUME NEW E, NEW F, E \subseteq F, WellFormed(F)
    PROVE  WellFormed(E)
BY DEF WellFormed

LEMMA RowsInit == Init => Rows
<1> SUFFICES ASSUME Init PROVE Rows
  OBVIOUS
<1>1. deps \subseteq SeedRows /\ \A e \in deps : {e.task, e.on} \subseteq Live
  BY DEF Init
<1>2. WellFormed(deps)
  BY <1>1, WellFormedSubset, GraphAssumption
<1>3. ChecksPassed /\ OwnRowsLast
  BY <1>1, GraphAssumption DEF Init, ChecksPassed, OwnRowsLast
<1> QED BY <1>1, <1>2, <1>3 DEF Rows, DependenciesWellFormed

\* Every step but the insert leaves fewer rows, all of them between live tasks.
LEMMA RowsForget ==
    ASSUME Rows, deps' \subseteq deps,
           \A e \in deps' : {e.task, e.on} \subseteq Live'
    PROVE  DependenciesWellFormed'
<1>1. WellFormed(deps')
  BY WellFormedSubset DEF Rows, DependenciesWellFormed
<1>2. WellFormed(deps')
      => /\ \A e \in deps' : e.task # e.on /\ ProjectOf[e.task] = ProjectOf[e.on]
         /\ \A e, f \in deps' : e.task = f.task /\ e.on = f.on => e = f
         /\ \A e, f \in deps' : e.id = f.id => e = f
  BY DEF WellFormed
<1> QED BY <1>1, <1>2 DEF DependenciesWellFormed, WellFormed

LEMMA RowsStep == Typed /\ Rows /\ [Next]_vars => Rows'
<1> SUFFICES ASSUME Typed, Rows, [Next]_vars PROVE Rows'
  OBVIOUS
<1> USE DEF Typed, TypeOK, Goto, Reply, Proceed, walkVars, history
\* Steps that touch neither table.
<1>1. ASSUME UNCHANGED <<deps, tasks>>,
             NEW r \in Requests, pc[r] # "done",
             \A q \in Requests \ {r} : pc'[q] = pc[q] /\ call'[q] = call[q],
             pc'[r] \in {"findPair", "walk"} =>
                /\ call'[r].task # call'[r].on
                /\ ProjectOf[call'[r].task] = ProjectOf[call'[r].on]
      PROVE  Rows'
  <2>1. ChecksPassed'
    BY <1>1 DEF Rows, ChecksPassed
  <2>2. OwnRowsLast'
    BY <1>1 DEF Rows, OwnRowsLast
  <2>3. DependenciesWellFormed'
    BY <1>1, RowsForget DEF Rows, DependenciesWellFormed, Live
  <2> QED BY <2>1, <2>2, <2>3 DEF Rows
\* Steps that delete rows and answer.
<1>2. ASSUME deps' \subseteq deps, UNCHANGED call,
             NEW r \in Requests, pc' = [pc EXCEPT ![r] = "done"],
             \A e \in deps' : {e.task, e.on} \subseteq Live'
      PROVE  Rows'
  <2>1. ChecksPassed' /\ OwnRowsLast'
    BY <1>2 DEF Rows, ChecksPassed, OwnRowsLast
  <2>2. DependenciesWellFormed'
    BY <1>2, RowsForget
  <2> QED BY <2>1, <2>2 DEF Rows
<1>3. ASSUME NEW r \in Requests, Start(r) PROVE Rows'
  <2>1. PICK c \in Calls : /\ call' = [call EXCEPT ![r] = c]
                           /\ pc' = [pc EXCEPT ![r] = FirstStep[c.kind]]
    BY <1>3 DEF Start
  <2>2. FirstStep[c.kind] \in {"findTask", "createTask"}
    BY GraphAssumption, CallKinds DEF FirstStep
  <2> QED BY <1>1, <1>3, <2>1, <2>2 DEF Start
<1>4. ASSUME NEW r \in Requests, FindTask(r) PROVE Rows'
  <2>1. AfterFindTask[call[r].kind] \in {"findOn", "findRow", "deleteTask"}
    BY <1>4, CallKinds DEF FindTask, CallOK, AfterFindTask
  <2> QED BY <1>1, <1>4, <2>1 DEF FindTask, LookUp
<1>5. ASSUME NEW r \in Requests, FindOn(r) PROVE Rows'
  BY <1>1, <1>5 DEF FindOn, LookUp, ChecksAfterLookup
<1>6. ASSUME NEW r \in Requests, FindPair(r) PROVE Rows'
  BY <1>1, <1>6 DEF FindPair, Rows, ChecksPassed
<1>7. ASSUME NEW r \in Requests, Walk(r) PROVE Rows'
  BY <1>1, <1>7 DEF Walk, Rows, ChecksPassed
<1>8. ASSUME NEW r \in Requests, CreateDependency(r) PROVE Rows'
  <2> DEFINE row == [id |-> r, task |-> call[r].task, on |-> call[r].on]
  <2>1. CASE ~Insertable(row)
    BY <1>1, <1>8, <2>1 DEF CreateDependency
  <2>2. CASE Insertable(row)
    <3>1. /\ deps' = deps \cup {row}
          /\ pc' = [pc EXCEPT ![r] = "done"]
          /\ UNCHANGED <<tasks, call>>
      BY <1>8, <2>2 DEF CreateDependency
    <3>2. ChecksPassed'
      BY <3>1 DEF Rows, ChecksPassed
    <3>3. OwnRowsLast'
      BY <3>1 DEF Rows, OwnRowsLast
    <3>4. \A e \in deps : e.id # r
      BY <1>8 DEF CreateDependency, Rows, OwnRowsLast
    <3>5. row.task # row.on /\ ProjectOf[row.task] = ProjectOf[row.on]
      BY <1>8 DEF CreateDependency, Rows, ChecksPassed
    <3>6. WellFormed(deps)'
      BY <3>1, <3>4, <3>5, <2>2
      DEF WellFormed, Rows, DependenciesWellFormed, Insertable, Joins
    <3>7. \A e \in deps' : {e.task, e.on} \subseteq Live'
      BY <3>1, <2>2 DEF Rows, DependenciesWellFormed, Insertable, Live
    <3> QED BY <3>2, <3>3, <3>6, <3>7 DEF Rows, DependenciesWellFormed
  <2> QED BY <2>1, <2>2
<1>9. ASSUME NEW r \in Requests, FindRow(r) PROVE Rows'
  BY <1>1, <1>9 DEF FindRow
<1>10. ASSUME NEW r \in Requests, DeleteRow(r) PROVE Rows'
  <2>1. \A e \in deps' : {e.task, e.on} \subseteq Live'
    BY <1>10 DEF DeleteRow, Drop, Rows, DependenciesWellFormed, Live
  <2> QED BY <1>2, <1>10, <2>1 DEF DeleteRow, Drop
<1>11. ASSUME NEW r \in Requests, DeleteTask(r) PROVE Rows'
  <2>1. \A e \in deps' : {e.task, e.on} \subseteq Live'
    BY <1>11 DEF DeleteTask, Drop, Rows, DependenciesWellFormed, Live
  <2>2. deps' \subseteq deps /\ UNCHANGED call /\ pc' = [pc EXCEPT ![r] = "done"]
    BY <1>11 DEF DeleteTask, Drop
  <2> QED BY <1>2, <2>1, <2>2
<1>12. ASSUME NEW r \in Requests, CreateTask(r) PROVE Rows'
  <2>1. \A e \in deps' : {e.task, e.on} \subseteq Live'
    BY <1>12 DEF CreateTask, Rows, DependenciesWellFormed, Live
  <2> QED BY <1>2, <1>12, <2>1 DEF CreateTask
<1>13. CASE UNCHANGED vars
  BY <1>13 DEF vars, Rows, ChecksPassed, OwnRowsLast, DependenciesWellFormed,
               WellFormed, Live
<1> QED
  BY <1>3, <1>4, <1>5, <1>6, <1>7, <1>8, <1>9, <1>10, <1>11, <1>12, <1>13
  DEF Next, Step

\* The table never holds a dependency of a task on itself, across projects,
\* on a deleted task, or twice, for any number of concurrent calls.
THEOREM RowsWellFormed == Spec => []DependenciesWellFormed
<1>1. Rows => DependenciesWellFormed BY DEF Rows
<1> QED BY TypedInit, TypedStep, RowsInit, RowsStep, <1>1, PTL DEF Spec

-----------------------------------------------------------------------------
(***************************************************************************)
(* The walk                                                                *)
(*                                                                         *)
(* While no row is created under it, a walk has seen a part of the graph   *)
(* that the dependencies leave only through the queue, and that holds the  *)
(* task to depend on but not the task itself.  Deletions only help.  When  *)
(* the queue is empty AcyclicInsert applies.                               *)
(***************************************************************************)

WalkSound ==
    \A r \in Requests : pc[r] = "walk" /\ r \notin grew =>
        /\ call[r].task \notin visited[r]
        /\ call[r].on \in queue[r] \cup visited[r]
        /\ \A e \in deps : e.task \in visited[r] => e.on \in queue[r] \cup visited[r]

Walks == WalkSound /\ AcyclicUnlessRaced

LEMMA WalksInit == Init => Walks
<1> SUFFICES ASSUME Init PROVE Walks
  OBVIOUS
<1>1. Acyclic(deps)
  <2>1. deps \subseteq SeedRows BY DEF Init
  <2> QED BY <2>1, AcyclicSubset, GraphAssumption
<1>2. WalkSound
  BY DEF Init, WalkSound
<1> QED BY <1>1, <1>2 DEF Walks, AcyclicUnlessRaced

LEMMA WalksStep == Typed /\ Walks /\ [Next]_vars => Walks'
<1> SUFFICES ASSUME Typed, Walks, [Next]_vars PROVE Walks'
  OBVIOUS
<1> USE DEF Typed, TypeOK, Goto, Reply, Proceed, walkVars, history
\* Rows may go, and every request that walks afterwards was walking before.
<1>1. ASSUME deps' \subseteq deps, UNCHANGED <<walkVars, grew, raced>>,
             \A q \in Requests : pc'[q] = "walk" => pc[q] = "walk" /\ call'[q] = call[q]
      PROVE  Walks'
  <2>1. WalkSound'
    BY <1>1 DEF Walks, WalkSound
  <2>2. AcyclicUnlessRaced'
    <3>1. Acyclic(deps) => Acyclic(deps')
      BY <1>1, AcyclicSubset
    <3>2. Acyclic(deps') => Acyclic(deps)'
      BY DEF Acyclic
    <3> QED BY <1>1, <3>1, <3>2 DEF Walks, AcyclicUnlessRaced
  <2> QED BY <2>1, <2>2 DEF Walks
\* The same with the graph as it was, and one walk that begins or goes on.
<1>2. ASSUME UNCHANGED <<deps, call, grew, raced>>, NEW r \in Requests,
             \A q \in Requests \ {r} : /\ pc'[q] = pc[q]
                                      /\ queue'[q] = queue[q]
                                      /\ visited'[q] = visited[q],
             pc'[r] = "walk" /\ r \notin grew =>
                /\ call[r].task \notin visited'[r]
                /\ call[r].on \in queue'[r] \cup visited'[r]
                /\ \A e \in deps : e.task \in visited'[r]
                                  => e.on \in queue'[r] \cup visited'[r]
      PROVE  Walks'
  <2>1. WalkSound'
    BY <1>2 DEF Walks, WalkSound
  <2>2. AcyclicUnlessRaced'
    BY <1>2 DEF Walks, AcyclicUnlessRaced, Acyclic
  <2> QED BY <2>1, <2>2 DEF Walks
<1>3. ASSUME NEW r \in Requests, Start(r) PROVE Walks'
  <2>1. PICK c \in Calls : /\ call' = [call EXCEPT ![r] = c]
                           /\ pc' = [pc EXCEPT ![r] = FirstStep[c.kind]]
    BY <1>3 DEF Start
  <2>2. FirstStep[c.kind] \in {"findTask", "createTask"}
    BY GraphAssumption, CallKinds DEF FirstStep
  <2> QED BY <1>1, <1>3, <2>1, <2>2 DEF Start
<1>4. ASSUME NEW r \in Requests, FindTask(r) PROVE Walks'
  <2>1. AfterFindTask[call[r].kind] \in {"findOn", "findRow", "deleteTask"}
    BY <1>4, CallKinds DEF FindTask, CallOK, AfterFindTask
  <2> QED BY <1>1, <1>4, <2>1 DEF FindTask, LookUp
<1>5. ASSUME NEW r \in Requests, FindOn(r) PROVE Walks'
  BY <1>1, <1>5 DEF FindOn, LookUp, ChecksAfterLookup
<1>6. ASSUME NEW r \in Requests, FindPair(r) PROVE Walks'
  BY <1>2, <1>6 DEF FindPair
<1>7. ASSUME NEW r \in Requests, Walk(r) PROVE Walks'
  <2>1. PICK n \in queue[r] : Walk(r)!2!(n)
    BY <1>7 DEF Walk
  <2>2. CASE n = call[r].task
    BY <1>1, <1>7, <2>1, <2>2 DEF Walk
  <2>3. CASE n # call[r].task
    <3>1. /\ pc' = [pc EXCEPT ![r] = "walk"]
          /\ visited' = [visited EXCEPT ![r] = @ \cup {n}]
          /\ queue' = [queue EXCEPT ![r] = (@ \ {n}) \cup Expand(r, n)]
          /\ UNCHANGED <<tasks, deps, call, grew, shrank, raced>>
      BY <1>7, <2>1, <2>3 DEF Walk
    <3>2. \A e \in deps : e.task = n => e.on \in Expand(r, n) \/ n \in visited[r]
      BY DEF Expand, Successors
    <3> QED BY <1>2, <1>7, <2>3, <3>1, <3>2 DEF Walk, Walks, WalkSound
  <2> QED BY <2>2, <2>3
<1>8. ASSUME NEW r \in Requests, CreateDependency(r) PROVE Walks'
  <2> DEFINE row == [id |-> r, task |-> call[r].task, on |-> call[r].on]
  <2>1. CASE ~Insertable(row)
    BY <1>1, <1>8, <2>1 DEF CreateDependency
  <2>2. CASE Insertable(row)
    <3>1. /\ deps' = deps \cup {row}
          /\ pc' = [pc EXCEPT ![r] = "done"]
          /\ grew' = grew \cup Walking
          /\ raced' = IF r \in grew THEN TRUE ELSE raced
          /\ UNCHANGED <<tasks, call, queue, visited>>
      BY <1>8, <2>2 DEF CreateDependency
    <3>2. WalkSound'
      BY <3>1 DEF WalkSound, Walking
    <3>3. ASSUME ~raced' PROVE Acyclic(deps')
      <4>1. r \notin grew /\ Acyclic(deps)
        BY <3>1, <3>3 DEF Walks, AcyclicUnlessRaced
      <4>2. /\ row.task \notin visited[r]
            /\ row.on \in visited[r]
            /\ \A e \in deps : e.task \in visited[r] => e.on \in visited[r]
        BY <1>8, <4>1 DEF CreateDependency, Walks, WalkSound
      <4>3. Acyclic(deps \cup {row})
        BY <4>1, <4>2, AcyclicInsert
      <4> QED BY <3>1, <4>3
    <3>4. Acyclic(deps') => Acyclic(deps)'
      BY DEF Acyclic
    <3> QED BY <3>2, <3>3, <3>4 DEF Walks, AcyclicUnlessRaced
  <2> QED BY <2>1, <2>2
<1>9. ASSUME NEW r \in Requests, FindRow(r) PROVE Walks'
  BY <1>1, <1>9 DEF FindRow
<1>10. ASSUME NEW r \in Requests, DeleteRow(r) PROVE Walks'
  BY <1>1, <1>10 DEF DeleteRow, Drop
<1>11. ASSUME NEW r \in Requests, DeleteTask(r) PROVE Walks'
  BY <1>1, <1>11 DEF DeleteTask, Drop
<1>12. ASSUME NEW r \in Requests, CreateTask(r) PROVE Walks'
  BY <1>1, <1>12 DEF CreateTask
<1>13. CASE UNCHANGED vars
  BY <1>1, <1>13 DEF vars
<1> QED
  BY <1>3, <1>4, <1>5, <1>6, <1>7, <1>8, <1>9, <1>10, <1>11, <1>12, <1>13
  DEF Next, Step

\* The check for circular dependencies is sound for every number of tasks and
\* of concurrent calls, as long as no row is created under the walk of a call
\* that goes on to insert.
THEOREM CycleNeedsRace == Spec => []AcyclicUnlessRaced
<1>1. Walks => AcyclicUnlessRaced BY DEF Walks
<1> QED BY TypedInit, TypedStep, WalksInit, WalksStep, <1>1, PTL DEF Spec

-----------------------------------------------------------------------------
(***************************************************************************)
(* Refusals: everything a walk has queued or seen in a graph that did not  *)
(* change under it is really reachable from the task to depend on.         *)
(***************************************************************************)

Path(r, n) == Reaches(deps, call[r].on, n)

PathsReal ==
    \A r \in Requests : pc[r] = "walk" /\ r \notin grew \cup shrank =>
        \A n \in queue[r] \cup visited[r] : Path(r, n)

LEMMA PathsInit == Init => PathsReal
BY DEF Init, PathsReal

LEMMA PathsStep == Typed /\ PathsReal /\ [Next]_vars => PathsReal'
<1> SUFFICES ASSUME Typed, PathsReal, [Next]_vars PROVE PathsReal'
  OBVIOUS
<1> USE DEF Typed, TypeOK, Goto, Reply, Proceed, walkVars, history
<1>1. ASSUME UNCHANGED <<deps, grew, shrank, walkVars>>,
             \A q \in Requests : pc'[q] = "walk" => pc[q] = "walk" /\ call'[q] = call[q]
      PROVE  PathsReal'
  <2>1. SUFFICES ASSUME NEW q \in Requests, pc'[q] = "walk", q \notin grew \cup shrank,
                        NEW n \in queue[q] \cup visited[q]
                 PROVE  Reaches(deps, call[q].on, n)
    BY <1>1 DEF PathsReal, Path, Reaches
  <2> QED BY <1>1, <2>1 DEF PathsReal, Path
\* A change of the graph marks every request that walks.
<1>2. ASSUME UNCHANGED call, Walking \subseteq grew' \cup shrank',
             grew \cup shrank \subseteq grew' \cup shrank',
             \A q \in Requests : pc'[q] = "walk" => pc[q] = "walk"
      PROVE  PathsReal'
  BY <1>2 DEF PathsReal, Walking
<1>3. ASSUME UNCHANGED <<deps, call, grew, shrank>>, NEW r \in Requests,
             \A q \in Requests \ {r} : /\ pc'[q] = pc[q]
                                      /\ queue'[q] = queue[q]
                                      /\ visited'[q] = visited[q],
             r \notin grew \cup shrank => \A n \in queue'[r] \cup visited'[r] : Path(r, n)
      PROVE  PathsReal'
  <2>1. SUFFICES ASSUME NEW q \in Requests, pc'[q] = "walk", q \notin grew \cup shrank,
                        NEW n \in queue'[q] \cup visited'[q]
                 PROVE  Reaches(deps, call[q].on, n)
    BY <1>3 DEF PathsReal, Path, Reaches
  <2> QED BY <1>3, <2>1 DEF PathsReal, Path
<1>4. ASSUME NEW r \in Requests, Start(r) PROVE PathsReal'
  <2>1. PICK c \in Calls : /\ call' = [call EXCEPT ![r] = c]
                           /\ pc' = [pc EXCEPT ![r] = FirstStep[c.kind]]
    BY <1>4 DEF Start
  <2>2. FirstStep[c.kind] \in {"findTask", "createTask"}
    BY GraphAssumption, CallKinds DEF FirstStep
  <2> QED BY <1>1, <1>4, <2>1, <2>2 DEF Start
<1>5. ASSUME NEW r \in Requests, FindTask(r) PROVE PathsReal'
  <2>1. AfterFindTask[call[r].kind] \in {"findOn", "findRow", "deleteTask"}
    BY <1>5, CallKinds DEF FindTask, CallOK, AfterFindTask
  <2> QED BY <1>1, <1>5, <2>1 DEF FindTask, LookUp
<1>6. ASSUME NEW r \in Requests, FindOn(r) PROVE PathsReal'
  BY <1>1, <1>6 DEF FindOn, LookUp, ChecksAfterLookup
<1>7. ASSUME NEW r \in Requests, FindPair(r) PROVE PathsReal'
  <2>1. CASE pc'[r] = "walk"
    <3>1. queue'[r] \cup visited'[r] = {call[r].on}
      BY <1>7, <2>1 DEF FindPair
    <3>2. Path(r, call[r].on)
      BY ReachesSelf DEF Path
    <3> QED BY <1>3, <1>7, <3>1, <3>2 DEF FindPair
  <2>2. CASE pc'[r] # "walk"
    BY <1>1, <1>7, <2>2 DEF FindPair
  <2> QED BY <2>1, <2>2
<1>8. ASSUME NEW r \in Requests, Walk(r) PROVE PathsReal'
  <2>1. PICK n \in queue[r] : Walk(r)!2!(n)
    BY <1>8 DEF Walk
  <2>2. CASE n = call[r].task
    BY <1>1, <1>8, <2>1, <2>2 DEF Walk
  <2>3. CASE n # call[r].task
    <3>1. /\ visited' = [visited EXCEPT ![r] = @ \cup {n}]
          /\ queue' = [queue EXCEPT ![r] = (@ \ {n}) \cup Expand(r, n)]
          /\ pc' = [pc EXCEPT ![r] = "walk"]
          /\ UNCHANGED <<deps, call, grew, shrank>>
      BY <1>8, <2>1, <2>3 DEF Walk
    <3>2. ASSUME r \notin grew \cup shrank, NEW m \in Expand(r, n) PROVE Path(r, m)
      <4>1. PICK e \in deps : e.task = n /\ e.on = m
        BY <3>2 DEF Expand, Successors
      <4>2. Path(r, n)
        BY <1>8, <3>2 DEF Walk, PathsReal
      <4> QED BY <4>1, <4>2, ReachesStep DEF Path
    <3>3. r \notin grew \cup shrank => \A m \in queue[r] \cup visited[r] : Path(r, m)
      BY <1>8 DEF Walk, PathsReal
    <3>4. queue'[r] \cup visited'[r] \subseteq queue[r] \cup visited[r] \cup Expand(r, n)
      BY <3>1
    <3>5. r \notin grew \cup shrank => \A m \in queue'[r] \cup visited'[r] : Path(r, m)
      BY <3>2, <3>3, <3>4
    <3> QED BY <1>3, <3>1, <3>5
  <2> QED BY <2>2, <2>3
<1>9. ASSUME NEW r \in Requests, CreateDependency(r) PROVE PathsReal'
  <2> DEFINE row == [id |-> r, task |-> call[r].task, on |-> call[r].on]
  <2>1. CASE ~Insertable(row)
    BY <1>1, <1>9, <2>1 DEF CreateDependency
  <2>2. CASE Insertable(row)
    BY <1>2, <1>9, <2>2 DEF CreateDependency
  <2> QED BY <2>1, <2>2
<1>10. ASSUME NEW r \in Requests, FindRow(r) PROVE PathsReal'
  BY <1>1, <1>10 DEF FindRow
<1>11. ASSUME NEW r \in Requests, NEW gone, Drop(gone), UNCHANGED <<call, walkVars>>,
              pc' = [pc EXCEPT ![r] = "done"]
       PROVE  PathsReal'
  <2>1. CASE gone = {}
    BY <1>1, <1>11, <2>1 DEF Drop
  <2>2. CASE gone # {}
    BY <1>2, <1>11, <2>2 DEF Drop
  <2> QED BY <2>1, <2>2
<1>12. ASSUME NEW r \in Requests, DeleteRow(r) PROVE PathsReal'
  BY <1>11, <1>12 DEF DeleteRow
<1>13. ASSUME NEW r \in Requests, DeleteTask(r) PROVE PathsReal'
  <2>1. CASE call[r].task \in Live
    BY <1>11, <1>13, <2>1 DEF DeleteTask
  <2>2. CASE call[r].task \notin Live
    BY <1>1, <1>13, <2>2 DEF DeleteTask
  <2> QED BY <2>1, <2>2
<1>14. ASSUME NEW r \in Requests, CreateTask(r) PROVE PathsReal'
  BY <1>1, <1>14 DEF CreateTask
<1>15. CASE UNCHANGED vars
  BY <1>1, <1>15 DEF vars
<1> QED
  BY <1>4, <1>5, <1>6, <1>7, <1>8, <1>9, <1>10, <1>12, <1>13, <1>14, <1>15
  DEF Next, Step

\* The only step that answers "circular" is a walk that meets the task itself.
LEMMA RefusalStep ==
    ASSUME Typed, PathsReal, [Next]_vars, NEW r \in Requests,
           answer[r] # "circular", answer'[r] = "circular", r \notin grew \cup shrank
    PROVE  Path(r, call[r].task)
<1> USE DEF Typed, TypeOK, Goto, Reply, Proceed, walkVars, history
<1>1. PICK q \in Requests : Start(q) \/ Step(q)
  BY DEF Next, vars
<1>2. q = r
  BY <1>1 DEF Start, Step, FindTask, LookUp, FindOn, ChecksAfterLookup, FindPair, Walk,
              CreateDependency, FindRow, DeleteRow, DeleteTask, CreateTask
<1>3. Walk(r)
  BY <1>1, <1>2 DEF Start, Step, FindTask, LookUp, FindOn, ChecksAfterLookup, FindPair,
              CreateDependency, FindRow, DeleteRow, DeleteTask, CreateTask
<1>4. call[r].task \in queue[r]
  BY <1>3 DEF Walk
<1> QED BY <1>3, <1>4 DEF Walk, PathsReal

\* No call is refused as circular for a path that does not exist, unless the
\* graph changed under its walk.
THEOREM RefusalsJustified == Spec => CircularRefusalJustified
<1> DEFINE Justified ==
      \A r \in Requests :
          /\ answer[r] # "circular" /\ answer'[r] = "circular"
          /\ r \notin grew \cup shrank
          => Reaches(deps, call[r].on, call[r].task)
<1>1. Typed /\ PathsReal /\ [Next]_vars => [Justified]_vars
  BY RefusalStep DEF Path
<1>2. Typed /\ PathsReal /\ [Next]_vars => Typed' /\ PathsReal'
  BY TypedStep, PathsStep
<1>3. CircularRefusalJustified <=> [][Justified]_vars
  BY DEF CircularRefusalJustified
<1> QED BY TypedInit, PathsInit, <1>1, <1>2, <1>3, PTL DEF Spec

=============================================================================

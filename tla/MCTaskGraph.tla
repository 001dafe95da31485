---------------------------- MODULE MCTaskGraph ----------------------------
(***************************************************************************)
(* Small instances of TaskGraph: three tasks of one project, one of        *)
(* another, and what earlier calls may have left between them.             *)
(***************************************************************************)
EXTENDS TaskGraph

CONSTANTS a, b, c, x, here, there, seed

MCTasks == {a, b, c, x}
MCProjects == {here, there}
MCProjectOf == [t \in MCTasks |-> IF t = x THEN there ELSE here]
MCSeedRows == {[id |-> seed, task |-> b, on |-> c]}

\* Dependencies that can close a cycle, one on itself and one across projects;
\* a removal of the seed; a task removed and a task created.
Add(t, o) == [kind |-> "add", task |-> t, on |-> o]
MCCalls ==
    {Add(a, a), Add(a, b), Add(b, a), Add(c, a), Add(a, x)}
      \cup [kind: {"remove"}, task: {b}, id: {seed}]
      \cup [kind: {"createTask", "deleteTask"}, task: {b}]

=============================================================================

----------------------------- MODULE Delegations -----------------------------
(***************************************************************************)
(* Assignments and shares: assignments.service.ts and shares.service.ts.   *)
(* Both hang on an entity by its type and id, without a foreign key: they  *)
(* outlive it.  Both are created only when none like them is found, which  *)
(* no unique key backs, and are announced after they were stored: when     *)
(* that fails the caller sees an error and the row is there.               *)
(***************************************************************************)
EXTENDS Handlers

CONSTANTS
    Users, Entities, Teams,
    Rows,              \* ids of assignments and shares
    Access,            \* who may open each entity: owner and project members
    DelegationCalls    \* the calls clients make

AssignCall == [kind: {"assign"}, by: Users, row: Rows, entity: Entities, assignee: Users]
StatusCall == [kind: {"updateStatus"}, by: Users, row: Rows,
               status: {"pending", "accepted", "in_progress", "completed", "blocked", "declined", "unknown"}]
AssignmentCall == [kind: {"updateAssignment", "removeAssignment"}, by: Users, row: Rows]
ShareCall == [kind: {"share"}, by: Users, row: Rows, entity: Entities,
              with: Users \cup Teams]
ShareRowCall == [kind: {"updateShare", "removeShare"}, by: Users, row: Rows]
\* What other services do.
RemoveEntityCall == [kind: {"removeEntity"}, entity: Entities]

Statuses == {"pending", "accepted", "in_progress", "completed", "blocked", "declined"}
Assignment == [entity: Entities, assignee: Users, assigner: Users, status: Statuses, completed: BOOLEAN]
Share == [entity: Entities, with: Users \cup Teams, by: Users]

DelegationsAssumption ==
    /\ DelegationCalls \subseteq AssignCall \cup StatusCall \cup AssignmentCall \cup ShareCall
                        \cup ShareRowCall \cup RemoveEntityCall
    /\ \A e \in Entities : Access[e] \subseteq Users
    /\ Users \cap Teams = {}
    /\ None \notin Assignment \cup Share

VARIABLES
    entities,     \* the entities there are
    assignments,  \* None, or [entity, assignee, assigner, status, completed]
    shares,       \* None, or [entity, with, by]
    crossed,      \* history: creations since whose check a row like theirs came up
    revived       \* history: assignments that were settled and then taken up again

tables == <<entities, assignments, shares>>
history == <<crossed, revived>>
vars == <<handlers, tables, history>>

Settled == {"completed", "declined"}

TypeOK ==
    /\ Handling({"entity", "recipient", "active", "insertAssignment", "tellAssignee", "row", "rowEntity",
                 "writeStatus", "tellAssigner", "writeAssignment", "deleteAssignment", "share", "insertShare",
                 "tellRecipients", "shareRow", "member", "writeShare", "deleteShare", "removeEntity"}, DelegationCalls, {"refused"})
    /\ entities \subseteq Entities
    /\ assignments \in [Rows -> Assignment \cup {None}]
    /\ shares \in [Rows -> Share \cup {None}]
    /\ crossed \subseteq Rows /\ revived \subseteq Rows

Init ==
    /\ HandlersInit
    /\ entities = Entities
    /\ assignments = [a \in Rows |-> None] /\ shares = [s \in Rows |-> None]
    /\ crossed = {} /\ revived = {}

\* The id of a row to create was never used.
FreshId(c) == c.kind \in {"assign", "share"} =>
                  \A q \in Requests : Kind(q) \in {"assign", "share"} => call[q].row # c.row

StartWith(r, kinds, label) ==
    /\ \E c \in {c \in DelegationCalls : c.kind \in kinds} : FreshId(c) /\ Begin(r, c, label)
    /\ UNCHANGED <<tables, history>>

Start(r) ==
    \/ StartWith(r, {"assign", "share"}, "entity")
    \/ StartWith(r, {"updateStatus", "updateAssignment", "removeAssignment"}, "row")
    \/ StartWith(r, {"updateShare", "removeShare"}, "shareRow")
    \/ StartWith(r, {"removeEntity"}, "removeEntity")

-----------------------------------------------------------------------------
(***************************************************************************)
(* Creating                                                                *)
(***************************************************************************)

\* verifyAssignableAccess and verifyShareableAccess; a ticket is open to all.
VerifyAccess(r, e, label) ==
    IF e \notin entities THEN Reply(r, "notFound")
    ELSE IF call[r].by \notin Access[e] THEN Reply(r, "forbidden")
    ELSE Goto(r, label)

FindEntity(r) ==
    /\ pc[r] = "entity"
    /\ VerifyAccess(r, call[r].entity, "recipient")
    /\ UNCHANGED <<tables, history>>

\* The assignee, or verifySharedWith; the id may name nobody.
FindRecipient(r) ==
    /\ pc[r] = "recipient"
    /\ Goto(r, IF Kind(r) = "assign" THEN "active" ELSE "share") \/ Reply(r, "notFound")
    /\ UNCHANGED <<tables, history>>

IsActive(a) == assignments[a] # None /\ assignments[a].status \notin Settled

Same(a, c) == assignments[a].entity = c.entity /\ assignments[a].assignee = c.assignee

FindActive(r) ==
    /\ pc[r] = "active"
    /\ IF \E a \in Rows : IsActive(a) /\ Same(a, call[r]) THEN Reply(r, "refused")
       ELSE Goto(r, "insertAssignment")
    /\ UNCHANGED <<tables, history>>

\* Calls that have looked for an assignment like row and will insert theirs.
Inserting(row) ==
    {call[q].row : q \in {q \in At("insertAssignment") :
                             call[q].entity = row.entity /\ call[q].assignee = row.assignee}}

CreateAssignment(r) ==
    /\ pc[r] = "insertAssignment"
    /\ LET c == call[r]
           row == [entity |-> c.entity, assignee |-> c.assignee, assigner |-> c.by,
                   status |-> "pending", completed |-> FALSE]
       IN  /\ assignments' = [assignments EXCEPT ![c.row] = row]
           /\ crossed' = crossed \cup (Inserting(row) \ {c.row})
    /\ Goto(r, "tellAssignee")
    /\ UNCHANGED <<entities, shares, revived>>

SameShare(s, c) == shares[s].entity = c.entity /\ shares[s].with = c.with

FindShare(r) ==
    /\ pc[r] = "share"
    /\ IF \E s \in Rows : shares[s] # None /\ SameShare(s, call[r]) THEN Reply(r, "refused")
       ELSE Goto(r, "insertShare")
    /\ UNCHANGED <<tables, history>>

CreateShare(r) ==
    /\ pc[r] = "insertShare"
    /\ LET c == call[r]
       IN  /\ shares' = [shares EXCEPT ![c.row] =
                  [entity |-> c.entity, with |-> c.with, by |-> c.by]]
           /\ crossed' = crossed \cup {call[q].row : q \in {q \in At("insertShare") \ {r} :
                             call[q].entity = c.entity /\ call[q].with = c.with}}
    /\ Goto(r, "tellRecipients")
    /\ UNCHANGED <<entities, assignments, revived>>

\* notifyAssignmentCreated, or notifyShareCreated for the user or for every
\* member of the team: an error of theirs is the answer.
Announce(r) ==
    /\ pc[r] \in {"tellAssignee", "tellRecipients"}
    /\ Reply(r, "ok") \/ Reply(r, "error")
    /\ UNCHANGED <<tables, history>>

-----------------------------------------------------------------------------
(***************************************************************************)
(* Assignments                                                             *)
(***************************************************************************)

MayWrite(r, a) ==
    CASE Kind(r) = "updateStatus" -> a.assignee = call[r].by
      [] Kind(r) = "updateAssignment" -> call[r].by \in {a.assignee, a.assigner}
      [] Kind(r) = "removeAssignment" -> a.assigner = call[r].by

WriteLabel(r) ==
    CASE Kind(r) = "updateStatus" -> "writeStatus"
      [] Kind(r) = "updateAssignment" -> "writeAssignment"
      [] Kind(r) = "removeAssignment" -> "deleteAssignment"

\* findOne and what the caller asks of the row it returns.  Who is neither
\* assignee nor assigner is refused, but told whether the entity is open to him.
FindAssignment(r) ==
    /\ pc[r] = "row"
    /\ LET a == assignments[call[r].row]
       IN  IF a = None THEN Reply(r, "notFound")
           ELSE IF call[r].by \notin {a.assignee, a.assigner} THEN Continue(r, "rowEntity", a)
           ELSE IF ~MayWrite(r, a) THEN Reply(r, "forbidden")
           ELSE IF Kind(r) = "updateStatus" /\ call[r].status \notin Statuses THEN Reply(r, "refused")
           ELSE Continue(r, WriteLabel(r), a)
    /\ UNCHANGED <<tables, history>>

VerifyRowEntity(r) ==
    /\ pc[r] = "rowEntity"
    /\ Reply(r, IF held[r].entity \in entities THEN "forbidden" ELSE "notFound")
    /\ UNCHANGED <<tables, history>>

\* Slip: a declined assignment keeps the time it was completed at.
PendingClears(a, status) ==
    IF status = "completed" THEN TRUE ELSE IF status = "pending" THEN FALSE ELSE a.completed

Completed(a, status) ==
    IF status = "completed" THEN TRUE
    ELSE IF status \in {"pending", "declined"} THEN FALSE
    ELSE a.completed

WriteStatus(r) ==
    /\ pc[r] = "writeStatus"
    /\ LET id == call[r].row
           a == assignments[id]
           status == call[r].status
           back == a # None /\ a.status \in Settled /\ status \notin Settled
       IN  IF a = None THEN Fails(r) /\ UNCHANGED <<assignments, crossed, revived>>
           ELSE /\ assignments' = [assignments EXCEPT ![id].status = status,
                                                      ![id].completed = Completed(a, status)]
                /\ revived' = IF back THEN revived \cup {id} ELSE revived
                /\ crossed' = IF back THEN crossed \cup Inserting(a) ELSE crossed
                /\ IF a.assigner = call[r].by THEN Reply(r, "ok") ELSE Goto(r, "tellAssigner")
    /\ UNCHANGED <<entities, shares>>

\* notifyAssignmentStatusChanged, whose error is the answer.
TellAssigner(r) ==
    /\ pc[r] = "tellAssigner"
    /\ Reply(r, "ok") \/ Reply(r, "error")
    /\ UNCHANGED <<tables, history>>

\* Priority, due date and notes decide nothing.
WriteAssignment(r) ==
    /\ pc[r] = "writeAssignment"
    /\ IF assignments[call[r].row] = None THEN Fails(r) ELSE Reply(r, "ok")
    /\ UNCHANGED <<tables, history>>

DeleteAssignment(r) ==
    /\ pc[r] = "deleteAssignment"
    /\ IF assignments[call[r].row] = None THEN Fails(r) /\ UNCHANGED assignments
       ELSE Reply(r, "ok") /\ assignments' = [assignments EXCEPT ![call[r].row] = None]
    /\ UNCHANGED <<entities, shares, history>>

-----------------------------------------------------------------------------
(***************************************************************************)
(* Shares                                                                  *)
(***************************************************************************)

\* findOne, then "only the creator"; a recipient gets as far as the latter.
FindShareRow(r) ==
    /\ pc[r] = "shareRow"
    /\ LET s == shares[call[r].row]
       IN  IF s = None THEN Reply(r, "notFound")
           ELSE IF s.by = call[r].by
                THEN Continue(r, IF Kind(r) = "updateShare" THEN "writeShare" ELSE "deleteShare", s)
           ELSE IF s.with \in Teams THEN Continue(r, "member", s)
           ELSE Reply(r, "forbidden")
    /\ UNCHANGED <<tables, history>>

FindMember(r) == pc[r] = "member" /\ Reply(r, "forbidden") /\ UNCHANGED <<tables, history>>

\* Permission and expiry decide nothing here: an expired share still is one.
WriteShare(r) ==
    /\ pc[r] = "writeShare"
    /\ IF shares[call[r].row] = None THEN Fails(r) ELSE Reply(r, "ok")
    /\ UNCHANGED <<tables, history>>

DeleteShare(r) ==
    /\ pc[r] = "deleteShare"
    /\ IF shares[call[r].row] = None THEN Fails(r) /\ UNCHANGED shares
       ELSE Reply(r, "ok") /\ shares' = [shares EXCEPT ![call[r].row] = None]
    /\ UNCHANGED <<entities, assignments, history>>

\* The removal of an entity leaves what hangs on it.
RemoveEntity(r) ==
    /\ pc[r] = "removeEntity"
    /\ entities' = entities \ {call[r].entity}
    /\ Reply(r, "ok")
    /\ UNCHANGED <<assignments, shares, history>>

Next ==
    \E r \in Requests :
        \/ Start(r) \/ FindEntity(r) \/ FindRecipient(r)
        \/ FindActive(r) \/ CreateAssignment(r) \/ FindShare(r) \/ CreateShare(r) \/ Announce(r)
        \/ FindAssignment(r) \/ VerifyRowEntity(r) \/ WriteStatus(r) \/ TellAssigner(r)
        \/ WriteAssignment(r) \/ DeleteAssignment(r)
        \/ FindShareRow(r) \/ FindMember(r) \/ WriteShare(r) \/ DeleteShare(r) \/ RemoveEntity(r)

Spec == Init /\ [][Next]_vars

-----------------------------------------------------------------------------
(***************************************************************************)
(* Properties                                                              *)
(***************************************************************************)

\* "Active assignment already exists": of one entity to one user there are two
\* active ones only when the creation of one was overtaken by a row like its
\* own, or one had been settled and was taken up again.
OneActiveUnlessCrossedOrRevived ==
    \A a, b \in Rows :
        a # b /\ IsActive(a) /\ IsActive(b)
          /\ assignments[a].entity = assignments[b].entity
          /\ assignments[a].assignee = assignments[b].assignee =>
              {a, b} \cap (crossed \cup revived) # {}

\* "Share already exists": likewise, and an expired share still is one.
OneShareUnlessCrossed ==
    \A s, t \in Rows :
        s # t /\ shares[s] # None /\ shares[t] # None
          /\ shares[s].entity = shares[t].entity /\ shares[s].with = shares[t].with =>
              {s, t} \cap crossed # {}

\* The time an assignment was completed at is there while it is completed, and
\* gone when it was declined or is pending; only what was taken up again has
\* one without being completed.
CompletionTimesHold ==
    \A a \in Rows :
        assignments[a] # None =>
            /\ assignments[a].status = "completed" => assignments[a].completed
            /\ assignments[a].completed /\ assignments[a].status # "completed" =>
                  a \in revived /\ assignments[a].status \notin {"pending", "declined"}

\* A caller who was told that it failed finds nothing, unless only the
\* announcement failed: a refused creation leaves no row.
RefusedLeavesNothing ==
    \A r \in Requests :
        pc[r] = "done" /\ answer[r] \in {"notFound", "forbidden", "refused"} =>
            /\ Kind(r) = "assign" => assignments[call[r].row] = None
            /\ Kind(r) = "share" => shares[call[r].row] = None

DelegationsHold == OneActiveUnlessCrossedOrRevived /\ OneShareUnlessCrossed /\ CompletionTimesHold
                     /\ RefusedLeavesNothing

=============================================================================

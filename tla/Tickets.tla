------------------------------- MODULE Tickets -------------------------------
(***************************************************************************)
(* Support tickets: tickets.service.ts and the numbering of                *)
(* utils/ticket-number.util.ts.  A new ticket takes the number after that  *)
(* of the latest one, read in an earlier statement than the insert; a      *)
(* status change computes the two times of service-level tracking from the *)
(* row it read.  A request is one call and takes a step for each await;    *)
(* the ticket it creates has its name.  Of createdAt only the order counts *)
(* and of resolvedAt and closedAt whether they are set.                    *)
(***************************************************************************)
EXTENDS Naturals, FiniteSets

CONSTANTS
    Requests,  \* one member per call
    Calls,     \* the calls clients make
    None       \* no ticket, no row

Status == {"new", "open", "pending", "resolved", "closed"}
CreateCall == [kind: {"create"}, status: Status]
UpdateCall == [kind: {"update"}, ticket: Requests, status: Status]
RemoveCall == [kind: {"remove"}, ticket: Requests]
NoCall == [kind |-> "none"]

TicketsAssumption ==
    /\ Calls \subseteq CreateCall \cup UpdateCall \cup RemoveCall
    /\ None \notin [number: Nat \ {0}, created: Nat, status: Status,
                    resolved: BOOLEAN, closed: BOOLEAN]

Row == [number: Nat \ {0}, created: Nat, status: Status, resolved: BOOLEAN, closed: BOOLEAN]

VARIABLES
    tickets,  \* tickets: None, or the row created by each request
    clock,    \* the insertions so far: createdAt of the next row
    pc,
    call,
    number,   \* the number a create has computed
    held,     \* the row an update has read
    answer,
    passed,   \* history: creates during whose way to the insert another row
              \* was inserted, and those that count from the ticket of such a one
    stale,    \* history: updates whose row was written after they read it
    strays    \* history: tickets written by a request in stale, or moved back
              \* to new after they were resolved or closed

vars == <<tickets, clock, pc, call, number, held, answer, passed, stale, strays>>
local == <<number, held>>
history == <<passed, stale, strays>>

Labels == {"idle", "find", "number", "write", "done"}
Answers == {"none", "ok", "notFound", "error"}

TypeOK ==
    /\ tickets \in [Requests -> Row \cup {None}]
    /\ clock \in Nat
    /\ pc \in [Requests -> Labels]
    /\ call \in [Requests -> {NoCall} \cup Calls]
    /\ number \in [Requests -> Nat]
    /\ held \in [Requests -> Row \cup {None}]
    /\ answer \in [Requests -> Answers]
    /\ passed \in SUBSET Requests
    /\ stale \in SUBSET Requests
    /\ strays \in SUBSET Requests

Exists(t) == tickets[t] # None
Tickets == {t \in Requests : Exists(t)}

Init ==
    /\ tickets = [r \in Requests |-> None]
    /\ clock = 0
    /\ pc = [r \in Requests |-> "idle"]
    /\ call = [r \in Requests |-> NoCall]
    /\ number = [r \in Requests |-> 0]
    /\ held = [r \in Requests |-> None]
    /\ answer = [r \in Requests |-> "none"]
    /\ passed = {}
    /\ stale = {}
    /\ strays = {}

-----------------------------------------------------------------------------

Goto(r, label) == pc' = [pc EXCEPT ![r] = label] /\ UNCHANGED answer
Reply(r, what) ==
    /\ pc' = [pc EXCEPT ![r] = "done"]
    /\ answer' = [answer EXCEPT ![r] = what]
Fail(r) == Reply(r, "error") /\ UNCHANGED <<tickets, clock, history>>
Writing(kind) == {r \in Requests : pc[r] = "write" /\ call[r].kind = kind}

Start(r) ==
    /\ pc[r] = "idle"
    /\ \E c \in Calls : call' = [call EXCEPT ![r] = c]
    /\ Goto(r, "find")
    /\ UNCHANGED <<tickets, clock, local, history>>

-----------------------------------------------------------------------------
(***************************************************************************)
(* create                                                                  *)
(***************************************************************************)

\* The contact and the assignee, which live outside this module.
FindContact(r) ==
    /\ pc[r] = "find" /\ call[r].kind = "create"
    /\ Reply(r, "notFound") \/ Goto(r, "number")
    /\ UNCHANGED <<tickets, clock, call, local, history>>

\* Slip: the first ticket in place of the latest.
First == {t \in Tickets : \A o \in Tickets : tickets[t].created <= tickets[o].created}

\* findFirst, orderBy createdAt desc.
Latest == {t \in Tickets : \A o \in Tickets : tickets[o].created <= tickets[t].created}

\* Slip: numbering starts from zero.
FromZero == IF Latest = {} THEN {0} ELSE {tickets[t].number + 1 : t \in Latest}

\* One number: createdAt orders the tickets totally.
NextNumber == IF Latest = {} THEN {1} ELSE {tickets[t].number + 1 : t \in Latest}

ReadLatest(r) ==
    /\ pc[r] = "number"
    /\ \E n \in NextNumber : number' = [number EXCEPT ![r] = n]
    /\ passed' = (IF Latest \cap passed = {} THEN passed ELSE passed \cup {r})
    /\ Goto(r, "write")
    /\ UNCHANGED <<tickets, clock, call, held, stale, strays>>

\* ticketNumber @unique
Taken(n) == \E t \in Tickets : tickets[t].number = n

Insert(r) ==
    /\ pc[r] = "write" /\ call[r].kind = "create"
    /\ IF Taken(number[r])
       THEN Fail(r)
       ELSE /\ tickets' = [tickets EXCEPT ![r] =
                  [number |-> number[r], created |-> clock, status |-> call[r].status,
                   resolved |-> FALSE, closed |-> FALSE]]
            /\ clock' = clock + 1
            /\ passed' = passed \cup (Writing("create") \ {r})
            /\ Reply(r, "ok")
            /\ UNCHANGED <<stale, strays>>
    /\ UNCHANGED <<call, local>>

-----------------------------------------------------------------------------
(***************************************************************************)
(* update, remove                                                          *)
(***************************************************************************)

FindTicket(r) ==
    /\ pc[r] = "find" /\ call[r].kind \in {"update", "remove"}
    /\ LET row == tickets[call[r].ticket]
       IN  \/ row = None /\ Reply(r, "notFound") /\ UNCHANGED held
           \/ /\ row # None
              /\ held' = [held EXCEPT ![r] = row]
              /\ Goto(r, "write")
    /\ UNCHANGED <<tickets, clock, call, number, history>>

Settled == {"resolved", "closed"}

Reopens(old, new) == new \in {"open", "pending"} /\ old \in Settled

\* Slip: closing a ticket does not count as resolving it.
ResolvedOnly(old, new) == new = "resolved" /\ old.status # "resolved"

\* resolvedAt is set: on resolving, and on closing what was never resolved.
SetsResolved(old, new) ==
    \/ new = "resolved" /\ old.status # "resolved"
    \/ new = "closed" /\ old.status # "closed" /\ ~old.resolved

SetsClosed(old, new) == new = "closed" /\ old.status # "closed"

\* The columns are computed from the row that was read and written to the row
\* as it is now; a column that was not computed keeps its value.
Updated(r) ==
    LET old == held[r]
        new == call[r].status
    IN  [tickets[call[r].ticket] EXCEPT
            !.status = new,
            !.resolved = IF Reopens(old.status, new) THEN FALSE
                         ELSE SetsResolved(old, new) \/ @,
            !.closed = IF Reopens(old.status, new) THEN FALSE
                       ELSE SetsClosed(old, new) \/ @]

Update(r) ==
    /\ pc[r] = "write" /\ call[r].kind = "update"
    /\ LET t == call[r].ticket
       IN  IF ~Exists(t)
           THEN Fail(r)
           ELSE /\ tickets' = [tickets EXCEPT ![t] = Updated(r)]
                /\ stale' = stale \cup {q \in Writing("update") \ {r} : call[q].ticket = t}
                /\ strays' = (IF \/ r \in stale
                                 \/ call[r].status = "new" /\ held[r].status \in Settled
                              THEN strays \cup {t} ELSE strays)
                /\ Reply(r, "ok")
                /\ UNCHANGED <<clock, passed>>
    /\ UNCHANGED <<call, local>>

Remove(r) ==
    /\ pc[r] = "write" /\ call[r].kind = "remove"
    /\ LET t == call[r].ticket
       IN  IF ~Exists(t)
           THEN Fail(r)
           ELSE /\ tickets' = [tickets EXCEPT ![t] = None]
                /\ Reply(r, "ok")
                /\ UNCHANGED <<clock, history>>
    /\ UNCHANGED <<call, local>>

\* The user look-up of update may refuse the assignee.
NoAssignee(r) ==
    /\ pc[r] = "write" /\ call[r].kind = "update"
    /\ Reply(r, "notFound")
    /\ UNCHANGED <<tickets, clock, call, local, history>>

Next ==
    \E r \in Requests :
        \/ Start(r)
        \/ FindContact(r) \/ ReadLatest(r) \/ Insert(r)
        \/ FindTicket(r) \/ NoAssignee(r) \/ Update(r) \/ Remove(r)

Spec == Init /\ [][Next]_vars

-----------------------------------------------------------------------------
(***************************************************************************)
(* Properties                                                              *)
(***************************************************************************)

\* "Get the highest ticket number": among the tickets there are, a later one
\* has a higher number, whatever is deleted, unless a create that others had
\* passed inserted it, or it counts from the ticket of such a create.
NumbersFollowCreation ==
    \A s, t \in Tickets :
        tickets[s].created < tickets[t].created =>
            tickets[s].number < tickets[t].number \/ t \in passed

\* A create fails for its number only when another was inserted on its way,
\* or when it counted from a ticket that is out of order for this reason.
NumberTakenOnlyIfPassed ==
    [][\A r \in Requests :
          pc[r] = "write" /\ call[r].kind = "create" /\ answer'[r] = "error" => r \in passed]_vars

\* A ticket with a closing time has a resolution time, in whatever order it
\* was closed, resolved and reopened, unless an update wrote what it had
\* computed from an older row.
ClosedWasResolved ==
    \A t \in Tickets : tickets[t].closed => tickets[t].resolved \/ t \in strays

\* "If moving from resolved/closed back to open/pending, clear timestamps":
\* a ticket being worked on has neither time, unless it went by way of new or
\* an update was outdated.
ReopenedHasNoTimes ==
    \A t \in Tickets :
        tickets[t].status \in {"new", "open", "pending"} =>
            (~tickets[t].resolved /\ ~tickets[t].closed) \/ t \in strays

TicketsHold == NumbersFollowCreation /\ ClosedWasResolved /\ ReopenedHasNoTimes

=============================================================================

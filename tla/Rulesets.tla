------------------------------ MODULE Rulesets ------------------------------
(***************************************************************************)
(* Contact segments with their criteria and workflows with their actions:  *)
(* segments.service.ts and workflows.service.ts.  Both keep a list in rows *)
(* of its own and replace it by deleting the rows and creating new ones,   *)
(* all at once (Promise.all), without a transaction; a segment then counts *)
(* the contacts its criteria select, a workflow is executed from the list  *)
(* one query returns.  Contacts are saved by services that know nothing of *)
(* segments (contacts.service.ts, submissions.service.ts).                 *)
(*                                                                         *)
(* An owner has the name of the request that creates it or one of its own. *)
(* Of a contact one property counts: None, Blank or a number.  A call is   *)
(* under way until all of its inserts are settled; the code answers at the *)
(* first that fails.                                                       *)
(***************************************************************************)
EXTENDS Handlers

CONSTANTS
    Contacts,     \* contacts at first, with the value of their property
    SeedOwners,   \* segments and workflows there are at first: [type, list]
    RulesetCalls  \* the calls clients make

Blank == 0
Operators == {"equals", "not_equals", "contains", "greater_than", "less_than", "is_empty",
              "is_not_empty", "unknown"}
Criterion == [operator: Operators, value: Nat]
Values == Nat \cup {None}
Action == [action: {"email", "delayed", "webhook"}]
\* Segments and workflows are tables of their own.
OfSegments == {"static", "dynamic"}
OfWorkflows == {"active", "inactive"}
Types == OfSegments \cup OfWorkflows
Keep == None        \* undefined: what the call does not set
Owners == Requests \cup DOMAIN SeedOwners
IsSegment(type, list) == type \in OfSegments /\ list \subseteq Criterion
IsWorkflow(type, list) == type \in OfWorkflows /\ list \subseteq Action
\* What an update says of an owner of that type.
Fits(c, type) ==
    \/ type \in OfSegments /\ c.type \in OfSegments \cup {Keep} /\ (c.list = Keep \/ c.list \subseteq Criterion)
    \/ type \in OfWorkflows /\ c.type \in OfWorkflows \cup {Keep} /\ (c.list = Keep \/ c.list \subseteq Action)
RulesetCall(c) ==
    \/ c.kind = "createOwner" /\ (IsSegment(c.type, c.list) \/ IsWorkflow(c.type, c.list))
    \/ c.kind = "updateOwner" /\ c.owner \in Owners /\ \E type \in Types : Fits(c, type)
    \/ c.kind \in {"removeOwner", "execute"} /\ c.owner \in Owners
    \/ c.kind = "saveContact" /\ c.value \in Values

RulesetsAssumption ==
    /\ \A c \in RulesetCalls : RulesetCall(c)
    /\ Contacts \in [DOMAIN Contacts -> Values]
    /\ DOMAIN SeedOwners \cap Requests = {}
    /\ \A o \in DOMAIN SeedOwners :
          \/ IsSegment(SeedOwners[o].type, SeedOwners[o].list)
          \/ IsWorkflow(SeedOwners[o].type, SeedOwners[o].list)
    /\ None \notin Types /\ None \notin [type: Types, count: Nat]
    /\ IsFiniteSet(DOMAIN Contacts)

VARIABLES
    owners,   \* None, or [type, count]: contactCount or executionCount
    lists,    \* the rows of each owner: [by, item], by whom they were created
    valueOf,  \* the contacts there are, with the value of their property
    torn,     \* history: owners two of whose lists were written at a time
    stale,    \* history: owners not counted since their type, their criteria or
              \* the contacts these select changed
    aged,     \* history: calls that had counted when those contacts changed
    runs      \* history: executions of each owner, each with the list it read

tables == <<owners, lists, valueOf>>
history == <<torn, stale, aged, runs>>
vars == <<handlers, tables, history>>

Rows == [by: Owners, item: Criterion \cup Action]

TypeOK ==
    /\ Handling({"owner", "newOwner", "writeOwner", "dropRows", "newRows", "recount", "writeCount",
                 "deleteOwner", "load", "executed", "saveContact"}, RulesetCalls, {"inactive"})
    /\ owners \in [Owners -> [type: Types, count: Nat] \cup {None}]
    /\ lists \in [Owners -> SUBSET Rows]
    /\ valueOf \in [DOMAIN valueOf -> Values] /\ IsFiniteSet(DOMAIN valueOf)
    /\ torn \in SUBSET Owners /\ stale \in SUBSET Owners /\ aged \in SUBSET Requests
    /\ runs \subseteq (Requests \X Owners)

-----------------------------------------------------------------------------
(***************************************************************************)
(* buildContactWhereFromCriteria: the criteria are combined with AND, what *)
(* is null satisfies no comparison, an operator that is not known selects  *)
(* everything.  Deleted contacts are not left out.                         *)
(***************************************************************************)

Satisfies(v, c) ==
    \/ c.operator = "equals" /\ v = c.value
    \/ c.operator = "not_equals" /\ v \notin {None, c.value}
    \/ c.operator = "contains" /\ v # None /\ (c.value = Blank \/ v = c.value)
    \/ c.operator = "greater_than" /\ v # None /\ v > c.value
    \/ c.operator = "less_than" /\ v # None /\ v < c.value
    \/ c.operator = "is_empty" /\ v \in {None, Blank}
    \/ c.operator = "is_not_empty" /\ v \notin {None, Blank}
    \/ c.operator = "unknown"

Selected(criteria, table) ==
    {p \in DOMAIN table : \A c \in criteria : Satisfies(table[p], c)}

Count(criteria, table) == Cardinality(Selected(criteria, table))
Items(o) == {row.item : row \in lists[o]}

Initial(o) ==
    LET seed == SeedOwners[o]
    IN  [type |-> seed.type, count |-> IF seed.type = "dynamic" THEN Count(seed.list, Contacts) ELSE 0]

Init ==
    /\ HandlersInit
    /\ owners = [o \in Owners |-> IF o \in DOMAIN SeedOwners THEN Initial(o) ELSE None]
    /\ lists = [o \in Owners |-> IF o \in DOMAIN SeedOwners
                                 THEN {[by |-> o, item |-> i] : i \in SeedOwners[o].list} ELSE {}]
    /\ valueOf = Contacts
    /\ torn = {} /\ stale = {} /\ aged = {} /\ runs = {}

StartWith(r, kind, label) ==
    /\ \E c \in {c \in RulesetCalls : c.kind = kind} : Begin(r, c, label)
    /\ UNCHANGED <<tables, history>>

Start(r) ==
    \/ StartWith(r, "createOwner", "newOwner") \/ StartWith(r, "updateOwner", "owner")
    \/ StartWith(r, "removeOwner", "owner") \/ StartWith(r, "execute", "load")
    \/ StartWith(r, "saveContact", "saveContact")

Owner(r) == IF Kind(r) = "createOwner" THEN r ELSE call[r].owner
Exists(r) == owners[Owner(r)] # None
Segment(o) == owners[o] # None /\ owners[o].type = "dynamic"

\* A statement refused by the database, or by Prisma: bodies of updates are
\* not validated, and no criterion is known to fit the column it names.  What
\* was written before stays.
Refused(r) ==
    /\ pc[r] \in {"newOwner", "writeOwner", "dropRows", "newRows", "recount", "writeCount",
                   "deleteOwner", "executed", "saveContact"}
    /\ Fails(r)
    /\ UNCHANGED <<tables, history>>

-----------------------------------------------------------------------------
(***************************************************************************)
(* create, update and remove                                               *)
(***************************************************************************)

\* The form of a workflow may not exist.
CreateOwner(r) ==
    /\ pc[r] = "newOwner"
    /\ \/ call[r].type \in OfWorkflows /\ Reply(r, "notFound") /\ UNCHANGED <<owners, stale>>
       \/ /\ owners' = [owners EXCEPT ![r] = [type |-> call[r].type, count |-> 0]]
          /\ stale' = stale \cup {r}
          /\ Goto(r, "newRows")
    /\ UNCHANGED <<lists, valueOf, torn, aged, runs>>

FindOwner(r) ==
    /\ pc[r] = "owner"
    /\ IF ~Exists(r) \/ (Kind(r) = "updateOwner" /\ ~Fits(call[r], owners[Owner(r)].type))
       THEN Reply(r, "notFound")
       ELSE Goto(r, IF Kind(r) = "removeOwner" THEN "deleteOwner" ELSE "writeOwner")
    /\ UNCHANGED <<tables, history>>

\* Requests between the first row and the last statement of a new list.
Replacing(o) == {q \in At("newRows") \cup At("recount") \cup At("writeCount") : Owner(q) = o}

WriteOwner(r) ==
    /\ pc[r] = "writeOwner"
    /\ LET o == Owner(r)
           type == IF call[r].type = Keep THEN owners[o].type ELSE call[r].type
       IN  IF ~Exists(r) THEN Fails(r) /\ UNCHANGED <<owners, stale, torn>>
           ELSE /\ owners' = [owners EXCEPT ![o].type = type]
                /\ stale' = IF type # owners[o].type THEN stale \cup {o} ELSE stale
                /\ torn' = IF type # owners[o].type /\ Replacing(o) # {}
                           THEN torn \cup {o} ELSE torn
                /\ IF call[r].list = Keep THEN Reply(r, "ok") ELSE Goto(r, "dropRows")
    /\ UNCHANGED <<lists, valueOf, aged, runs>>

\* Slip: the rows there are stay.
KeepRows(o) == lists[o]

DropAll(o) == {}

\* deleteMany; no row is not an error.
DropRows(r) ==
    /\ pc[r] = "dropRows"
    /\ lists' = [lists EXCEPT ![Owner(r)] = DropAll(Owner(r))]
    /\ torn' = IF Replacing(Owner(r)) # {} THEN torn \cup {Owner(r)} ELSE torn
    /\ stale' = stale \cup {Owner(r)}
    /\ Goto(r, "newRows")
    /\ UNCHANGED <<owners, valueOf, aged, runs>>

Pending(r) == call[r].list \ {row.item : row \in {row \in lists[Owner(r)] : row.by = r}}

\* The inserts of Promise.all reach the database one after the other, in any
\* order; of those before one that fails the rows stay.
CreateRow(r) ==
    /\ pc[r] = "newRows" /\ Pending(r) # {}
    /\ IF ~Exists(r) THEN Fails(r) /\ UNCHANGED lists
       ELSE /\ \E i \in Pending(r) :
                  lists' = [lists EXCEPT ![Owner(r)] = @ \cup {[by |-> r, item |-> i]}]
            /\ UNCHANGED handlers
    /\ UNCHANGED <<owners, valueOf, history>>

CountsNow(r) == call[r].type = "dynamic"

RowsDone(r) ==
    /\ pc[r] = "newRows" /\ Pending(r) = {}
    /\ IF CountsNow(r) THEN Goto(r, "recount") ELSE Reply(r, "ok")
    /\ UNCHANGED <<tables, history>>

\* calculateContactCount
Recount(r) ==
    /\ pc[r] = "recount"
    /\ Continue(r, "writeCount",
           IF ~Exists(r) \/ owners[Owner(r)].type = "static" THEN 0
           ELSE Count(Items(Owner(r)), valueOf))
    /\ UNCHANGED <<tables, history>>

WriteCount(r) ==
    /\ pc[r] = "writeCount"
    /\ IF ~Exists(r) THEN Fails(r) /\ UNCHANGED <<owners, stale>>
       ELSE /\ owners' = [owners EXCEPT ![Owner(r)].count = held[r]]
            /\ stale' = IF r \in aged THEN stale ELSE stale \ {Owner(r)}
            /\ Reply(r, "ok")
    /\ UNCHANGED <<lists, valueOf, torn, aged, runs>>

\* onDelete: Cascade
DeleteOwner(r) ==
    /\ pc[r] = "deleteOwner"
    /\ IF ~Exists(r) THEN Fails(r) /\ UNCHANGED tables
       ELSE /\ owners' = [owners EXCEPT ![Owner(r)] = None]
            /\ lists' = [lists EXCEPT ![Owner(r)] = {}]
            /\ UNCHANGED valueOf
            /\ Reply(r, "ok")
    /\ UNCHANGED history

-----------------------------------------------------------------------------
(***************************************************************************)
(* workflows.service.ts: execute.  The actions themselves are placeholders *)
(* that write nothing, one with a delay is skipped.                        *)
(***************************************************************************)

Load(r) ==
    /\ pc[r] = "load"
    /\ IF ~Exists(r) \/ owners[Owner(r)].type \in OfSegments THEN Reply(r, "notFound")
       ELSE IF owners[Owner(r)].type = "inactive" THEN Reply(r, "inactive")
       ELSE Continue(r, "executed", Items(Owner(r)))
    /\ UNCHANGED <<tables, history>>

CountUp(o) == owners[o].count + 1

CountExecution(r) ==
    /\ pc[r] = "executed"
    /\ IF ~Exists(r) THEN Fails(r) /\ UNCHANGED <<owners, runs>>
       ELSE /\ owners' = [owners EXCEPT ![Owner(r)].count = CountUp(Owner(r))]
            /\ runs' = runs \cup {<<r, Owner(r)>>}
            /\ Reply(r, "ok")
    /\ UNCHANGED <<lists, valueOf, torn, stale, aged>>

-----------------------------------------------------------------------------
(***************************************************************************)
(* A contact, created or updated (contacts.service.ts), found or created   *)
(* by a submission (submissions.service.ts); no segment is counted again.  *)
(***************************************************************************)

\* Segments that select other contacts of this table.
Shifted(table) ==
    {o \in Owners : Segment(o) /\ Selected(Items(o), table) # Selected(Items(o), valueOf)}

SaveContact(r) ==
    /\ pc[r] = "saveContact"
    /\ valueOf' = [p \in DOMAIN valueOf \cup {call[r].contact} |->
          IF p = call[r].contact THEN call[r].value ELSE valueOf[p]]
    /\ stale' = stale \cup Shifted(valueOf')
    /\ aged' = aged \cup {q \in At("writeCount") : Owner(q) \in Shifted(valueOf')}
    /\ Reply(r, "ok")
    /\ UNCHANGED <<owners, lists, torn, runs>>

Next ==
    \E r \in Requests :
        \/ Start(r) \/ Refused(r)
        \/ CreateOwner(r) \/ FindOwner(r) \/ WriteOwner(r) \/ DropRows(r) \/ CreateRow(r)
        \/ RowsDone(r) \/ Recount(r) \/ WriteCount(r) \/ DeleteOwner(r)
        \/ Load(r) \/ CountExecution(r) \/ SaveContact(r)

Spec == Init /\ [][Next]_vars

-----------------------------------------------------------------------------
(***************************************************************************)
(* Properties                                                              *)
(***************************************************************************)

Quiet(o) == Replacing(o) = {}

\* When no call is replacing it, the rows of a list are of one call, and all of
\* them unless that call was answered with an error: rows of two calls, and
\* rows twice, are the trace of two that crossed.
ListsAreOneCalls ==
    \A o \in Owners : (owners[o] # None /\ Quiet(o) /\ o \notin torn) =>
        /\ Cardinality({row.by : row \in lists[o]}) <= 1
        /\ \A row \in lists[o] :
              row.by \in Requests =>
                  /\ Items(o) \subseteq call[row.by].list
                  /\ answer[row.by] # "error" => Items(o) = call[row.by].list

\* contactCount is the number of contacts the criteria select, unless they or
\* the type were replaced by a call that did not count or did not come to it,
\* or by two that crossed, or the contacts changed since.  (Of a dynamic segment
\* an update counts, as its comment says, but only if it names the type again.)
\* executionCount is that of the executions, in any order.
CountsHold ==
    \A o \in Owners : owners[o] # None =>
        /\ (Segment(o) /\ Quiet(o) /\ o \notin torn \cup stale) =>
              owners[o].count = Count(Items(o), valueOf)
        /\ owners[o].type \in OfWorkflows =>
              owners[o].count = Cardinality({x \in runs : x[2] = o})

=============================================================================

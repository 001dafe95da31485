------------------------------ MODULE Checklists ------------------------------
(***************************************************************************)
(* The checklist of a task (tasks.service.ts).  An item that is added      *)
(* without a position gets the highest there is and one more, read in a    *)
(* statement of its own.  A reorder finds the items it names and then      *)
(* writes their positions with one statement each, all under way at once,  *)
(* without a transaction.                                                  *)
(***************************************************************************)
EXTENDS Handlers, Sequences

CONSTANTS
    Tasks, Items,
    SeedItems,         \* the items there are at first, with task and position
    ChecklistCalls     \* the calls clients make

Position == Nat
Item == [task: Tasks, index: Position]
AddCall == [kind: {"add"}, task: Tasks, item: Items, index: Position \cup {None}]
ItemCall == [kind: {"update", "delete"}, task: Tasks, item: Items]
ReorderCall == [kind: {"reorder"}, task: Tasks, items: Seq(Items) \ {<<>>}]
RemoveTaskCall == [kind: {"removeTask"}, task: Tasks]

ChecklistsAssumption ==
    /\ ChecklistCalls \subseteq AddCall \cup ItemCall \cup ReorderCall \cup RemoveTaskCall
    /\ DOMAIN SeedItems \subseteq Items /\ IsFiniteSet(DOMAIN SeedItems)
    /\ \A i \in DOMAIN SeedItems : SeedItems[i] \in Item
    /\ \A i, j \in DOMAIN SeedItems : SeedItems[i] = SeedItems[j] => i = j
    /\ None \notin Item

VARIABLES
    tasks,
    items,   \* None, or [task, index]
    aged,    \* history: calls under way since whose look at the items one was placed
    forced   \* history: items whose position is the client's or of a call in "aged"

tables == <<tasks, items>>
history == <<aged, forced>>
vars == <<handlers, tables, history>>

TypeOK ==
    /\ Handling({"task", "highest", "insertItem", "item", "writeItem", "deleteItem",
                 "itemsOf", "placing", "removeTask"}, ChecklistCalls, {})
    /\ tasks \subseteq Tasks
    /\ items \in [Items -> Item \cup {None}]
    /\ aged \subseteq Requests /\ forced \subseteq Items

Init ==
    /\ HandlersInit
    /\ tasks = Tasks
    /\ items = [i \in Items |-> IF i \in DOMAIN SeedItems THEN SeedItems[i] ELSE None]
    /\ aged = {} /\ forced = {}

ItemsOf(t) == {i \in Items : items[i] # None /\ items[i].task = t}
FreshId(c) == c.kind = "add" => /\ c.item \notin DOMAIN SeedItems
                                /\ \A q \in Requests : Kind(q) = "add" => call[q].item # c.item

Start(r) ==
    /\ \E c \in ChecklistCalls :
          FreshId(c) /\ Begin(r, c, IF c.kind = "removeTask" THEN "removeTask" ELSE "task")
    /\ UNCHANGED <<tables, history>>

\* findOne: the task may not be there, or not open to the caller.
FindTask(r) ==
    /\ pc[r] = "task"
    /\ IF call[r].task \notin tasks THEN Reply(r, "notFound")
       ELSE \/ Reply(r, "forbidden")
            \/ Goto(r, CASE Kind(r) = "add" -> IF call[r].index = None THEN "highest" ELSE "insertItem"
                         [] Kind(r) \in {"update", "delete"} -> "item"
                         [] Kind(r) = "reorder" -> "itemsOf")
    /\ UNCHANGED <<tables, history>>

\* Slip: the number of items stands for the highest position.
CountOf(t) == Cardinality(ItemsOf(t))

NextIndex(t) ==
    IF ItemsOf(t) = {} THEN 0
    ELSE 1 + CHOOSE n \in {items[i].index : i \in ItemsOf(t)} : \A i \in ItemsOf(t) : items[i].index <= n

FindHighest(r) ==
    /\ pc[r] = "highest"
    /\ Continue(r, "insertItem", NextIndex(call[r].task))
    /\ UNCHANGED <<tables, history>>

\* Calls that decided on positions and have not written them all.
Deciding(t) == {q \in At("insertItem") \cup At("placing") : call[q].task = t}

InsertItem(r) ==
    /\ pc[r] = "insertItem"
    /\ LET c == call[r]
           index == IF c.index = None THEN held[r] ELSE c.index
       IN  IF c.task \notin tasks THEN Fails(r) /\ UNCHANGED <<items, history>>
           ELSE /\ items' = [items EXCEPT ![c.item] = [task |-> c.task, index |-> index]]
                /\ aged' = aged \cup (Deciding(c.task) \ {r})
                /\ forced' = IF c.index # None \/ r \in aged THEN forced \cup {c.item} ELSE forced
                /\ Reply(r, "ok")
    /\ UNCHANGED tasks

FindItem(r) ==
    /\ pc[r] = "item"
    /\ IF call[r].item \notin ItemsOf(call[r].task) THEN Reply(r, "notFound")
       ELSE Goto(r, IF Kind(r) = "update" THEN "writeItem" ELSE "deleteItem")
    /\ UNCHANGED <<tables, history>>

\* The text and the completion decide nothing.
WriteItem(r) ==
    /\ pc[r] = "writeItem"
    /\ IF items[call[r].item] = None THEN Fails(r) ELSE Reply(r, "ok")
    /\ UNCHANGED <<tables, history>>

DeleteItem(r) ==
    /\ pc[r] = "deleteItem"
    /\ IF items[call[r].item] = None THEN Fails(r) /\ UNCHANGED items
       ELSE Reply(r, "ok") /\ items' = [items EXCEPT ![call[r].item] = None]
    /\ UNCHANGED <<tasks, history>>

Named(r) == {call[r].items[n] : n \in DOMAIN call[r].items}

\* One row for each item named: a list that names one twice falls short.
FindItems(r) ==
    /\ pc[r] = "itemsOf"
    /\ LET found == Named(r) \cap ItemsOf(call[r].task)
       IN  IF Cardinality(found) # Len(call[r].items) THEN Reply(r, "forbidden")
           ELSE Continue(r, "placing", [left |-> DOMAIN call[r].items, failed |-> FALSE,
                                        all |-> found = ItemsOf(call[r].task)])
    /\ UNCHANGED <<tables, history>>

IndexOf(n) == n - 1

\* One of the statements of Promise.all.  One that finds no row is the answer;
\* the others are under way and go on.
Place(r) ==
    /\ pc[r] = "placing"
    /\ \E n \in held[r].left :
          LET i == call[r].items[n]
              left == held[r].left \ {n}
              failed == held[r].failed \/ items[i] = None
          IN  /\ items' = IF items[i] = None THEN items ELSE [items EXCEPT ![i].index = IndexOf(n)]
              /\ aged' = aged \cup (Deciding(call[r].task) \ {r})
              /\ forced' = IF r \in aged \/ ~held[r].all THEN forced \cup {i} ELSE forced \ {i}
              /\ held' = [held EXCEPT ![r] = [@ EXCEPT !.left = left, !.failed = failed]]
              /\ pc' = IF left = {} THEN [pc EXCEPT ![r] = "done"] ELSE pc
              /\ answer' = IF left # {} THEN answer
                           ELSE [answer EXCEPT ![r] = IF failed THEN "error" ELSE "ok"]
    /\ UNCHANGED <<call, tasks>>

\* onDelete: Cascade
RemoveTask(r) ==
    /\ pc[r] = "removeTask"
    /\ IF call[r].task \notin tasks THEN Reply(r, "notFound") /\ UNCHANGED tables
       ELSE /\ tasks' = tasks \ {call[r].task}
            /\ items' = [i \in Items |-> IF i \in ItemsOf(call[r].task) THEN None ELSE items[i]]
            /\ Reply(r, "ok")
    /\ UNCHANGED history

Next ==
    \E r \in Requests :
        \/ Start(r) \/ FindTask(r) \/ FindHighest(r) \/ InsertItem(r)
        \/ FindItem(r) \/ WriteItem(r) \/ DeleteItem(r) \/ FindItems(r) \/ Place(r) \/ RemoveTask(r)

Spec == Init /\ [][Next]_vars

-----------------------------------------------------------------------------
(***************************************************************************)
(* Properties                                                              *)
(***************************************************************************)

\* The list of a task has one order: while no reorder is under way, two items
\* share a position only if one of them was placed by a client's position, by
\* a reorder of only some of the items, or by a call under which another one
\* placed an item.  A later reorder of all of them sets the list right.
PositionsDistinctUnlessForced ==
    \A i, j \in Items :
        /\ i # j /\ items[i] # None /\ items[j] # None
        /\ items[i].task = items[j].task /\ items[i].index = items[j].index
        /\ \A q \in At("placing") : call[q].task # items[i].task
        => {i, j} \cap forced # {}

\* A reorder that was answered "ok" and that no other placement touched has
\* put the items in the order it was given.
ReorderedAsAsked ==
    [][\A r \in Requests :
          pc[r] = "placing" /\ answer'[r] = "ok" /\ r \notin aged =>
              \A n \in DOMAIN call[r].items :
                  items'[call[r].items[n]] # None => items'[call[r].items[n]].index = n - 1]_vars

=============================================================================

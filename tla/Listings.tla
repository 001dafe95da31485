------------------------------- MODULE Listings -------------------------------
(***************************************************************************)
(* The lists of the services, page by page: pagination.util.ts and every   *)
(* findAll that answers with it.  A page is two statements that are under  *)
(* way together, the rows (skip, take) and their number; lists that belong *)
(* to something read first whether, or where, the caller may look.         *)
(*                                                                         *)
(* A reader here is a client that asks for page after page, each a call of *)
(* its own, until there is no next one; the other requests write.  What a  *)
(* filter leaves out is not in the table.                                  *)
(***************************************************************************)
EXTENDS Handlers, Sequences, SequencesExt

CONSTANTS
    Readers,         \* the requests that read
    Ids, Parents,
    SeedRows,        \* the rows there are at first: [id, parent, key], the oldest first
    DefaultLimit, MaxLimit,
    ListingCalls     \* the calls clients make

\* What tells the lists apart: what they read first, whether the client may
\* sort by a column that several rows share, the order by age otherwise, and
\* whether the limit is clamped.
Listing(scope, sortable, order, clamped) ==
    [scope |-> scope, sortable |-> sortable, order |-> order, clamped |-> clamped]

FindAllTasks == Listing("parent", TRUE, "desc", TRUE)
FindAllTasksOfAll == Listing("owned", TRUE, "desc", TRUE)
FindAllProjects == Listing("parent", TRUE, "desc", TRUE)
FindAllProjectsOfAll == Listing("owned", TRUE, "desc", TRUE)
GetTaskAttachments == Listing("parent", FALSE, "desc", TRUE)
GetTaskAssignments == Listing("parent", FALSE, "desc", TRUE)
GetTaskDependencies == Listing("parent", FALSE, "desc", FALSE)
GetChecklistItems == Listing("parent", FALSE, "asc", FALSE)
GetTaskTimeLogs == Listing("parent", TRUE, "desc", TRUE)
GetComments == Listing("none", TRUE, "asc", TRUE)
FindAllWorkspaces == Listing("none", TRUE, "desc", TRUE)
FindAllAssignments == Listing("none", FALSE, "desc", TRUE)
FindAllShares == Listing("none", FALSE, "desc", TRUE)
FindAllTags == Listing("none", FALSE, "desc", TRUE)
GetUserNotifications == Listing("none", TRUE, "desc", TRUE)
ListFiles == Listing("none", FALSE, "desc", FALSE)
FindAllCompanies == Listing("none", TRUE, "desc", TRUE)
FindAllContacts == Listing("none", TRUE, "desc", TRUE)
FindAllActivities == Listing("none", TRUE, "desc", TRUE)
FindAllDeals == Listing("none", TRUE, "desc", TRUE)
FindAllTickets == Listing("none", TRUE, "desc", TRUE)
FindAllProducts == Listing("none", FALSE, "desc", TRUE)
FindAllCampaigns == Listing("none", FALSE, "desc", TRUE)
FindAllForms == Listing("none", FALSE, "desc", TRUE)
FindAllSubmissions == Listing("none", FALSE, "desc", TRUE)
\* The shares a user received: his teams are read first, and the rows before
\* their number.
GetSharedContent == Listing("received", FALSE, "descApart", TRUE)
\* The contacts of a segment: in no order at all.
GetSegmentContacts == Listing("none", FALSE, "any", FALSE)

Listings ==
    {FindAllTasks, FindAllTasksOfAll, FindAllProjects, FindAllProjectsOfAll, GetTaskAttachments,
     GetTaskAssignments, GetTaskDependencies, GetChecklistItems, GetTaskTimeLogs, GetComments,
     FindAllWorkspaces, FindAllAssignments, FindAllShares, FindAllTags, GetUserNotifications,
     ListFiles, FindAllCompanies, FindAllContacts, FindAllActivities, FindAllDeals, FindAllTickets,
     FindAllProducts, FindAllCampaigns, FindAllForms, FindAllSubmissions, GetSharedContent,
     GetSegmentContacts}

Row == [parent: Parents, key: Nat, at: Nat]
WalkCall == [kind: {"walk"}, list: Listings, parent: Parents, limit: Nat,
             sort: {"age", "key"}, order: {"asc", "desc", "any", "descApart"}]
RowCall == [kind: {"insert"}, id: Ids, parent: Parents, key: Nat]
             \cup [kind: {"rekey"}, id: Ids, key: Nat] \cup [kind: {"remove"}, id: Ids]
ParentCall == [kind: {"leave", "drop"}, parent: Parents]

\* A client sorts as the list lets him.
ValidWalk(c) ==
    IF c.list.sortable THEN c.order \in {"asc", "desc"}
    ELSE c.order = c.list.order /\ c.sort = "age"

ListingsAssumption ==
    /\ \A c \in ListingCalls :
          \/ c.kind = "walk" /\ c \in WalkCall /\ ValidWalk(c)
          \/ c.kind \in {"insert", "rekey", "remove"} /\ c \in RowCall
          \/ c.kind \in {"leave", "drop"} /\ c \in ParentCall
    /\ SeedRows \in Seq([id: Ids, parent: Parents, key: Nat])
    /\ Readers \subseteq Requests
    /\ None \notin Row \cup Nat \cup Seq(Ids)
    /\ DefaultLimit \in 1 .. MaxLimit /\ MaxLimit \in Nat

VARIABLES
    rows,       \* None, or a Row
    parents,    \* the parents there are, and whether the client may open them
    shifted,    \* history: per client, what was written while he was reading
    late        \* history: clients that lost a parent between check and rows

tables == <<rows, parents>>
vars == <<handlers, tables, shifted, late>>

TypeOK ==
    /\ Handling({"scope", "read", "rest", "write"}, ListingCalls, {"endless"})
    /\ rows \in [Ids -> Row \cup {None}]
    /\ parents \in [Parents -> {"open", "closed", "gone"}]
    /\ shifted \in [Requests -> SUBSET {"insert", "split", "rekey", "remove", "leave", "drop"}]
    /\ late \subseteq Requests

Init ==
    /\ HandlersInit
    /\ rows = [i \in Ids |->
          IF \E n \in DOMAIN SeedRows : SeedRows[n].id = i
          THEN LET n == CHOOSE n \in DOMAIN SeedRows : SeedRows[n].id = i
               IN  [parent |-> SeedRows[n].parent, key |-> SeedRows[n].key, at |-> n]
          ELSE None]
    /\ parents = [p \in Parents |-> "open"]
    /\ shifted = [r \in Requests |-> {}] /\ late = {}

Present == {i \in Ids : rows[i] # None}
FreshId(c) == c.kind = "insert" => /\ \A n \in DOMAIN SeedRows : SeedRows[n].id # c.id
                                   /\ \A q \in Requests : call[q].kind = "insert" => call[q].id # c.id

-----------------------------------------------------------------------------
(***************************************************************************)
(* Reading page after page                                                 *)
(***************************************************************************)

First(list) == IF list.scope = "none" THEN "read" ELSE "scope"

StartWalk(r) ==
    /\ pc[r] = "idle" /\ r \in Readers
    /\ \E c \in {c \in ListingCalls : c.kind = "walk"} :
          /\ call' = [call EXCEPT ![r] = c]
          /\ pc' = [pc EXCEPT ![r] = First(c.list)]
    /\ held' = [held EXCEPT ![r] = [page |-> 1, seen |-> <<>>, within |-> {}, data |-> None, total |-> None,
                                    present |-> Present]]
    /\ UNCHANGED <<answer, tables, shifted, late>>

\* The project, task or workspace asked for, or those the caller may open: with
\* none of these the lists of what he owns are answered at once.
ReadScope(r) ==
    /\ pc[r] = "scope"
    /\ LET p == call[r].parent
           open == {q \in Parents : parents[q] = "open"}
       IN  IF call[r].list.scope = "parent"
           THEN IF parents[p] = "gone" THEN Reply(r, "notFound")
                ELSE IF parents[p] = "closed" THEN Reply(r, "forbidden")
                ELSE Continue(r, "read", [held[r] EXCEPT !.within = {p}])
           ELSE IF open = {} /\ call[r].list.scope = "owned" THEN Reply(r, "ok")
           ELSE Continue(r, "read", [held[r] EXCEPT !.within = open])
    /\ UNCHANGED <<tables, shifted, late>>

Matching(r) ==
    {i \in Present : call[r].list.scope = "none" \/ rows[i].parent \in held[r].within}

\* normalizePaginationParams: no limit, and none at all, is the default.
Limit(r) ==
    LET asked == call[r].limit
    IN  IF ~call[r].list.clamped THEN asked
        ELSE IF asked = 0 THEN DefaultLimit
        ELSE IF asked > MaxLimit THEN MaxLimit
        ELSE asked

Follows(c, i, j) ==
    LET value(x) == IF c.sort = "key" THEN rows[x].key ELSE rows[x].at
    IN  CASE c.order = "any" -> TRUE
          [] c.order = "asc" -> value(i) <= value(j)
          [] c.order \in {"desc", "descApart"} -> value(i) >= value(j)

\* Equal rows come in any order, in every statement anew.
Orderings(r, S) ==
    {s \in SetToSeqs(S) : \A m, n \in DOMAIN s : m < n => Follows(call[r], s[m], s[n])}

\* Slip: skip is counted in pages.
SkipPages(page, limit) == page - 1

Skip(page, limit) == (page - 1) * limit

Page(s, r) == SubSeq(s, Skip(held[r].page, Limit(r)) + 1,
                     IF Skip(held[r].page, Limit(r)) + Limit(r) > Len(s) THEN Len(s)
                     ELSE Skip(held[r].page, Limit(r)) + Limit(r))

\* findMany and count; whichever comes second has both results.
ReadRows(r) ==
    /\ pc[r] = "read" \/ (pc[r] = "rest" /\ held[r].data = None)
    /\ \E s \in Orderings(r, Matching(r)) :
          Continue(r, "rest", [held[r] EXCEPT !.data = Page(s, r)])
    /\ UNCHANGED <<tables, shifted, late>>

CountRows(r) ==
    /\ \/ pc[r] = "read" /\ call[r].order # "descApart"
       \/ pc[r] = "rest" /\ held[r].total = None
    /\ Continue(r, "rest", [held[r] EXCEPT !.total = Cardinality(Matching(r))])
    /\ UNCHANGED <<tables, shifted, late>>

\* buildPaginationResponse: page < ceil(total / limit); a limit of zero makes
\* the number of pages infinite, so the client is never done: he gives up.
HasNext(r) ==
    LET total == held[r].total
    IN  IF Limit(r) = 0 THEN total > 0
        ELSE held[r].page < (total + Limit(r) - 1) \div Limit(r)

NextPage(r) ==
    /\ pc[r] = "rest" /\ held[r].data # None /\ held[r].total # None
    /\ LET seen == held[r].seen \o held[r].data
       IN  IF ~HasNext(r) THEN
               /\ pc' = [pc EXCEPT ![r] = "done"] /\ answer' = [answer EXCEPT ![r] = "ok"]
               /\ held' = [held EXCEPT ![r].seen = seen] /\ UNCHANGED call
           ELSE IF Limit(r) = 0 THEN Reply(r, "endless")
           ELSE Continue(r, First(call[r].list),
                         [held[r] EXCEPT !.seen = seen, !.page = @ + 1, !.data = None, !.total = None])
    /\ late' = late \ {r}
    /\ UNCHANGED <<tables, shifted>>

-----------------------------------------------------------------------------
(***************************************************************************)
(* What others write meanwhile                                             *)
(***************************************************************************)

Reading == At("scope") \cup At("read") \cup At("rest")
\* Clients for whom a row comes between the number and the rows of one page.
Split == {q \in At("rest") : held[q].data = None}

Note(what) ==
    shifted' = [q \in Requests |->
        shifted[q] \cup (IF q \in Reading THEN {what} ELSE {})
                   \cup (IF what = "insert" /\ q \in Split THEN {"split"} ELSE {})]

\* A row that is created is the youngest.
Youngest == CHOOSE n \in {0} \cup {rows[i].at : i \in Present} : \A i \in Present : rows[i].at <= n

StartWrite(r) ==
    /\ r \notin Readers
    /\ \E c \in {c \in ListingCalls : c.kind # "walk"} : FreshId(c) /\ Begin(r, c, "write")
    /\ UNCHANGED <<tables, shifted, late>>

Write(r) ==
    /\ pc[r] = "write"
    /\ LET c == call[r]
       IN  \/ /\ c.kind = "insert" /\ parents[c.parent] # "gone"
              /\ rows' = [rows EXCEPT ![c.id] =
                     [parent |-> c.parent, key |-> c.key, at |-> Youngest + 1]]
              /\ UNCHANGED <<parents, late>>
           \/ /\ c.kind = "rekey" /\ c.id \in Present
              /\ rows' = [rows EXCEPT ![c.id].key = c.key] /\ UNCHANGED <<parents, late>>
           \/ /\ c.kind = "remove" /\ c.id \in Present
              /\ rows' = [rows EXCEPT ![c.id] = None] /\ UNCHANGED <<parents, late>>
           \/ /\ c.kind = "leave" /\ parents[c.parent] = "open"
              /\ parents' = [parents EXCEPT ![c.parent] = "closed"] /\ UNCHANGED rows
              /\ late' = late \cup {q \in At("read") \cup At("rest") : c.parent \in held[q].within}
           \/ /\ c.kind = "drop" /\ parents[c.parent] # "gone"
              /\ parents' = [parents EXCEPT ![c.parent] = "gone"]
              /\ rows' = [i \in Ids |-> IF i \in Present /\ rows[i].parent = c.parent THEN None ELSE rows[i]]
              /\ UNCHANGED late
    /\ Note(Kind(r))
    /\ Reply(r, "ok")

Next ==
    \E r \in Requests :
        \/ StartWalk(r) \/ ReadScope(r) \/ ReadRows(r) \/ CountRows(r) \/ NextPage(r)
        \/ StartWrite(r) \/ Write(r)

Spec == Init /\ [][Next]_vars

-----------------------------------------------------------------------------
(***************************************************************************)
(* Properties                                                              *)
(***************************************************************************)

Walks == {r \in Requests : Kind(r) = "walk" /\ pc[r] = "done" /\ answer[r] = "ok"}
Loose(r) == call[r].sort = "key" \/ call[r].order = "any"
Times(i, s) == Cardinality({n \in DOMAIN s : s[n] = i})

\* A client who has read to the last page has seen every row that was there
\* when he began and still is, unless rows before it were removed or moved,
\* his order leaves equal rows open, or a row came in front between the number
\* and the rows of one page.
MissedOnlyIfShifted ==
    \A r \in Walks :
        (/\ ~Loose(r) /\ shifted[r] \cap {"remove", "drop", "leave"} = {}
         /\ call[r].order = "asc" \/ "split" \notin shifted[r]) =>
            \A i \in held[r].present \cap Matching(r) : Times(i, held[r].seen) > 0

\* He has seen none twice, unless a row was inserted in front or moved, or his
\* order leaves equal rows open.
RepeatedOnlyIfShifted ==
    \A r \in Walks :
        ~Loose(r) /\ (call[r].order = "asc" \/ "insert" \notin shifted[r]) =>
            \A i \in Ids : Times(i, held[r].seen) <= 1

\* Rows of what the caller may not open any more are in a page only when that
\* changed after the page had checked.
ShownWithAccess ==
    \A r \in At("rest") :
        held[r].data # None /\ call[r].list.scope # "none" =>
            r \in late \/ \A p \in held[r].within : parents[p] # "closed"

ListingsHold == MissedOnlyIfShifted /\ RepeatedOnlyIfShifted /\ ShownWithAccess

=============================================================================

-------------------------------- MODULE Tags --------------------------------
(***************************************************************************)
(* Tags, the taggings that attach them to tasks, projects and tickets, and *)
(* the usage count each tag keeps of its taggings, as tags.service.ts      *)
(* maintains them: create, update, remove, addTagging and removeTagging.   *)
(* A tagging and the count are written by two statements and no            *)
(* transaction holds them together.  A request is one call and takes one   *)
(* step for each await; it may be aborted at any of them (a statement that *)
(* fails, a connection that drops, a server that stops).                   *)
(*                                                                         *)
(* A tagging names its entity by type and id, without a foreign key: the   *)
(* entity may be deleted and leave its taggings behind.                    *)
(***************************************************************************)
EXTENDS Integers, FiniteSets

CONSTANTS
    TagIds,
    Names,      \* values of tagName
    Entities,   \* what can be tagged
    Users,
    Requests,   \* one member per call
    Calls,      \* the calls clients make
    SeedTag,    \* a tag that is there at the start
    MaxAborts,  \* bound on the requests that do not run to their end
    None        \* no row

Visibility == {"public", "private"}
CreateCall == [kind: {"create"}, tag: TagIds, user: Users, name: Names, visibility: Visibility]
UpdateCall == [kind: {"update"}, tag: TagIds, user: Users, name: Names, visibility: Visibility]
RemoveCall == [kind: {"remove"}, tag: TagIds, user: Users]
TaggingCall == [kind: {"add", "untag"}, tag: TagIds, user: Users, entity: Entities]
DropCall == [kind: {"dropEntity"}, entity: Entities]
NoCall == [kind |-> "none"]

TagRow == [creator: Users, name: Names, visibility: Visibility, usage: Int]
Tagging == [tag: TagIds, entity: Entities]

TagsAssumption ==
    /\ Calls \subseteq CreateCall \cup UpdateCall \cup RemoveCall \cup TaggingCall \cup DropCall
    /\ SeedTag \in TagIds
    /\ MaxAborts \in Nat
    /\ None \notin TagRow

VARIABLES
    tags,      \* tags: None, or the row with each id
    taggings,  \* taggings: the set of rows
    entities,  \* the entities that exist
    pc,
    call,
    answer,
    halfway,   \* history: aborted after a tagging was written, before the count was
    shaken     \* history: removals whose count was read while an increment of
               \* the tag was outstanding, or followed by a new tagging of it

vars == <<tags, taggings, entities, pc, call, answer, halfway, shaken>>
tables == <<tags, taggings, entities>>
history == <<halfway, shaken>>

Labels == {"idle", "findName", "createTag", "findTag", "findNewName", "updateTag",
           "deleteTag", "findEntity", "findTagging", "createTagging", "increment",
           "deleteTagging", "decrement", "dropEntity", "done"}
Answers == {"none", "ok", "notFound", "forbidden", "duplicate", "inUse", "error", "aborted"}

TypeOK ==
    /\ tags \in [TagIds -> TagRow \cup {None}]
    /\ taggings \in SUBSET Tagging
    /\ entities \in SUBSET Entities
    /\ pc \in [Requests -> Labels]
    /\ call \in [Requests -> {NoCall} \cup Calls]
    /\ answer \in [Requests -> Answers]
    /\ halfway \in SUBSET Requests
    /\ shaken \in SUBSET Requests

Exists(t) == tags[t] # None
TaggingsOf(t) == {row \in taggings : row.tag = t}
HasName(t, n) == Exists(t) /\ tags[t].name = n
At(t, label) == {r \in Requests : pc[r] = label /\ call[r].tag = t}

\* Slip: the columns are filled in the wrong order.
NewTagSwapped(c) == [creator |-> c.name, name |-> c.user, visibility |-> c.visibility, usage |-> 0]

\* A tag that its creator has just made.
NewTag(c) == [creator |-> c.user, name |-> c.name, visibility |-> c.visibility, usage |-> 0]

Init ==
    /\ \E u \in Users, n \in Names, v \in Visibility :
          tags = [t \in TagIds |-> IF t = SeedTag
                                   THEN [creator |-> u, name |-> n, visibility |-> v, usage |-> 0]
                                   ELSE None]
    /\ taggings = {}
    /\ entities = Entities
    /\ pc = [r \in Requests |-> "idle"]
    /\ call = [r \in Requests |-> NoCall]
    /\ answer = [r \in Requests |-> "none"]
    /\ halfway = {}
    /\ shaken = {}

-----------------------------------------------------------------------------

Goto(r, label) == pc' = [pc EXCEPT ![r] = label] /\ UNCHANGED answer
Reply(r, what) ==
    /\ pc' = [pc EXCEPT ![r] = "done"]
    /\ answer' = [answer EXCEPT ![r] = what]

FirstStep == [create |-> "findName", update |-> "findTag", remove |-> "findTag",
              add |-> "findTag", untag |-> "findEntity", dropEntity |-> "dropEntity"]

\* The id of a new tag was never used (withUlid).
FreshId(c) == c.kind = "create" =>
                  /\ c.tag # SeedTag
                  /\ \A q \in Requests : call[q].kind = "create" => call[q].tag # c.tag

Start(r) ==
    /\ pc[r] = "idle"
    /\ \E c \in Calls :
          /\ FreshId(c)
          /\ call' = [call EXCEPT ![r] = c]
          /\ Goto(r, FirstStep[c.kind])
    /\ UNCHANGED <<tables, history>>

-----------------------------------------------------------------------------
(***************************************************************************)
(* create, update, remove                                                  *)
(***************************************************************************)

FindName(r) ==
    /\ pc[r] \in {"findName", "findNewName"}
    /\ IF \E t \in TagIds : HasName(t, call[r].name)
       THEN Reply(r, "duplicate")
       ELSE Goto(r, IF call[r].kind = "create" THEN "createTag" ELSE "updateTag")
    /\ UNCHANGED <<tables, call, history>>

\* @@unique([tagName]): the statement that would give t a name in use fails.
NameTaken(t, n) == \E s \in TagIds \ {t} : HasName(s, n)

CreateTag(r) ==
    /\ pc[r] = "createTag"
    /\ LET t == call[r].tag
       IN  IF NameTaken(t, call[r].name)
           THEN Reply(r, "error") /\ UNCHANGED tags
           ELSE tags' = [tags EXCEPT ![t] = NewTag(call[r])] /\ Reply(r, "ok")
    /\ UNCHANGED <<taggings, entities, call, history>>

\* Slip: a tag is in use from its second tagging on.
InUseTwice(t) == tags[t].usage > 1

InUse(t) == tags[t].usage > 0

\* findOne, and what each operation makes of the row.
MayUse(c) == tags[c.tag].visibility = "public" \/ tags[c.tag].creator = c.user
MayChange(c) == c.kind = "add" \/ tags[c.tag].creator = c.user

FindTag(r) ==
    /\ pc[r] = "findTag"
    /\ LET c == call[r]
       IN  \/ ~Exists(c.tag) /\ Reply(r, "notFound")
           \/ Exists(c.tag) /\ ~(MayUse(c) /\ MayChange(c)) /\ Reply(r, "forbidden")
           \/ /\ Exists(c.tag) /\ MayUse(c) /\ MayChange(c)
              /\ \/ c.kind = "add" /\ Goto(r, "findEntity")
                 \/ c.kind = "update" /\ HasName(c.tag, c.name) /\ Goto(r, "updateTag")
                 \/ c.kind = "update" /\ ~HasName(c.tag, c.name) /\ Goto(r, "findNewName")
                 \/ c.kind = "remove" /\ InUse(c.tag) /\ Reply(r, "inUse")
                 \/ c.kind = "remove" /\ ~InUse(c.tag) /\ Goto(r, "deleteTag")
    /\ shaken' = IF call[r].kind = "remove" /\ At(call[r].tag, "increment") \cup
                       {q \in halfway : call[q].kind = "add" /\ call[q].tag = call[r].tag} # {}
                 THEN shaken \cup {r} ELSE shaken
    /\ UNCHANGED <<tables, call, halfway>>

UpdateTag(r) ==
    /\ pc[r] = "updateTag"
    /\ LET t == call[r].tag
       IN  IF ~Exists(t) \/ NameTaken(t, call[r].name)
           THEN Reply(r, "error") /\ UNCHANGED tags
           ELSE /\ tags' = [tags EXCEPT ![t].name = call[r].name,
                                        ![t].visibility = call[r].visibility]
                /\ Reply(r, "ok")
    /\ UNCHANGED <<taggings, entities, call, history>>

\* onDelete: Cascade takes the taggings along.
DeleteTag(r) ==
    /\ pc[r] = "deleteTag"
    /\ LET t == call[r].tag
       IN  IF ~Exists(t)
           THEN Reply(r, "error") /\ UNCHANGED <<tags, taggings>>
           ELSE /\ tags' = [tags EXCEPT ![t] = None]
                /\ taggings' = taggings \ TaggingsOf(t)
                /\ Reply(r, "ok")
    /\ UNCHANGED <<entities, call, history>>

-----------------------------------------------------------------------------
(***************************************************************************)
(* addTagging, removeTagging                                               *)
(***************************************************************************)

\* verifyTaggableAccess; who may touch the entity is decided outside.
FindEntity(r) ==
    /\ pc[r] = "findEntity"
    /\ \/ call[r].entity \notin entities /\ Reply(r, "notFound")
       \/ call[r].entity \in entities /\ Reply(r, "forbidden")
       \/ call[r].entity \in entities /\ Goto(r, "findTagging")
    /\ UNCHANGED <<tables, call, history>>

Pair(r) == [tag |-> call[r].tag, entity |-> call[r].entity]

FindTagging(r) ==
    /\ pc[r] = "findTagging"
    /\ \/ call[r].kind = "add" /\ Pair(r) \in taggings /\ Reply(r, "duplicate")
       \/ call[r].kind = "add" /\ Pair(r) \notin taggings /\ Goto(r, "createTagging")
       \/ call[r].kind = "untag" /\ Pair(r) \notin taggings /\ Reply(r, "notFound")
       \/ call[r].kind = "untag" /\ Pair(r) \in taggings /\ Goto(r, "deleteTagging")
    /\ UNCHANGED <<tables, call, history>>

\* The foreign key to the tag and @@unique([tagId, taggableType, taggableId]).
Creatable(r) == Exists(call[r].tag) /\ Pair(r) \notin taggings

CreateTagging(r) ==
    /\ pc[r] = "createTagging"
    /\ IF Creatable(r)
       THEN /\ taggings' = taggings \cup {Pair(r)}
            /\ shaken' = shaken \cup At(call[r].tag, "deleteTag")
            /\ Goto(r, "increment")
       ELSE Reply(r, "error") /\ UNCHANGED <<taggings, shaken>>
    /\ UNCHANGED <<tags, entities, call, halfway>>

DeleteTagging(r) ==
    /\ pc[r] = "deleteTagging"
    /\ IF Pair(r) \in taggings
       THEN taggings' = taggings \ {Pair(r)} /\ Goto(r, "decrement")
       ELSE Reply(r, "error") /\ UNCHANGED taggings
    /\ UNCHANGED <<tags, entities, call, history>>

\* The update throws when the tag is gone by now.
Count(r, step) ==
    /\ LET t == call[r].tag
       IN  IF Exists(t)
           THEN tags' = [tags EXCEPT ![t].usage = @ + step] /\ Reply(r, "ok")
           ELSE Reply(r, "error") /\ UNCHANGED tags
    /\ UNCHANGED <<taggings, entities, call, history>>

Increment(r) == pc[r] = "increment" /\ Count(r, 1)
Decrement(r) == pc[r] = "decrement" /\ Count(r, -1)

-----------------------------------------------------------------------------

\* A task, project or ticket is deleted: nothing ties its taggings to it.
DropEntity(r) ==
    /\ pc[r] = "dropEntity"
    /\ IF call[r].entity \in entities
       THEN entities' = entities \ {call[r].entity} /\ Reply(r, "ok")
       ELSE Reply(r, "notFound") /\ UNCHANGED entities
    /\ UNCHANGED <<tags, taggings, call, history>>

Abort(r) ==
    /\ pc[r] \notin {"idle", "done"}
    /\ Cardinality({q \in Requests : answer[q] = "aborted"}) < MaxAborts
    /\ Reply(r, "aborted")
    /\ halfway' = IF pc[r] \in {"increment", "decrement"} THEN halfway \cup {r} ELSE halfway
    /\ UNCHANGED <<tables, call, shaken>>

Next ==
    \E r \in Requests :
        \/ Start(r)
        \/ FindName(r) \/ CreateTag(r)
        \/ FindTag(r) \/ UpdateTag(r) \/ DeleteTag(r)
        \/ FindEntity(r) \/ FindTagging(r)
        \/ CreateTagging(r) \/ Increment(r)
        \/ DeleteTagging(r) \/ Decrement(r)
        \/ DropEntity(r) \/ Abort(r)

Spec == Init /\ [][Next]_vars

-----------------------------------------------------------------------------
(***************************************************************************)
(* Properties                                                              *)
(***************************************************************************)

\* The requests that have written a tagging of t but not its count: in
\* flight, or aborted there.
Uncounted(t, k) ==
    {r \in Requests :
        /\ call[r].kind = k /\ call[r].tag = t
        /\ pc[r] \in {"increment", "decrement"} \/ r \in halfway}

\* However additions and removals interleave, the usage count of a tag is
\* off its taggings by exactly the requests between their two statements.
UsageCountsTaggings ==
    \A t \in TagIds :
        Exists(t) =>
            tags[t].usage + Cardinality(Uncounted(t, "add"))
              = Cardinality(TaggingsOf(t)) + Cardinality(Uncounted(t, "untag"))

\* No two tags share a name, although create and update look for it in a
\* step before the one that writes it; and a tagging names a tag that is there.
NamesAndTaggingsHold ==
    /\ \A s, t \in TagIds : Exists(s) /\ HasName(t, tags[s].name) => s = t
    /\ \A row \in taggings : Exists(row.tag)

\* remove takes a tag that is in use only when a tagging was being added
\* while it looked, or was left uncounted.
RemovesUnusedUnlessShaken ==
    [][\A r \in Requests, t \in TagIds :
          /\ pc[r] = "deleteTag" /\ call[r].tag = t
          /\ Exists(t) /\ tags'[t] = None
          => TaggingsOf(t) = {} \/ r \in shaken]_vars

\* "Cannot delete tag that is in use": a refusal means that something which
\* exists carries the tag, or that a request is about to settle the count.
InUseMeansCarried ==
    [][\A r \in Requests :
          pc[r] = "findTag" /\ answer'[r] = "inUse"
          => \/ \E row \in TaggingsOf(call[r].tag) : row.entity \in entities
             \/ Uncounted(call[r].tag, "untag") # {}]_vars

=============================================================================

------------------------------- MODULE Comments -------------------------------
(***************************************************************************)
(* Comments, mentions and time logs: collaboration.service.ts.  An edit    *)
(* reads the comment, checks the access of its author, drops the mentions, *)
(* writes the text and looks for mentions, each in a statement of its own; *)
(* a deletion is a mark.  What is told to others is told after the row was *)
(* stored, and an error there is the answer.                               *)
(***************************************************************************)
EXTENDS Handlers

CONSTANTS
    Users, Entities, Rows,
    Addresses,       \* the address of each user: [local, domain]
    Members,         \* who may open each entity at first
    SeedComments,    \* the comments there are at first
    CommentCalls     \* the calls clients make

\* A text is the set of what it mentions: an address, or a name alone.
Name(address) == [address EXCEPT !.domain = None]
Texts == SUBSET ({Addresses[u] : u \in Users} \cup {Name(Addresses[u]) : u \in Users})
Comment == [entity: Entities, by: Users, text: Texts, deleted: BOOLEAN, parent: Rows \cup {None}]
CommentCall == [kind: {"comment"}, by: Users, row: Rows, entity: Entities, text: Texts,
                parent: Rows \cup {None}]
EditCall == [kind: {"edit"}, by: Users, row: Rows, text: Texts]
DeleteCall == [kind: {"delete"}, by: Users, row: Rows]
LogCall == [kind: {"log"}, by: Users, row: Rows, entity: Entities]
\* What other services do.
OtherCall == [kind: {"removeEntity"}, entity: Entities]
               \cup [kind: {"leave"}, by: Users, entity: Entities]

CommentsAssumption ==
    /\ CommentCalls \subseteq CommentCall \cup EditCall \cup DeleteCall \cup LogCall \cup OtherCall
    /\ \A u \in Users : Addresses[u].domain # None
    /\ Members \in [Entities -> SUBSET Users] /\ None \notin Comment
    /\ DOMAIN SeedComments \subseteq Rows /\ \A c \in DOMAIN SeedComments : SeedComments[c] \in Comment

VARIABLES
    entities,
    members,    \* who may open each entity
    comments,   \* None, or a Comment
    mentions,   \* [comment, user]
    logs,       \* the time logs: the entity of each, or None
    overtaken,  \* history: edits since whose look the comment was deleted
    shutOut     \* history: calls since whose check their author lost access

tables == <<entities, members, comments, mentions, logs>>
history == <<overtaken, shutOut>>
vars == <<handlers, tables, history>>

TypeOK ==
    /\ Handling({"entity", "insertComment", "mention", "assignees", "tell", "comment", "commentEntity",
                 "deleteMentions", "writeText", "mentionAgain", "markDeleted",
                 "insertLog", "other"}, CommentCalls, {"refused"})
    /\ entities \subseteq Entities /\ members \in [Entities -> SUBSET Users]
    /\ comments \in [Rows -> Comment \cup {None}]
    /\ mentions \subseteq Rows \X Users
    /\ logs \in [Rows -> Entities \cup {None}]
    /\ overtaken \subseteq Requests /\ shutOut \subseteq Requests

Init ==
    /\ HandlersInit
    /\ entities = Entities /\ members = Members
    /\ comments = [c \in Rows |-> IF c \in DOMAIN SeedComments THEN SeedComments[c] ELSE None]
    /\ mentions = {} /\ logs = [l \in Rows |-> None]
    /\ overtaken = {} /\ shutOut = {}

FreshId(c) == c.kind \in {"comment", "log"} =>
                 /\ c.row \notin DOMAIN SeedComments
                 /\ \A q \in Requests : Kind(q) \in {"comment", "log"} => call[q].row # c.row

StartWith(r, kinds, label) ==
    /\ \E c \in {c \in CommentCalls : c.kind \in kinds} : FreshId(c) /\ Begin(r, c, label)
    /\ UNCHANGED <<tables, history>>

Start(r) ==
    \/ StartWith(r, {"comment", "log"}, "entity") \/ StartWith(r, {"edit", "delete"}, "comment")
    \/ StartWith(r, {"removeEntity", "leave"}, "other")

MayOpen(u, e) == e \in entities /\ u \in members[e]

\* verifyCommentableAccess and verifyTaskAccess
Verify(r, e, label) ==
    IF e \notin entities THEN Reply(r, "notFound")
    ELSE IF call[r].by \notin members[e] THEN Reply(r, "forbidden")
    ELSE Goto(r, label)

-----------------------------------------------------------------------------
(***************************************************************************)
(* Mentions                                                                *)
(***************************************************************************)

\* What "@(\w+)" takes from a text: of an address, the part before the first
\* character that is none of a word (and the word after a second "@").
Words(text) == {Name(m) : m \in text}

\* parseMentions compares the words with whole addresses.
Mentioned(text) == {u \in Users : Addresses[u] \in Words(text)}

\* createMentions; the author does not mention himself.  No address is a single
\* word, so its loop of inserts and notices is never entered.
Mentions(row, text, author) == {<<row, u>> : u \in Mentioned(text) \ {author}}

-----------------------------------------------------------------------------
(***************************************************************************)
(* Comments                                                                *)
(***************************************************************************)

FindEntity(r) ==
    /\ pc[r] = "entity"
    /\ Verify(r, call[r].entity, IF Kind(r) = "log" THEN "insertLog" ELSE "insertComment")
    /\ UNCHANGED <<tables, history>>

\* Any comment may be the parent; the entity is no foreign key.
CreateComment(r) ==
    /\ pc[r] = "insertComment"
    /\ LET c == call[r]
       IN  IF c.parent # None /\ comments[c.parent] = None THEN Fails(r) /\ UNCHANGED comments
           ELSE /\ comments' = [comments EXCEPT ![c.row] =
                       [entity |-> c.entity, by |-> c.by, text |-> c.text, deleted |-> FALSE,
                        parent |-> c.parent]]
                /\ Goto(r, "mention")
    /\ UNCHANGED <<entities, members, mentions, logs, history>>

CreateMentions(r) ==
    /\ pc[r] \in {"mention", "mentionAgain"}
    /\ mentions' = mentions \cup Mentions(call[r].row, call[r].text, call[r].by)
    /\ IF pc[r] = "mention" THEN Goto(r, "assignees") ELSE Reply(r, "ok")
    /\ UNCHANGED <<entities, members, comments, logs, history>>

\* Who is assigned is read here, who is a member was read with the entity.
FindAssignees(r) == pc[r] = "assignees" /\ Goto(r, "tell") /\ UNCHANGED <<tables, history>>

\* notifyCommentAdded or notifyTimeLogged
Tell(r) ==
    /\ pc[r] = "tell"
    /\ Reply(r, "ok") \/ Reply(r, "error")
    /\ UNCHANGED <<tables, history>>

\* Slip: a deleted comment may be edited.
AnyComment(c) == FALSE

Frozen(c) == comments[c].deleted

FindComment(r) ==
    /\ pc[r] = "comment"
    /\ LET c == call[r].row
       IN  IF comments[c] = None THEN Reply(r, "notFound")
           ELSE IF Kind(r) = "edit" /\ Frozen(c) THEN Reply(r, "refused")
           ELSE IF comments[c].by # call[r].by THEN Reply(r, "forbidden")
           ELSE Continue(r, "commentEntity", comments[c].entity)
    /\ UNCHANGED <<tables, history>>

FindCommentEntity(r) ==
    /\ pc[r] = "commentEntity"
    /\ Verify(r, held[r], IF Kind(r) = "edit" THEN "deleteMentions" ELSE "markDeleted")
    /\ UNCHANGED <<tables, history>>

DeleteMentions(r) ==
    /\ pc[r] = "deleteMentions"
    /\ mentions' = {m \in mentions : m[1] # call[r].row}
    /\ Goto(r, "writeText")
    /\ UNCHANGED <<entities, members, comments, logs, history>>

WriteText(r) ==
    /\ pc[r] = "writeText"
    /\ comments' = [comments EXCEPT ![call[r].row].text = call[r].text]
    /\ Goto(r, "mentionAgain")
    /\ UNCHANGED <<entities, members, mentions, logs, history>>

\* Edits that have found the comment not to be deleted.
Editing(c) ==
    {q \in At("commentEntity") \cup At("deleteMentions") \cup At("writeText") :
        Kind(q) = "edit" /\ call[q].row = c}

MarkDeleted(r) ==
    /\ pc[r] = "markDeleted"
    /\ comments' = [comments EXCEPT ![call[r].row].deleted = TRUE]
    /\ overtaken' = overtaken \cup Editing(call[r].row)
    /\ Reply(r, "ok")
    /\ UNCHANGED <<entities, members, mentions, logs, shutOut>>

-----------------------------------------------------------------------------
(***************************************************************************)
(* Time logs, and the other services                                       *)
(***************************************************************************)

\* A log is of a task, by a foreign key.
CreateTimeLog(r) ==
    /\ pc[r] = "insertLog"
    /\ IF call[r].entity \notin entities THEN Fails(r) /\ UNCHANGED logs
       ELSE Goto(r, "assignees") /\ logs' = [logs EXCEPT ![call[r].row] = call[r].entity]
    /\ UNCHANGED <<entities, members, comments, mentions, history>>

\* Calls that have passed their check and could not pass it any more.
ShutOut ==
    {q \in At("insertComment") \cup At("deleteMentions") \cup At("writeText") \cup At("markDeleted") :
        LET e == IF Kind(q) = "comment" THEN call[q].entity ELSE comments[call[q].row].entity
        IN  ~(e \in entities' /\ call[q].by \in members'[e])}

Other(r) ==
    /\ pc[r] = "other"
    /\ LET e == call[r].entity
       IN  \/ /\ Kind(r) = "removeEntity"
              /\ entities' = entities \ {e} /\ UNCHANGED members
              /\ logs' = [l \in Rows |-> IF logs[l] = e THEN None ELSE logs[l]]
           \/ /\ Kind(r) = "leave"
              /\ members' = [members EXCEPT ![e] = @ \ {call[r].by}] /\ UNCHANGED <<entities, logs>>
    /\ shutOut' = shutOut \cup ShutOut
    /\ Reply(r, "ok")
    /\ UNCHANGED <<comments, mentions, overtaken>>

Next ==
    \E r \in Requests :
        \/ Start(r) \/ FindEntity(r) \/ CreateComment(r) \/ CreateMentions(r) \/ FindAssignees(r) \/ Tell(r)
        \/ FindComment(r) \/ FindCommentEntity(r) \/ DeleteMentions(r) \/ WriteText(r) \/ MarkDeleted(r)
        \/ CreateTimeLog(r) \/ Other(r)

Spec == Init /\ [][Next]_vars

-----------------------------------------------------------------------------
(***************************************************************************)
(* Properties                                                              *)
(***************************************************************************)

\* "Cannot update deleted comment": the text of a deleted comment changes only
\* by an edit that had found it before it was deleted, and no deletion is
\* taken back.
DeletedKeepTheirText ==
    [][\A c \in Rows :
          comments[c] # None /\ comments[c].deleted =>
              /\ comments'[c] # None /\ comments'[c].deleted
              /\ comments'[c].text # comments[c].text =>
                    \E r \in overtaken : pc[r] = "writeText" /\ pc'[r] # pc[r] /\ call[r].row = c]_vars

\* "You do not have access": a comment is written, edited or deleted by its
\* author while he may open its entity, unless he could when the call checked.
WrittenWithAccess ==
    [][\A c \in Rows :
          comments'[c] # comments[c] =>
              \E r \in Requests :
                  /\ pc'[r] # pc[r] /\ call[r].row = c /\ call[r].by = comments'[c].by
                  /\ MayOpen(call[r].by, comments'[c].entity) \/ r \in shutOut]_vars

\* "format: @username or @email": whom a comment mentions by address is noted.
AddressedAreNoted ==
    \A r \in Requests :
        Kind(r) = "comment" /\ answer[r] = "ok" =>
            \A u \in Users \ {call[r].by} : Addresses[u] \in call[r].text => <<call[r].row, u>> \in mentions

=============================================================================

------------------------------- MODULE Notices -------------------------------
(***************************************************************************)
(* What a deed tells others.  After its own row is stored, a handler finds *)
(* who follows the entity, and for each of them stores a notification,     *)
(* pushes it to the rooms of that user and adds a mail to the queue, one   *)
(* await after the other; last it emits the deed to the rooms of the       *)
(* entity.  An error on the way is the answer of the deed.  Clients join   *)
(* and leave rooms, and read what is stored; what stops and starts again   *)
(* has forgotten its rooms.                                                *)
(* notification-events.service.ts, notifications.service.ts, pms.gateway.ts *)
(* and websocket-events.service.ts, with the services that call them.      *)
(***************************************************************************)
EXTENDS MailQueue

CONSTANTS
    Clients,      \* the users whose sockets are looked at
    ClientRooms,  \* the rooms they join
    Subjects,     \* what there is: tasks, projects, tickets, deals, tags, contacts
    TypeOf,       \* the table each is in
    Within,       \* the project of a task
    Followers,    \* members of its project, or its owner, assignee or creator
    Assigned,     \* who it is assigned to at first
    Fresh,        \* the subjects that are not there at first
    Deeds         \* the calls clients make

\* What an event does: who is told ("early": the followers, read before the row
\* is stored, "row": with it, "late": after it, "asked": those the call names),
\* with the assignees or not; what the service looks up again before it tells
\* them; whether the author is left out; the mail; the rooms it is emitted to.
Event(who, assignees, looks, skips, mail, emits) ==
    [who |-> who, assignees |-> assignees, looks |-> looks, skips |-> skips, mail |-> mail, emits |-> emits]

\* For comments on tasks and on projects.
CommentAdded == Event("early", TRUE, {"task"}, TRUE, "comment-added", {"task"})
\* notifyProjectCreated, as a new task calls it.
TaskCreated == Event("early", FALSE, {"project"}, FALSE, "project-created", {"own"})
TimeLogged == Event("early", TRUE, {"task"}, TRUE, None, {"task"})
FileUploaded == Event("late", TRUE, {}, TRUE, None, {"own"})
TaggableTagged == Event("late", TRUE, {"tag"}, TRUE, "taggable-tagged", {})
ShareCreated == Event("asked", FALSE, {}, FALSE, "share-created", {"own", "users"})
SharedWithTeam == Event("asked", FALSE, {}, FALSE, "share-created", {"own"})
AssignmentCreated == Event("asked", FALSE, {}, FALSE, "assignment-created", {"own", "users"})
AssignmentStatusChanged == Event("asked", FALSE, {}, TRUE, "assignment-status-changed", {"own", "author"})
TicketCreated == Event("row", FALSE, {"ticket", "contact"}, FALSE, "ticket-created", {})
TicketAssigned == Event("asked", FALSE, {"ticket"}, FALSE, "ticket-assigned", {})
TicketStatusChanged == Event("row", FALSE, {"ticket"}, TRUE, "ticket-status-changed", {})
DealCreated == Event("row", FALSE, {"deal"}, TRUE, "deal-created", {})
DealStageChanged == Event("row", FALSE, {"deal"}, TRUE, "deal-stage-changed", {})
FormSubmission == Event("row", FALSE, {"submission"}, FALSE, "form-submission", {})
\* Events nobody is told of.  The room of a comment that changed has its type
\* in its name twice, and nobody is in it.
Silent(emits) == Event("none", FALSE, {}, FALSE, None, emits)
TaskUpdated == Silent({"own", "project"})
CommentUpdated == Silent({"nobody"})
ProjectCreated == Silent({"own"})
\* Mails of auth.service and of invitations, to the one the call names.
MailOnly(type) == Event("mail", FALSE, {}, FALSE, type, {})

Events ==
    [comment |-> CommentAdded, task |-> TaskCreated, log |-> TimeLogged, upload |-> FileUploaded,
     tag |-> TaggableTagged, share |-> ShareCreated, teamShare |-> SharedWithTeam,
     assign |-> AssignmentCreated, assignStatus |-> AssignmentStatusChanged,
     ticket |-> TicketCreated, ticketAssign |-> TicketAssigned, ticketStatus |-> TicketStatusChanged,
     deal |-> DealCreated, dealStage |-> DealStageChanged, submission |-> FormSubmission,
     update |-> TaskUpdated, editComment |-> CommentUpdated, project |-> ProjectCreated,
     verify |-> MailOnly("verification"), reset |-> MailOnly("password-reset"),
     code |-> MailOnly("2fa-code"), invite |-> MailOnly("workspace-invitation")]

\* Rows of these have a key to the subject, or are the subject; these create it.
Bound == {"task", "log", "update", "ticketAssign", "ticketStatus", "dealStage", "project"}
Creating == {"ticket", "deal", "submission"}
\* These do not ask whether the subject is there.
MailsOnly == {"verify", "reset", "code", "invite"}
Unasked == Creating \cup MailsOnly \cup {"upload", "assignStatus"}

Deed == [kind: DOMAIN Events, by: Users, subject: Subjects \cup {None}, also: Subjects \cup {None},
         to: SUBSET Users]
OtherCall == [kind: {"remove"}, subject: Subjects] \cup [kind: {"leave"}, subject: Subjects, to: SUBSET Users]

Rooms == [type: {"task", "project", "workspace"}, of: Subjects] \cup [type: {"user"}, of: Users]

NoticesAssumption ==
    /\ Deeds \subseteq Deed \cup OtherCall /\ Clients \subseteq Users /\ ClientRooms \subseteq Rooms
    /\ Followers \in [Subjects -> SUBSET Users] /\ Assigned \in [Subjects -> SUBSET Users]
    /\ Fresh \subseteq Subjects /\ None \notin Branches /\ MailQueueAssumption
    /\ \A d \in Deeds :
          /\ d.kind \in Creating => d.subject \in Fresh
          /\ d.kind \in MailsOnly => \E u \in Users : d.to = {u}

VARIABLES
    subjects, followers, assignees,
    stored,     \* the deeds whose own row is stored
    rows,       \* the notification of each deed to each user
    joined,     \* the rooms of each client
    known,      \* what each client has read or was pushed
    watching,   \* history: rooms a client joined before it last read, and has not left
    steady,     \* history: who followed its subject since the deed began
    vanished    \* history: deeds that found what they look up gone

tables == <<subjects, followers, assignees, stored, rows>>
sockets == <<joined, known, watching>>
history == <<steady, vanished>>
vars == <<handlers, mailing, tables, sockets, history>>

RowStates == {"none", "unread", "read", "deleted"}

TypeOK ==
    /\ Handling({"find", "store", "gather", "look", "insert", "push", "mail", "emit", "other"}, Deeds, {"cut"})
    /\ MailQueueTyped
    /\ subjects \subseteq Subjects
    /\ followers \in [Subjects -> SUBSET Users] /\ assignees \in [Subjects -> SUBSET Users]
    /\ stored \subseteq Requests
    /\ rows \in [Requests \X Users -> RowStates]
    /\ joined \in [Clients -> SUBSET Rooms] /\ watching \in [Clients -> SUBSET Rooms]
    /\ known \in [Clients -> SUBSET (Rooms \X Requests \X {"row", "deed"})]
    /\ steady \in [Requests -> SUBSET Users] /\ vanished \subseteq Requests

Init ==
    /\ HandlersInit /\ MailQueueInit
    /\ subjects = Subjects \ Fresh /\ followers = Followers /\ assignees = Assigned
    /\ stored = {} /\ rows = [x \in Requests \X Users |-> "none"]
    /\ joined = [u \in Clients |-> {}] /\ known = [u \in Clients |-> {}] /\ watching = [u \in Clients |-> {}]
    /\ steady = [r \in Requests |-> {}] /\ vanished = {}

Of(r) == Events[Kind(r)]
Subject(r) == call[r].subject
Nobody == [left |-> {}, now |-> None]
Left(users) == [Nobody EXCEPT !.left = users]

-----------------------------------------------------------------------------
(***************************************************************************)
(* Deeds                                                                   *)
(***************************************************************************)

\* No call has named the row that is to be created.
NewId(s) == \A q \in Requests : Kind(q) # "none" => Subject(q) # s

Start(r) ==
    /\ \E d \in Deeds :
          /\ d.kind \in Creating => NewId(d.subject)
          /\ Begin(r, d, IF d.kind \in {"remove", "leave"} THEN "other"
                         ELSE IF d.kind \in Unasked THEN "store" ELSE "find")
          /\ steady' = [steady EXCEPT ![r] =
                            IF d.kind \in Creating \/ d.subject \in subjects THEN followers[d.subject] ELSE {}]
    /\ UNCHANGED <<mailing, tables, sockets, vanished>>

\* The access check; who follows the entity is read with it.
Find(r) ==
    /\ pc[r] = "find"
    /\ IF Subject(r) \notin subjects THEN Reply(r, "notFound")
       ELSE Continue(r, "store", Left(IF Of(r).who = "early" THEN followers[Subject(r)] ELSE {}))
    /\ UNCHANGED <<mailing, tables, sockets, history>>

\* The deed itself.  A mail alone is to one; others have somebody to tell, or not.
Store(r) ==
    /\ pc[r] = "store"
    /\ LET s == Subject(r)
           e == Of(r)
           told == CASE e.who = "row" -> Left(followers[s])
                       [] e.who = "asked" -> Left(call[r].to)
                       [] e.who = "early" -> held[r]
                       [] e.who = "mail" -> [left |-> {}, now |-> CHOOSE u \in call[r].to : TRUE]
                       [] OTHER -> Nobody
       IN  IF Kind(r) \in Bound /\ s \notin subjects THEN Fails(r) /\ UNCHANGED <<stored, subjects, assignees>>
           ELSE /\ stored' = stored \cup {r}
                /\ subjects' = subjects \cup (IF Kind(r) \in Creating THEN {s} ELSE {})
                /\ assignees' = IF Kind(r) = "assign" THEN [assignees EXCEPT ![s] = @ \cup call[r].to] ELSE assignees
                /\ Continue(r, IF e.who = "mail" THEN "mail" ELSE IF e.who = "none" THEN "emit" ELSE "gather", told)
    /\ UNCHANGED <<mailing, followers, rows, sockets, history>>

\* Who is to be told; the author is left out where the event says so.
Told(r, users) == IF Of(r).skips THEN users \ {call[r].by} ELSE users

Gather(r) ==
    /\ pc[r] = "gather"
    /\ LET s == Subject(r)
           found == IF Of(r).who # "late" THEN held[r].left \cup (IF Of(r).assignees THEN assignees[s] ELSE {})
                    ELSE IF s \in subjects THEN followers[s] \cup assignees[s] ELSE {}
       IN  Continue(r, IF Told(r, found) = {} THEN "emit" ELSE "look", Left(Told(r, found)))
    /\ UNCHANGED <<mailing, tables, sockets, history>>

Found(r, type) == \E x \in {Subject(r), call[r].also} \cap subjects : TypeOf[x] = type

Look(r) ==
    /\ pc[r] = "look"
    /\ IF \A type \in Of(r).looks : Found(r, type) THEN Goto(r, "insert") /\ UNCHANGED vanished
       ELSE Goto(r, "emit") /\ vanished' = vanished \cup {r}
    /\ UNCHANGED <<mailing, tables, sockets, steady>>

\* notifications.create: the row, then the push.
Insert(r) ==
    /\ pc[r] = "insert"
    /\ \/ \E u \in held[r].left :
             /\ rows' = [rows EXCEPT ![<<r, u>>] = IF @ = "none" THEN "unread" ELSE "twice"]
             /\ Continue(r, "push", [left |-> held[r].left \ {u}, now |-> u])
       \/ Fails(r) /\ UNCHANGED rows
    /\ UNCHANGED <<mailing, subjects, followers, assignees, stored, sockets, history>>

\* What is emitted to rooms reaches the clients who are in them.
Emitted(rooms, r, what) ==
    known' = [u \in Clients |-> known[u] \cup {<<room, r, what>> : room \in rooms \cap joined[u]}]

UserRoom(u) == [type |-> "user", of |-> u]

\* Slip: the notification is pushed to its author.
AuthorsRoom(r) == UserRoom(call[r].by)

PushRoom(r) == UserRoom(held[r].now)

Onward(r) == IF held[r].left = {} THEN "emit" ELSE "insert"

Push(r) ==
    /\ pc[r] = "push"
    /\ Emitted({PushRoom(r)}, r, "row")
    /\ Goto(r, IF Of(r).mail = None THEN Onward(r) ELSE "mail")
    /\ UNCHANGED <<mailing, tables, joined, watching, history>>

Mail(r) ==
    /\ pc[r] = "mail"
    /\ \/ Len(jobs) < MaxJobs /\ Add(Of(r).mail, held[r].now, r) /\ Goto(r, Onward(r))
       \/ Fails(r) /\ UNCHANGED mailing
    /\ UNCHANGED <<tables, sockets, history>>

RoomsOf(r) ==
    LET s == Subject(r)
        own == [type |-> TypeOf[s], of |-> s]
    IN  (IF "own" \in Of(r).emits THEN {own} ELSE {})
          \cup (IF "task" \in Of(r).emits THEN {[own EXCEPT !.type = "task"]} ELSE {})
          \cup (IF "project" \in Of(r).emits THEN {[type |-> "project", of |-> Within[s]]} ELSE {})
          \cup (IF "author" \in Of(r).emits THEN {UserRoom(call[r].by)} ELSE {})
          \cup (IF "users" \in Of(r).emits THEN {UserRoom(u) : u \in call[r].to} ELSE {})

Emit(r) ==
    /\ pc[r] = "emit"
    /\ IF Of(r).emits = {} THEN UNCHANGED known ELSE Emitted(RoomsOf(r), r, "deed")
    /\ Reply(r, "ok")
    /\ UNCHANGED <<mailing, tables, joined, watching, history>>

\* Other services remove what there is, and members of it.
Other(r) ==
    /\ pc[r] = "other"
    /\ LET s == Subject(r)
       IN  \/ Kind(r) = "remove" /\ subjects' = subjects \ {s} /\ UNCHANGED <<followers, steady>>
           \/ /\ Kind(r) = "leave" /\ UNCHANGED subjects
              /\ followers' = [followers EXCEPT ![s] = @ \ call[r].to]
              /\ steady' = [q \in Requests |-> IF q # r /\ Kind(q) # "none" /\ Subject(q) = s
                                               THEN steady[q] \ call[r].to ELSE steady[q]]
    /\ Reply(r, "ok")
    /\ UNCHANGED <<mailing, assignees, stored, rows, sockets, vanished>>

Handle(r) ==
    Find(r) \/ Store(r) \/ Gather(r) \/ Look(r) \/ Insert(r) \/ Push(r) \/ Mail(r) \/ Emit(r) \/ Other(r)

-----------------------------------------------------------------------------
(***************************************************************************)
(* Clients                                                                 *)
(***************************************************************************)

\* subscribe:task and the like take any id, subscribe:notifications that of the client alone.
Joinable(u) == {room \in ClientRooms : room.type = "user" => room.of = u}

Join(u) ==
    /\ \E room \in Joinable(u) : joined' = [joined EXCEPT ![u] = @ \cup {room}]
    /\ UNCHANGED <<handlers, mailing, tables, known, watching, history>>

Leave(u) ==
    /\ \E room \in joined[u] :
          /\ joined' = [joined EXCEPT ![u] = @ \ {room}]
          /\ watching' = [watching EXCEPT ![u] = @ \ {room}]
    /\ UNCHANGED <<handlers, mailing, tables, known, history>>

Disconnect(u) ==
    /\ joined' = [joined EXCEPT ![u] = {}] /\ watching' = [watching EXCEPT ![u] = {}]
    /\ UNCHANGED <<handlers, mailing, tables, known, history>>

Listed(room) ==
    IF room.type = "user" THEN {<<room, r, "row">> : r \in {q \in Requests : rows[<<q, room.of>>] \in {"unread", "read"}}}
    ELSE {<<room, r, "deed">> : r \in {q \in stored : room \in RoomsOf(q)}}

\* getUserNotifications, or the page of an entity.
Read(u) ==
    /\ \E room \in Joinable(u) :
          /\ known' = [known EXCEPT ![u] = @ \cup Listed(room)]
          /\ watching' = [watching EXCEPT ![u] = @ \cup ({room} \cap joined[u])]
    /\ UNCHANGED <<handlers, mailing, tables, joined, history>>

Shown(u) == {x \in DOMAIN rows : x[2] = u /\ <<UserRoom(u), x[1], "row">> \in known[u]}

\* markAsRead of one the client was shown; markAllAsRead.
MarkRead(u) ==
    /\ \E S \in {{x} : x \in Shown(u)} \cup {Requests \X {u}} :
          rows' = [x \in DOMAIN rows |-> IF x \in S /\ rows[x] = "unread" THEN "read" ELSE rows[x]]
    /\ UNCHANGED <<handlers, mailing, subjects, followers, assignees, stored, sockets, history>>

Delete(u) ==
    /\ \E x \in Shown(u) : rows' = [rows EXCEPT ![x] = "deleted"]
    /\ UNCHANGED <<handlers, mailing, subjects, followers, assignees, stored, sockets, history>>

Client == \E u \in Clients : Join(u) \/ Leave(u) \/ Disconnect(u) \/ Read(u) \/ MarkRead(u) \/ Delete(u)

\* The process stops: calls are cut off, sockets are gone.
Crash ==
    /\ WorkerStops
    /\ pc' = [r \in Requests |-> IF pc[r] = "idle" THEN "idle" ELSE "done"]
    /\ answer' = [r \in Requests |-> IF pc[r] \in {"idle", "done"} THEN answer[r] ELSE "cut"]
    /\ joined' = [u \in Clients |-> {}] /\ watching' = [u \in Clients |-> {}]
    /\ UNCHANGED <<call, held, tables, known, history>>

Serve == \E r \in Requests : Start(r) \/ Handle(r)
Deliver == (Work \/ WorkAgain) /\ UNCHANGED <<handlers, tables, sockets, history>>

Next == Serve \/ Deliver \/ Client \/ Crash

Fairly == WorkFairly /\ \A r \in Requests : WF_vars(Handle(r))

Spec == Init /\ [][Next]_vars /\ Fairly

-----------------------------------------------------------------------------
(***************************************************************************)
(* Properties                                                              *)
(***************************************************************************)

Noticed(r) == {u \in Users : rows[<<r, u>>] # "none"}
Mailed(r) == {jobs[j].to : j \in {i \in Jobs : jobs[i].deed = r}}
JobsOf(r) == {j \in Jobs : jobs[j].deed = r}

\* Who followed the entity during the whole call is told of a deed that was
\* answered "ok", unless what the service looks up was gone by then (for a
\* comment on a project it always is: it looks for a task).
FollowersAreTold ==
    \A r \in Requests :
        /\ answer[r] = "ok" /\ r \in stored \ vanished
        /\ Of(r).who \in {"early", "row"} \/ (Of(r).who = "late" /\ Subject(r) \in subjects)
        => Told(r, steady[r]) \subseteq Noticed(r)

\* Who is told is told once, with one mail, if any; an error or a stop leaves
\* at most one with a notification and no mail, and the deed stored.  A mail
\* that is all there is to tell is added, or the answer is no "ok".
ToldOnce ==
    \A r \in Requests :
        /\ Cardinality(JobsOf(r)) = Cardinality(Mailed(r))
        /\ Noticed(r) # {} /\ Of(r).mail # None =>
              /\ Mailed(r) \subseteq Noticed(r)
              /\ Cardinality(Noticed(r) \ Mailed(r)) <= (IF answer[r] = "ok" THEN 0 ELSE 1)
        /\ Noticed(r) # {} \/ Mailed(r) # {} => r \in stored
        /\ answer[r] = "ok" /\ r \in stored /\ Of(r).who = "mail" => Mailed(r) = call[r].to

\* A client that joined a room and then read what there is misses nothing of
\* it: a notification that is stored later is pushed to it, and a deed reaches it
\* unless it ends with an error or a stop.
WatchersMissNothing ==
    \A u \in Clients : \A room \in watching[u] : \A x \in Listed(room) :
        \/ x \in known[u]
        \/ IF x[3] = "row" THEN pc[x[2]] = "push" /\ held[x[2]].now = u
           ELSE pc[x[2]] # "done" \/ answer[x[2]] # "ok"

\* What the notices, the rooms and the mails owe to those who follow an entity.
NoticesHold == FollowersAreTold /\ ToldOnce /\ WatchersMissNothing /\ MailsMatchJobs /\ MailsInOrder

\* Every call is answered, and every job settles: "async, non-blocking" does
\* not mean that a mail is forgotten.
AllSettle == []<>(At("idle") \cup At("done") = Requests /\ \A j \in Jobs : Settled(j))

=============================================================================

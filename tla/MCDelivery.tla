------------------------------ MODULE MCDelivery ------------------------------
(***************************************************************************)
(* Small instances of Notices on MailQueue and of Files.  Part "told" has  *)
(* many deeds and no clients, "watched" a client in two rooms, "mails" the *)
(* worker of the queue; in "told" and "watched" it does not run.           *)
(***************************************************************************)
EXTENDS Files, TLC

CONSTANTS
    Parts,   \* the parts a run looks at
    Clients, ClientRooms, Subjects, TypeOf, ProjectOf, Followers, Assigned, Fresh, Deeds,
    MaxJobs, MaxCrashes,
    DeedsOf, StopsOf,   \* the deeds and the number of stops of each part
    ann, bob, cal, task, project, ticket, deal, tag, contact, f1, f2

VARIABLES
    part,
    jobs, waiting, worker, mails, crashes,
    subjects, followers, assignees, stored, rows, joined, known, watching, steady, vanished

nVars == <<jobs, waiting, worker, mails, crashes,
           subjects, followers, assignees, stored, rows, joined, known, watching, steady, vanished>>
fVars == <<files, objects, opened, stops>>

Things == {task, project, ticket, deal, tag, contact}
TableOf == [s \in Things |-> CASE s = task -> "task" [] s = project -> "project" [] s = ticket -> "ticket"
                              [] s = deal -> "deal" [] s = tag -> "tag" [] OTHER -> "contact"]
FollowersOf == [s \in Things |-> IF s \in {task, project} THEN {ann, bob} ELSE IF s \in {ticket, deal} THEN {bob} ELSE {}]
AssignedTo == [s \in Things |-> IF s = task THEN {cal} ELSE {}]
InProject == [s \in {task} |-> project]
RoomsOfBob == {[type |-> "user", of |-> bob], [type |-> "task", of |-> task]}

D(kinds, by, s, also, to) == [kind: kinds, by: {by}, subject: {s}, also: {also}, to: {to}]

\* ann and bob are members of the project, cal is assigned to the task.
ToldDeeds ==
    D({"comment", "upload", "update", "editComment"}, ann, task, None, {})
      \cup D({"comment", "task", "upload"}, ann, project, None, {})
      \cup D({"log"}, bob, task, None, {})
      \cup D({"tag"}, ann, task, tag, {})
      \cup D({"share", "assign"}, ann, task, None, {bob})
      \cup D({"teamShare"}, ann, task, None, {bob, cal})
      \cup D({"assignStatus"}, bob, task, None, {ann})
      \cup D({"ticket"}, ann, ticket, contact, {}) \cup D({"ticketStatus"}, ann, ticket, None, {})
      \cup D({"ticketAssign"}, ann, ticket, None, {cal})
      \cup D({"dealStage"}, ann, deal, None, {})
      \cup [kind: {"remove"}, subject: {task, tag, ticket}]
      \cup [kind: {"leave"}, subject: {task}, to: {{bob}}]
WatchedDeeds ==
    D({"update"}, ann, task, None, {}) \cup D({"assign"}, ann, task, None, {bob})
MailDeeds == D({"assign"}, ann, task, None, {bob}) \cup D({"invite"}, ann, None, None, {bob})
DeedsOfParts == [told |-> ToldDeeds, watched |-> WatchedDeeds, mails |-> MailDeeds, files |-> {}]
AllDeeds == ToldDeeds \cup WatchedDeeds \cup MailDeeds
StopsOfParts == [told |-> 1, watched |-> 1, mails |-> 2, files |-> 0]

SeedFile == f1 :> [by |-> ann, entity |-> task]
MCFileCalls ==
    [kind: {"upload"}, by: {ann}, file: {f2}, entity: {task, tag}, fits: BOOLEAN]
      \cup [kind: {"download", "delete"}, by: {bob}, file: {f1}]
      \cup [kind: {"download", "delete"}, by: {ann}, file: {f1, f2}]
      \cup [kind: {"move"}, by: {ann}, file: {f1}, entity: {project, tag}]

N == INSTANCE Notices WITH Within <- ProjectOf
ASSUME DeliveryAssumption == N!NoticesAssumption /\ FilesAssumption

MCInit ==
    /\ part \in Parts
    /\ Init
    /\ N!Init

\* The calls of a part, and its stops.
OfPart == (\A r \in Requests : call'[r] \in {NoCall} \cup DeedsOf[part]) /\ crashes' <= StopsOf[part]

MCNext ==
    /\ UNCHANGED part
    /\ \/ part = "told" /\ (N!Serve \/ N!Crash) /\ OfPart /\ UNCHANGED fVars
       \/ part = "watched" /\ (N!Serve \/ N!Client \/ N!Crash) /\ OfPart /\ UNCHANGED fVars
       \/ part = "mails" /\ (N!Serve \/ N!Deliver \/ N!Crash) /\ OfPart /\ UNCHANGED fVars
       \/ part = "files" /\ Next /\ UNCHANGED nVars

\* Handlers and the worker go on; in the parts without the worker what waits for
\* it is left out of the behaviours that are looked at for liveness.
MCSpec == MCInit /\ [][MCNext]_<<part, handlers, nVars, fVars>> /\ N!Fairly

Typed == IF part = "files" THEN TypeOK ELSE N!TypeOK
NoticesHold == part # "files" => N!NoticesHold
MailsSettle == part # "files" => N!AllSettle

=============================================================================

-------------------------------- MODULE Files --------------------------------
(***************************************************************************)
(* Uploads, downloads, deletions and moves: files.service.ts on one of the *)
(* two storage services.  The object and the row of a file are two things: *)
(* an upload puts the object first, a deletion drops it first.  The        *)
(* process may stop between any two statements.                            *)
(***************************************************************************)
EXTENDS Handlers

CONSTANTS
    Users, FileIds,
    Entities,      \* of the types a file may be of
    Others,        \* entities of other types
    SeedFiles,     \* the files there are at first
    FileCalls,     \* the calls clients make
    Within,        \* the upload directory is in that of the process, or it is S3
    MaxStops       \* bound: stops of the process

File == [by: Users, entity: Entities]
ListedFile == [by: Users, entity: Entities, whole: BOOLEAN]
Where == Entities \cup Others
FileCall == [kind: {"upload"}, by: Users, file: FileIds, entity: Where, fits: BOOLEAN]
              \cup [kind: {"download", "delete"}, by: Users, file: FileIds]
              \cup [kind: {"move"}, by: Users, file: FileIds, entity: Where]

FilesAssumption ==
    /\ FileCalls \subseteq FileCall /\ Within \in BOOLEAN /\ MaxStops \in Nat
    /\ None \notin FileIds \cup File \cup ListedFile
    /\ DOMAIN SeedFiles \subseteq FileIds /\ \A f \in DOMAIN SeedFiles : SeedFiles[f] \in File

VARIABLES
    files,     \* the rows: None, or a File
    objects,   \* what the storage has of each
    opened,    \* downloads that have a stream
    stops

tables == <<files, objects>>
vars == <<handlers, tables, opened, stops>>

TypeOK ==
    /\ Handling({"put", "putting", "insertFile", "tell", "findFile", "exists", "open", "size",
                 "deleteObject", "deleteFile", "updateFile"}, FileCalls, {"refused", "cut", "notInStorage"})
    /\ files \in [FileIds -> File \cup {None}]
    /\ objects \in [FileIds -> {"none", "part", "whole"}]
    /\ opened \subseteq Requests
    /\ stops \in 0..MaxStops

Init ==
    /\ HandlersInit
    /\ files = [f \in FileIds |-> IF f \in DOMAIN SeedFiles THEN SeedFiles[f] ELSE None]
    /\ objects = [f \in FileIds |-> IF f \in DOMAIN SeedFiles THEN "whole" ELSE "none"]
    /\ opened = {} /\ stops = 0

FreshId(c) == c.kind = "upload" =>
    c.file \notin DOMAIN SeedFiles /\ \A q \in Requests : Kind(q) = "upload" => call[q].file # c.file

Start(r) ==
    /\ \E c \in FileCalls : FreshId(c) /\ Begin(r, c, IF c.kind = "upload" THEN "put" ELSE "findFile")
    /\ UNCHANGED <<tables, opened, stops>>

The(r) == call[r].file

-----------------------------------------------------------------------------
(***************************************************************************)
(* The storage                                                             *)
(***************************************************************************)

\* A local object is written bit by bit, one in S3 at once.
PutBegins(f) == objects' = [objects EXCEPT ![f] = "part"]
PutEnds(f) == objects' = [objects EXCEPT ![f] = "whole"]

\* The path of the row is looked for in the directory of the process.
Has(f) == Within /\ objects[f] # "none"

\* existsSync and unlinkSync, or a DeleteObjectCommand: nothing is an error.
Drop(f) == objects' = IF Has(f) THEN [objects EXCEPT ![f] = "none"] ELSE objects

-----------------------------------------------------------------------------
(***************************************************************************)
(* Uploads                                                                 *)
(***************************************************************************)

\* Slip: only the size is checked.
AnyType(r) == call[r].fits

Valid(r) == call[r].entity \in Entities /\ call[r].fits

Put(r) ==
    /\ pc[r] = "put"
    /\ IF ~Valid(r) THEN Reply(r, "refused") /\ UNCHANGED objects
       ELSE PutBegins(The(r)) /\ Goto(r, "putting")
    /\ UNCHANGED <<files, opened, stops>>

Putting(r) ==
    /\ pc[r] = "putting"
    /\ \/ PutEnds(The(r)) /\ Goto(r, "insertFile")
       \/ Fails(r) /\ UNCHANGED objects
    /\ UNCHANGED <<files, opened, stops>>

InsertFile(r) ==
    /\ pc[r] = "insertFile"
    /\ \/ /\ files' = [files EXCEPT ![The(r)] = [by |-> call[r].by, entity |-> call[r].entity]]
          /\ Goto(r, "tell")
       \/ Fails(r) /\ UNCHANGED files
    /\ UNCHANGED <<objects, opened, stops>>

\* See Notices: an error there is the answer, and the file is stored.
Tell(r) ==
    /\ pc[r] = "tell"
    /\ Reply(r, "ok") \/ Fails(r)
    /\ UNCHANGED <<tables, opened, stops>>

-----------------------------------------------------------------------------
(***************************************************************************)
(* Downloads, deletions and moves                                          *)
(***************************************************************************)

\* Slip: whoever finds a file may delete it.
AnyUser(r) == TRUE

MayChange(r) == files[The(r)].by = call[r].by

FindFile(r) ==
    /\ pc[r] = "findFile"
    /\ IF files[The(r)] = None THEN Reply(r, "notFound")
       ELSE IF Kind(r) = "download" THEN Goto(r, "exists")
       ELSE IF ~MayChange(r) THEN Reply(r, "forbidden")
       ELSE IF Kind(r) = "delete" THEN Goto(r, "deleteObject")
       ELSE IF call[r].entity \notin Entities THEN Reply(r, "refused")
       ELSE Goto(r, "updateFile")
    /\ UNCHANGED <<tables, opened, stops>>

\* fileExists: an error of the storage is caught and answered as false.
Exists(r) ==
    /\ pc[r] = "exists"
    /\ Reply(r, "notInStorage") \/ (Has(The(r)) /\ Goto(r, "open"))
    /\ UNCHANGED <<tables, opened, stops>>

\* What was there may be gone, or out of reach, when the stream is opened.
Open(r) ==
    /\ pc[r] = "open"
    /\ \/ Has(The(r)) /\ Goto(r, "size") /\ opened' = opened \cup {r}
       \/ Fails(r) /\ UNCHANGED opened
    /\ UNCHANGED <<tables, stops>>

\* The length is that of the row, which is read again.
Size(r) ==
    /\ pc[r] = "size"
    /\ Reply(r, IF files[The(r)] = None THEN "notFound" ELSE "ok")
    /\ UNCHANGED <<tables, opened, stops>>

DeleteObject(r) ==
    /\ pc[r] = "deleteObject"
    /\ \/ Drop(The(r)) /\ Goto(r, "deleteFile")
       \/ Fails(r) /\ UNCHANGED objects
    /\ UNCHANGED <<files, opened, stops>>

DeleteFile(r) ==
    /\ pc[r] = "deleteFile"
    /\ IF files[The(r)] = None THEN Fails(r) /\ UNCHANGED files
       ELSE files' = [files EXCEPT ![The(r)] = None] /\ Reply(r, "ok")
    /\ UNCHANGED <<objects, opened, stops>>

UpdateFile(r) ==
    /\ pc[r] = "updateFile"
    /\ IF files[The(r)] = None THEN Fails(r) /\ UNCHANGED files
       ELSE files' = [files EXCEPT ![The(r)].entity = call[r].entity] /\ Reply(r, "ok")
    /\ UNCHANGED <<objects, opened, stops>>

Stop ==
    /\ stops < MaxStops
    /\ stops' = stops + 1
    /\ pc' = [r \in Requests |-> IF pc[r] = "idle" THEN "idle" ELSE "done"]
    /\ answer' = [r \in Requests |-> IF pc[r] \in {"idle", "done"} THEN answer[r] ELSE "cut"]
    /\ UNCHANGED <<call, held, tables, opened>>

Next ==
    \/ \E r \in Requests :
          \/ Start(r) \/ Put(r) \/ Putting(r) \/ InsertFile(r) \/ Tell(r) \/ FindFile(r) \/ Exists(r)
          \/ Open(r) \/ Size(r) \/ DeleteObject(r) \/ DeleteFile(r) \/ UpdateFile(r)
    \/ Stop

Spec == Init /\ [][Next]_vars

-----------------------------------------------------------------------------
(***************************************************************************)
(* Properties                                                              *)
(***************************************************************************)

Downloads == {r \in Requests : Kind(r) = "download"}

Got(r) ==
    IF r \notin Downloads THEN "none"
    ELSE IF answer[r] = "ok" THEN "content"
    ELSE IF answer[r] = "notFound" THEN "missing"
    ELSE IF answer[r] \in {"notInStorage", "error"} THEN "failed"
    ELSE IF answer[r] = "cut" THEN "cut"
    ELSE IF r \in opened THEN "opened"
    ELSE "none"
Gotten == [r \in Requests |-> Got(r)]

Listed ==
    [f \in FileIds |->
        IF files[f] = None THEN None
        ELSE [by |-> files[f].by, entity |-> files[f].entity, whole |-> objects[f] = "whole" /\ Within]]
Removing == {<<The(r), call[r].by>> : r \in At("deleteObject") \cup At("deleteFile")}
Wants == [r \in Requests |-> IF r \in Downloads THEN The(r) ELSE None]

Store == INSTANCE FileStore WITH
    Calls <- Requests, Nothing <- None,
    listed <- Listed, removing <- Removing, wants <- Wants, got <- Gotten

\* Nothing is stored that is not listed, but for what an upload is storing, or
\* was when it ended with an error or a stop.
StoredIsListed ==
    \A f \in FileIds :
        objects[f] # "none" /\ files[f] = None =>
            \E r \in Requests : Kind(r) = "upload" /\ The(r) = f /\ answer[r] \in {"none", "error", "cut"}

\* The files implement the store they promise, and nothing else is left behind.
FilesImplement == Store!Spec /\ []StoredIsListed

=============================================================================

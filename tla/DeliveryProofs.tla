------------------------------ MODULE DeliveryProofs ------------------------------
(***************************************************************************)
(* Files implements FileStore, for any users, files, entities and calls,   *)
(* where the storage finds what it stored (Within); and the notices tell   *)
(* who is to be told, once, for any users, entities, rooms and deeds, with *)
(* any number of jobs in the queue and of stops.                           *)
(***************************************************************************)
EXTENDS MCDelivery, SequenceTheorems, FiniteSetTheorems, TLAPS

-----------------------------------------------------------------------------
(***************************************************************************)
(* The inductive invariant                                                 *)
(***************************************************************************)

Uploads == {r \in Requests : Kind(r) = "upload"}
Storing == {"put", "putting", "insertFile"}
Changing == {"deleteObject", "deleteFile", "updateFile"}

\* Where a request is says what it was called with.
CallOK ==
    \A r \in Requests :
        /\ pc[r] = "idle" <=> call[r] = NoCall
        /\ pc[r] # "idle" => call[r] \in FileCalls
        /\ pc[r] \in Storing \cup {"tell"} <=> r \in Uploads /\ pc[r] # "done"
        /\ pc[r] \in {"exists", "open", "size"} => Kind(r) = "download"
        /\ pc[r] \in {"deleteObject", "deleteFile"} => Kind(r) = "delete"
        /\ pc[r] = "updateFile" => Kind(r) = "move"
        /\ pc[r] \in {"putting", "insertFile", "updateFile"} => call[r].entity \in Entities
        /\ pc[r] = "done" <=> answer[r] # "none"

\* A file has one upload at most, and what was there at first has none.
OneUpload ==
    \A r \in Uploads :
        /\ The(r) \notin DOMAIN SeedFiles
        /\ \A q \in Uploads : The(q) = The(r) => q = r

\* Nobody is uploading the file any more.
Known(f) ==
    \/ f \in DOMAIN SeedFiles
    \/ \E r \in Uploads : The(r) = f /\ pc[r] \in {"tell", "done"}

\* A row is that of a whole file, or of one a deletion has emptied; whoever
\* found it deals with a file that nobody is uploading.
RowsKnown ==
    /\ \A f \in FileIds : files[f] # None => Known(f) /\ objects[f] \in {"none", "whole"}
    /\ \A r \in Requests : pc[r] \in {"exists", "open", "size"} \cup Changing =>
          /\ Known(The(r))
          /\ files[The(r)] # None \/ objects[The(r)] = "none"
          /\ pc[r] \in Changing /\ files[The(r)] # None => MayChange(r)
          /\ pc[r] = "deleteFile" => objects[The(r)] = "none"
    /\ \A r \in Requests : pc[r] = "insertFile" => objects[The(r)] = "whole"

\* A stream is open from the first read to the end of the call.
OpenedOK ==
    \A r \in Requests :
        /\ r \in opened => pc[r] \in {"size", "done"}
        /\ pc[r] = "size" => r \in opened

\* What is stored without a row is what an upload is storing, or left.
Stored ==
    \A f \in FileIds : objects[f] # "none" /\ files[f] = None =>
        \E r \in Uploads : /\ The(r) = f
                           /\ \/ pc[r] \in {"putting", "insertFile"}
                              \/ pc[r] = "done" /\ answer[r] \in {"error", "cut"}

IInv ==
    /\ TypeOK
    /\ CallOK
    /\ OneUpload
    /\ RowsKnown
    /\ OpenedOK
    /\ Stored

-----------------------------------------------------------------------------
(***************************************************************************)
(* Initially                                                               *)
(***************************************************************************)

LEMMA CallTypes ==
    ASSUME FilesAssumption
    PROVE  /\ \A c \in FileCalls :
                  /\ c.kind \in {"upload", "download", "delete", "move"}
                  /\ c.by \in Users /\ c.file \in FileIds
                  /\ c.kind \in {"upload", "move"} => c.entity \in Where
           /\ NoCall \notin FileCalls
BY DEF FilesAssumption, FileCall, NoCall

LEMMA RowTypes ==
    ASSUME FilesAssumption
    PROVE  /\ \A row \in File : row # None /\ row.by \in Users /\ row.entity \in Entities
           /\ \A u \in Users, e \in Entities : [by |-> u, entity |-> e] \in File
BY DEF FilesAssumption, File

LEMMA IInvInit == ASSUME FilesAssumption PROVE Init => IInv
<1> SUFFICES ASSUME Init PROVE IInv
  OBVIOUS
<1>1. TypeOK
  BY DEF Init, HandlersInit, TypeOK, Handling, FilesAssumption
<1>2. \A r \in Requests : /\ pc[r] = "idle" /\ call[r] = NoCall /\ answer[r] = "none"
                          /\ r \notin Uploads /\ r \notin opened
  BY DEF Init, HandlersInit, Uploads, Kind, NoCall
<1>3. CallOK /\ OneUpload /\ OpenedOK
  BY <1>2 DEF CallOK, OneUpload, OpenedOK, Uploads, Storing
<1>4. RowsKnown /\ Stored
  BY <1>2, RowTypes DEF Init, RowsKnown, Stored, Known, Changing, FilesAssumption
<1> QED BY <1>1, <1>3, <1>4 DEF IInv

-----------------------------------------------------------------------------
(***************************************************************************)
(* Types                                                                   *)
(***************************************************************************)

LEMMA TypedStep ==
    ASSUME FilesAssumption, TypeOK, CallOK, [Next]_vars
    PROVE  TypeOK' /\ CallOK'
<1> USE CallTypes
    DEF TypeOK, Handling, Begin, Continue, Goto, Reply, Fails, tables, handlers, The, Kind
<1>1. ASSUME NEW r \in Requests, Start(r) PROVE TypeOK' /\ CallOK'
  <2>1. PICK c \in FileCalls : Begin(r, c, IF c.kind = "upload" THEN "put" ELSE "findFile")
    BY <1>1 DEF Start
  <2>2. TypeOK'
    BY <1>1, <2>1 DEF Start
  <2>3. CallOK'
    BY <1>1, <2>1 DEF Start, CallOK, Uploads, Storing
  <2> QED BY <2>2, <2>3
<1>2. ASSUME NEW r \in Requests, Put(r) \/ Putting(r) PROVE TypeOK' /\ CallOK'
  <2>1. TypeOK'
    BY <1>2 DEF Put, Putting, PutBegins, PutEnds
  <2>2. CallOK'
    BY <1>2 DEF Put, Putting, Valid, CallOK, Uploads, Storing
  <2> QED BY <2>1, <2>2
<1>3. ASSUME NEW r \in Requests, InsertFile(r) \/ Tell(r) PROVE TypeOK' /\ CallOK'
  <2>1. pc[r] = "insertFile" => The(r) \in FileIds /\ [by |-> call[r].by, entity |-> call[r].entity] \in File
    BY RowTypes DEF CallOK
  <2>2. TypeOK'
    BY <1>3, <2>1 DEF InsertFile, Tell
  <2>3. CallOK'
    BY <1>3 DEF InsertFile, Tell, CallOK, Uploads, Storing
  <2> QED BY <2>2, <2>3
<1>4. ASSUME NEW r \in Requests, FindFile(r) PROVE TypeOK' /\ CallOK'
  <2>1. TypeOK'
    BY <1>4 DEF FindFile
  <2>2. CallOK'
    BY <1>4 DEF FindFile, CallOK, Uploads, Storing
  <2> QED BY <2>1, <2>2
<1>5. ASSUME NEW r \in Requests, Exists(r) \/ Open(r) \/ Size(r) PROVE TypeOK' /\ CallOK'
  <2>1. TypeOK'
    BY <1>5 DEF Exists, Open, Size
  <2>2. CallOK'
    BY <1>5 DEF Exists, Open, Size, CallOK, Uploads, Storing
  <2> QED BY <2>1, <2>2
<1>6. ASSUME NEW r \in Requests, DeleteObject(r) \/ DeleteFile(r) PROVE TypeOK' /\ CallOK'
  <2>1. TypeOK'
    BY <1>6 DEF DeleteObject, DeleteFile, Drop
  <2>2. CallOK'
    BY <1>6 DEF DeleteObject, DeleteFile, CallOK, Uploads, Storing
  <2> QED BY <2>1, <2>2
<1>7. ASSUME NEW r \in Requests, UpdateFile(r) PROVE TypeOK' /\ CallOK'
  <2>1. The(r) \in FileIds /\ call[r].entity \in Entities
    BY <1>7 DEF UpdateFile, CallOK
  <2>2. files[The(r)] # None => [files[The(r)] EXCEPT !.entity = call[r].entity] \in File
    BY <2>1 DEF File
  <2>3. TypeOK'
    BY <1>7, <2>1, <2>2 DEF UpdateFile
  <2>4. CallOK'
    BY <1>7 DEF UpdateFile, CallOK, Uploads, Storing
  <2> QED BY <2>3, <2>4
<1>8. CASE Stop
  <2>1. TypeOK'
    BY <1>8 DEF Stop, FilesAssumption
  <2>2. CallOK'
    BY <1>8 DEF Stop, CallOK, Uploads, Storing
  <2> QED BY <2>1, <2>2
<1>9. CASE UNCHANGED vars
  BY <1>9 DEF vars, CallOK, Uploads
<1> QED BY <1>1, <1>2, <1>3, <1>4, <1>5, <1>6, <1>7, <1>8, <1>9 DEF Next


-----------------------------------------------------------------------------
(***************************************************************************)
(* The parts of the invariant, step by step                                *)
(***************************************************************************)

LEMMA OneUploadStep ==
    ASSUME FilesAssumption, TypeOK, CallOK, OneUpload, [Next]_vars
    PROVE  OneUpload'
<1> USE DEF TypeOK, Handling, OneUpload, Uploads, The, Kind
<1>1. ASSUME NEW r \in Requests, Start(r) PROVE OneUpload'
  <2>1. PICK c \in FileCalls : FreshId(c) /\ call' = [call EXCEPT ![r] = c]
    BY <1>1 DEF Start, Begin
  <2> QED BY <2>1 DEF FreshId
<1>2. ~(\E r \in Requests : Start(r)) => call' = call
  BY DEF Next, vars, handlers, Put, Putting, InsertFile, Tell, FindFile, Exists, Open, Size,
         DeleteObject, DeleteFile, UpdateFile, Stop, Continue, Goto, Reply, Fails
<1> QED BY <1>1, <1>2

\* An upload that has stored its row, or ended, has done so for good.
LEMMA KnownStays ==
    ASSUME FilesAssumption, TypeOK, CallOK, [Next]_vars, NEW f, Known(f)
    PROVE  Known(f)'
<1> SUFFICES ASSUME NEW u \in Uploads, The(u) = f, pc[u] \in {"tell", "done"}
             PROVE  u \in Uploads' /\ The(u)' = f /\ pc'[u] \in {"tell", "done"}
  BY DEF Known
<1> USE DEF TypeOK, Handling, Uploads, The, Kind
<1>1. \A r \in Requests : Start(r) => call'[u] = call[u] /\ pc'[u] = pc[u]
  BY DEF Start, Begin
<1>2. \A r \in Requests :
          \/ Put(r) \/ Putting(r) \/ InsertFile(r) \/ Tell(r) \/ FindFile(r) \/ Exists(r) \/ Open(r)
          \/ Size(r) \/ DeleteObject(r) \/ DeleteFile(r) \/ UpdateFile(r)
          => call' = call /\ pc'[u] \in {"tell", "done"}
  BY DEF Put, Putting, InsertFile, Tell, FindFile, Exists, Open, Size, DeleteObject, DeleteFile,
         UpdateFile, Continue, Goto, Reply, Fails
<1>3. Stop \/ UNCHANGED vars => call' = call /\ pc'[u] \in {"tell", "done"}
  BY DEF Stop, vars, handlers
<1> QED BY <1>1, <1>2, <1>3 DEF Next

\* Nobody uploads a known file.
LEMMA KnownIsStored ==
    ASSUME OneUpload, NEW r \in Uploads, pc[r] \in Storing
    PROVE  ~Known(The(r))
BY DEF OneUpload, Known, Storing

LEMMA OpenedStep ==
    ASSUME TypeOK, OpenedOK, [Next]_vars
    PROVE  OpenedOK'
<1> USE DEF TypeOK, Handling, OpenedOK, Begin, Continue, Goto, Reply, Fails, tables
<1>1. ASSUME NEW r \in Requests, Start(r) PROVE OpenedOK'
  BY <1>1 DEF Start
<1>2. ASSUME NEW r \in Requests, Put(r) \/ Putting(r) \/ InsertFile(r) \/ Tell(r) PROVE OpenedOK'
  BY <1>2 DEF Put, Putting, InsertFile, Tell
<1>3. ASSUME NEW r \in Requests, FindFile(r) \/ Exists(r) \/ Open(r) \/ Size(r) PROVE OpenedOK'
  BY <1>3 DEF FindFile, Exists, Open, Size
<1>4. ASSUME NEW r \in Requests, DeleteObject(r) \/ DeleteFile(r) \/ UpdateFile(r) PROVE OpenedOK'
  BY <1>4 DEF DeleteObject, DeleteFile, UpdateFile
<1>5. CASE Stop \/ UNCHANGED vars
  BY <1>5 DEF Stop, vars, handlers
<1> QED BY <1>1, <1>2, <1>3, <1>4, <1>5 DEF Next


\* A file that is being uploaded is not one that another request deals with.
LEMMA StoringAlone ==
    ASSUME FilesAssumption, TypeOK, CallOK, OneUpload, RowsKnown,
           NEW r \in Requests, pc[r] \in Storing
    PROVE  /\ The(r) \in FileIds /\ files[The(r)] = None /\ r \in Uploads
           /\ \A q \in Requests :
                 pc[q] \in {"exists", "open", "size"} \cup Changing => The(q) # The(r)
           /\ \A q \in Requests : pc[q] = "insertFile" /\ q # r => The(q) # The(r)
<1>1. r \in Uploads /\ The(r) \in FileIds
  BY CallTypes DEF CallOK, Storing, The
<1>2. ~Known(The(r))
  BY <1>1, KnownIsStored
<1>3. \A q \in Requests : pc[q] = "insertFile" => q \in Uploads
  BY DEF CallOK, Storing
<1> QED BY <1>1, <1>2, <1>3 DEF RowsKnown, OneUpload

LEMMA RowMoved ==
    ASSUME FilesAssumption, TypeOK, CallOK, NEW r \in Requests, pc[r] = "updateFile",
           files[The(r)] # None
    PROVE  [files[The(r)] EXCEPT !.entity = call[r].entity] \in File \ {None}
<1>1. The(r) \in FileIds /\ call[r].entity \in Entities
  BY CallTypes DEF CallOK, The
<1>2. files[The(r)] \in File
  BY <1>1 DEF TypeOK
<1> QED BY <1>1, <1>2, RowTypes DEF File

LEMMA RowsKnownStep ==
    ASSUME FilesAssumption, Within, TypeOK, CallOK, OneUpload, RowsKnown, [Next]_vars
    PROVE  RowsKnown'
<1>1. \A f \in FileIds : Known(f) => Known(f)'
  BY KnownStays
<1>2. \A r \in Requests : pc[r] # "idle" => The(r) \in FileIds
  BY CallTypes DEF CallOK, The
<1> USE <1>1, <1>2
    DEF TypeOK, Handling, RowsKnown, Begin, Continue, Goto, Reply, Fails, tables, handlers, The,
        MayChange, Changing
<1>3. ASSUME NEW r \in Requests, Start(r) PROVE RowsKnown'
  BY <1>3 DEF Start
<1>4. ASSUME NEW r \in Requests, Put(r) \/ Putting(r) PROVE RowsKnown'
  <2>1. pc[r] \in Storing
    BY <1>4 DEF Put, Putting, Storing
  <2> QED BY <1>4, <2>1, StoringAlone DEF Put, Putting, PutBegins, PutEnds
<1>5. ASSUME NEW r \in Requests, InsertFile(r) PROVE RowsKnown'
  <2>1. pc[r] \in Storing
    BY <1>5 DEF InsertFile, Storing
  <2>2. files'[The(r)] # None => Known(The(r))'
    BY <1>5, <2>1, StoringAlone DEF InsertFile, Known, Uploads, Kind
  <2> QED BY <1>5, <2>1, <2>2, StoringAlone DEF InsertFile
<1>6. ASSUME NEW r \in Requests, Tell(r) \/ FindFile(r) PROVE RowsKnown'
  BY <1>6 DEF Tell, FindFile
<1>7. ASSUME NEW r \in Requests, Exists(r) \/ Open(r) \/ Size(r) PROVE RowsKnown'
  BY <1>7 DEF Exists, Open, Size
<1>8. ASSUME NEW r \in Requests, DeleteObject(r) PROVE RowsKnown'
  <2>1. \A q \in Requests : pc[q] = "insertFile" => The(q) # The(r)
    BY <1>8, StoringAlone DEF DeleteObject, Storing
  <2>2. objects' = objects \/ objects' = [objects EXCEPT ![The(r)] = "none"]
    BY <1>8 DEF DeleteObject, Drop
  <2>3. pc'[r] = "deleteFile" => objects'[The(r)] = "none"
    BY <1>8 DEF DeleteObject, Drop, Has
  <2> QED BY <1>8, <2>1, <2>2, <2>3 DEF DeleteObject
<1>9. ASSUME NEW r \in Requests, DeleteFile(r) PROVE RowsKnown'
  BY <1>9 DEF DeleteFile
<1>10. ASSUME NEW r \in Requests, UpdateFile(r) PROVE RowsKnown'
  <2>1. files[The(r)] # None => [files[The(r)] EXCEPT !.entity = call[r].entity].by = files[The(r)].by
    BY <1>10 DEF UpdateFile, File
  <2>2. \A f \in FileIds : /\ files'[f] # None <=> files[f] # None
                           /\ files[f] # None => files'[f].by = files[f].by
    <3>1. CASE files[The(r)] = None
      BY <1>10, <3>1 DEF UpdateFile
    <3>2. CASE files[The(r)] # None
      <4> DEFINE row == [files[The(r)] EXCEPT !.entity = call[r].entity]
      <4>1. row # None /\ row.by = files[The(r)].by
        BY <1>10, <2>1, <3>2, RowMoved DEF UpdateFile
      <4>2. files' = [files EXCEPT ![The(r)] = row]
        BY <1>10, <3>2 DEF UpdateFile
      <4> HIDE DEF row
      <4> QED BY <3>2, <4>1, <4>2
    <3> QED BY <3>1, <3>2
  <2>3. objects' = objects /\ call' = call /\ pc' = [pc EXCEPT ![r] = "done"]
    BY <1>10 DEF UpdateFile
  <2> QED BY <2>2, <2>3
<1>11. CASE Stop \/ UNCHANGED vars
  BY <1>11 DEF Stop, vars
<1> QED BY <1>3, <1>4, <1>5, <1>6, <1>7, <1>8, <1>9, <1>10, <1>11 DEF Next

LEMMA StoredStep ==
    ASSUME FilesAssumption, Within, TypeOK, CallOK, OneUpload, RowsKnown, Stored, [Next]_vars
    PROVE  Stored'
<1>1. \A r \in Requests : pc[r] # "idle" => The(r) \in FileIds
  BY CallTypes DEF CallOK, The
<1> USE <1>1
    DEF TypeOK, Handling, Stored, Uploads, Begin, Continue, Goto, Reply, Fails, tables, handlers,
        The, Kind
<1>2. ASSUME NEW r \in Requests, Start(r) PROVE Stored'
  BY <1>2 DEF Start
<1>3. ASSUME NEW r \in Requests, Put(r) \/ Putting(r) PROVE Stored'
  <2>1. pc[r] \in Storing
    BY <1>3 DEF Put, Putting, Storing
  <2> QED BY <1>3, <2>1, StoringAlone DEF Put, Putting, PutBegins, PutEnds
<1>4. ASSUME NEW r \in Requests, InsertFile(r) PROVE Stored'
  <2>1. pc[r] \in Storing
    BY <1>4 DEF InsertFile, Storing
  <2>2. files'[The(r)] # None \/ Fails(r)
    <3>1. call[r].by \in Users /\ call[r].entity \in Entities
      BY <1>4, CallTypes DEF InsertFile, CallOK
    <3>2. [by |-> call[r].by, entity |-> call[r].entity] # None
      BY <3>1, RowTypes
    <3> QED BY <1>4, <3>2 DEF InsertFile
  <2> QED BY <1>4, <2>1, <2>2, StoringAlone DEF InsertFile
<1>5. ASSUME NEW r \in Requests, Tell(r) \/ FindFile(r) PROVE Stored'
  BY <1>5 DEF Tell, FindFile
<1>6. ASSUME NEW r \in Requests, Exists(r) \/ Open(r) \/ Size(r) PROVE Stored'
  BY <1>6 DEF Exists, Open, Size
<1>7. ASSUME NEW r \in Requests, DeleteObject(r) PROVE Stored'
  BY <1>7 DEF DeleteObject, Drop
<1>8. ASSUME NEW r \in Requests, DeleteFile(r) PROVE Stored'
  <2>1. r \notin Uploads /\ objects[The(r)] = "none"
    BY <1>8 DEF DeleteFile, RowsKnown, CallOK, Changing
  <2>2. \A f \in FileIds : files'[f] = None => f = The(r) \/ files[f] = None
    BY <1>8 DEF DeleteFile
  <2>3. objects' = objects /\ call' = call /\ \A u \in Uploads : pc'[u] = pc[u] /\ answer'[u] = answer[u]
    BY <1>8, <2>1 DEF DeleteFile
  <2> QED BY <2>1, <2>2, <2>3
<1>9. ASSUME NEW r \in Requests, UpdateFile(r) PROVE Stored'
  <2>1. r \notin Uploads
    BY <1>9 DEF UpdateFile, CallOK
  <2>2. \A f \in FileIds : files'[f] = None => files[f] = None
    BY <1>9, RowMoved DEF UpdateFile
  <2>3. objects' = objects /\ call' = call /\ \A u \in Uploads : pc'[u] = pc[u] /\ answer'[u] = answer[u]
    BY <1>9, <2>1 DEF UpdateFile
  <2> QED BY <2>2, <2>3
<1>10. CASE Stop \/ UNCHANGED vars
  BY <1>10 DEF Stop, vars
<1> QED BY <1>2, <1>3, <1>4, <1>5, <1>6, <1>7, <1>8, <1>9, <1>10 DEF Next

LEMMA IInvStep == ASSUME FilesAssumption, Within PROVE IInv /\ [Next]_vars => IInv'
BY TypedStep, OneUploadStep, RowsKnownStep, OpenedStep, StoredStep DEF IInv


-----------------------------------------------------------------------------
(***************************************************************************)
(* The store that the files stand for                                      *)
(***************************************************************************)

Deleting(r) == pc[r] \in {"deleteObject", "deleteFile"}

\* What a file stands for depends on its row and on whether its object is whole.
LEMMA ListedSame ==
    ASSUME \A f \in FileIds :
              /\ files'[f] = files[f]
              /\ files[f] # None => (objects'[f] = "whole" <=> objects[f] = "whole")
    PROVE  Listed' = Listed
BY DEF Listed

LEMMA ListedOne ==
    ASSUME Within, NEW f \in FileIds,
           \A g \in FileIds \ {f} : files'[g] = files[g] /\ objects'[g] = objects[g]
    PROVE  /\ Listed' = [Listed EXCEPT ![f] = Listed'[f]]
           /\ Listed[f] = IF files[f] = None THEN None
                          ELSE [by |-> files[f].by, entity |-> files[f].entity,
                                whole |-> objects[f] = "whole"]
           /\ Listed'[f] = IF files'[f] = None THEN None
                           ELSE [by |-> files'[f].by, entity |-> files'[f].entity,
                                 whole |-> objects'[f] = "whole"]
BY DEF Listed

LEMMA ListedFields ==
    ASSUME FilesAssumption, Within, TypeOK, NEW f \in FileIds
    PROVE  /\ files[f] = None => Listed[f] = None
           /\ files[f] # None => /\ Listed[f] \in ListedFile /\ Listed[f] # None
                                /\ Listed[f].by = files[f].by /\ Listed[f].entity = files[f].entity
                                /\ Listed[f].whole = (objects[f] = "whole")
<1>1. CASE files[f] = None
  BY <1>1 DEF Listed
<1>2. CASE files[f] # None
  <2>1. files[f].by \in Users /\ files[f].entity \in Entities
    BY <1>2, RowTypes DEF TypeOK
  <2>2. Listed[f] = [by |-> files[f].by, entity |-> files[f].entity, whole |-> objects[f] = "whole"]
    BY <1>2 DEF Listed
  <2>3. Listed[f] \in ListedFile
    BY <2>1, <2>2 DEF ListedFile
  <2> QED BY <1>2, <2>2, <2>3 DEF FilesAssumption
<1> QED BY <1>1, <1>2

LEMMA ListedEqual ==
    ASSUME NEW x \in ListedFile, NEW y \in ListedFile,
           x.by = y.by, x.entity = y.entity, x.whole = y.whole
    PROVE  x = y
BY DEF ListedFile

LEMMA ListedChanged ==
    ASSUME NEW x \in ListedFile
    PROVE  /\ [x EXCEPT !.whole = FALSE] = [by |-> x.by, entity |-> x.entity, whole |-> FALSE]
           /\ \A e \in Entities :
                 [x EXCEPT !.entity = e] = [by |-> x.by, entity |-> e, whole |-> x.whole]
<1>1. [x EXCEPT !.whole = FALSE] = [by |-> x.by, entity |-> x.entity, whole |-> FALSE]
  <2> DEFINE y == [x EXCEPT !.whole = FALSE]
             z == [by |-> x.by, entity |-> x.entity, whole |-> FALSE]
  <2>1. y \in ListedFile /\ z \in ListedFile /\ y.by = z.by /\ y.entity = z.entity /\ y.whole = z.whole
    BY DEF ListedFile
  <2> HIDE DEF y, z
  <2>2. y = z
    BY <2>1, ListedEqual
  <2> QED BY <2>2 DEF y, z
<1>2. ASSUME NEW e \in Entities
      PROVE  [x EXCEPT !.entity = e] = [by |-> x.by, entity |-> e, whole |-> x.whole]
  <2> DEFINE y == [x EXCEPT !.entity = e]
             z == [by |-> x.by, entity |-> e, whole |-> x.whole]
  <2>1. y \in ListedFile /\ z \in ListedFile /\ y.by = z.by /\ y.entity = z.entity /\ y.whole = z.whole
    BY DEF ListedFile
  <2> HIDE DEF y, z
  <2>2. y = z
    BY <2>1, ListedEqual
  <2> QED BY <2>2 DEF y, z
<1> QED BY <1>1, <1>2

LEMMA RemovingLess ==
    ASSUME \A q \in Requests : Deleting(q)' => Deleting(q) /\ call'[q] = call[q]
    PROVE  Removing' \subseteq Removing
BY DEF Removing, Deleting, At, The

LEMMA RemovingMore ==
    ASSUME \A q \in Requests : Deleting(q) => Deleting(q)' /\ call'[q] = call[q]
    PROVE  Removing \subseteq Removing'
BY DEF Removing, Deleting, At, The

LEMMA RemovingHas ==
    ASSUME NEW r \in Requests, Deleting(r)
    PROVE  <<The(r), call[r].by>> \in Removing
BY DEF Removing, Deleting, At

\* A call that is no download is of no account to the downloads.
LEMMA NoDownload ==
    ASSUME TypeOK, NEW r \in Requests, r \notin Downloads, call' = call,
           opened' = opened,
           \A q \in Requests \ {r} : answer'[q] = answer[q]
    PROVE  Wants' = Wants /\ Gotten' = Gotten
<1>1. Downloads' = Downloads
  BY DEF Downloads, Kind
<1>2. \A q \in Requests : Got(q)' = Got(q)
  BY <1>1 DEF Got
<1> QED BY <1>1, <1>2 DEF Wants, Gotten, The

LEMMA OwnDownload ==
    ASSUME TypeOK, NEW r \in Downloads, call' = call,
           \A q \in Requests \ {r} : answer'[q] = answer[q] /\ (q \in opened' <=> q \in opened)
    PROVE  /\ Wants' = Wants /\ Wants[r] = The(r)
           /\ Gotten' = [Gotten EXCEPT ![r] = Gotten'[r]]
           /\ Gotten[r] = Got(r) /\ Gotten'[r] = Got(r)'
<1>1. Downloads' = Downloads /\ Downloads \subseteq Requests
  BY DEF Downloads, Kind
<1>2. \A q \in Requests \ {r} : Got(q)' = Got(q)
  BY <1>1 DEF Got
<1> QED BY <1>1, <1>2 DEF Wants, Gotten, The


LEMMA StoreInit == ASSUME FilesAssumption, Within PROVE Init => Store!Init
<1> SUFFICES ASSUME Init PROVE Store!Init
  OBVIOUS
<1>1. \A r \in Requests : pc[r] = "idle" /\ r \notin Downloads
  BY DEF Init, HandlersInit, Downloads, Kind, NoCall
<1>2. Listed \in [FileIds -> {None} \cup [by: Users, entity: Entities, whole: {TRUE}]]
  <2> SUFFICES ASSUME NEW f \in FileIds, files[f] # None
               PROVE  Listed[f] \in [by: Users, entity: Entities, whole: {TRUE}]
    BY DEF Listed
  <2>1. f \in DOMAIN SeedFiles /\ files[f] = SeedFiles[f] /\ objects[f] = "whole"
    BY DEF Init
  <2>2. files[f].by \in Users /\ files[f].entity \in Entities
    BY <2>1, RowTypes DEF FilesAssumption
  <2> QED BY <2>1, <2>2 DEF Listed
<1>3. Removing = {}
  BY <1>1 DEF Removing, At
<1>4. Wants = [q \in Requests |-> None] /\ Gotten = [q \in Requests |-> "none"]
  BY <1>1 DEF Wants, Gotten, Got
<1> QED BY <1>2, <1>3, <1>4 DEF Store!Init

\* The four variables of the store.
StoreSame == Listed' = Listed /\ Removing' = Removing /\ Wants' = Wants /\ Gotten' = Gotten
StoreStep == Store!Next \/ StoreSame

\* A call that arrives asks for a file, or is not seen by the store.
LEMMA StartStep ==
    ASSUME FilesAssumption, IInv, NEW r \in Requests, Start(r)
    PROVE  StoreStep
<1> USE DEF IInv, TypeOK, Handling
<1>1. PICK c \in FileCalls : Begin(r, c, IF c.kind = "upload" THEN "put" ELSE "findFile")
  BY DEF Start
<1>2. call[r] = NoCall /\ r \notin Downloads /\ answer[r] = "none" /\ r \notin opened
  BY <1>1 DEF Begin, CallOK, OpenedOK, Downloads, Kind, NoCall
<1>3. Listed' = Listed
  BY ListedSame DEF Start, tables
<1>4. Removing' = Removing
  BY <1>1, RemovingLess, RemovingMore DEF Begin, Deleting
<1>5. Downloads' \in {Downloads, Downloads \cup {r}}
  BY <1>1, <1>2 DEF Begin, Downloads, Kind
<1>6. \A q \in Requests : Got(q)' = Got(q)
  BY <1>1, <1>2, <1>5 DEF Begin, Got, Start
<1>7. Gotten' = Gotten
  BY <1>6 DEF Gotten
<1>8. CASE Downloads' = Downloads
  <2>1. Wants' = Wants
    BY <1>1, <1>2, <1>8 DEF Begin, Wants, The, Downloads, Kind
  <2> QED BY <1>3, <1>4, <1>7, <2>1 DEF StoreStep, StoreSame
<1>9. CASE Downloads' = Downloads \cup {r}
  <2>1. c.file \in FileIds
    BY CallTypes
  <2>2. Wants[r] = None /\ Wants' = [Wants EXCEPT ![r] = c.file]
    BY <1>1, <1>2, <1>9 DEF Begin, Wants, The, Downloads, Kind
  <2>3. Store!Want(r, c.file)
    BY <1>3, <1>4, <1>7, <2>2 DEF Store!Want
  <2> QED BY <2>1, <2>3 DEF StoreStep, Store!Next
<1> QED BY <1>5, <1>8, <1>9

\* An upload is seen when its row is stored, and the file is whole by then.
LEMMA UploadStep ==
    ASSUME FilesAssumption, Within, IInv, NEW r \in Requests,
           Put(r) \/ Putting(r) \/ InsertFile(r) \/ Tell(r)
    PROVE  StoreStep
<1> USE DEF IInv, TypeOK, Handling, Continue, Goto, Reply, Fails, tables, The
<1>1. /\ r \in Uploads /\ r \notin Downloads /\ call' = call /\ opened' = opened
      /\ \A q \in Requests \ {r} : pc'[q] = pc[q] /\ answer'[q] = answer[q]
      /\ pc'[r] \in {"putting", "insertFile", "tell", "done"}
  BY DEF Put, Putting, InsertFile, Tell, CallOK, Uploads, Downloads, Storing
<1>2. Wants' = Wants /\ Gotten' = Gotten
  BY <1>1, NoDownload
<1>3. Removing' = Removing
  <2>1. \A q \in Requests : Deleting(q)' <=> Deleting(q)
    BY <1>1 DEF Deleting, Put, Putting, InsertFile, Tell
  <2> QED BY <1>1, <2>1, RemovingLess, RemovingMore
<1>4. CASE Put(r) \/ Putting(r)
  <2>1. The(r) \in FileIds /\ files[The(r)] = None
    BY <1>4, StoringAlone DEF Put, Putting, Storing
  <2>2. Listed' = Listed
    BY <1>4, <2>1, ListedSame DEF Put, Putting, PutBegins, PutEnds
  <2> QED BY <1>2, <1>3, <2>2 DEF StoreStep, StoreSame
<1>5. CASE Tell(r) \/ (InsertFile(r) /\ files' = files)
  <2>1. Listed' = Listed
    BY <1>5, ListedSame DEF Tell, InsertFile
  <2> QED BY <1>2, <1>3, <2>1 DEF StoreStep, StoreSame
<1>6. CASE InsertFile(r) /\ files' # files
  <2> DEFINE f == The(r)
             u == call[r].by
             e == call[r].entity
  <2>1. f \in FileIds /\ files[f] = None /\ objects[f] = "whole" /\ objects' = objects
    BY <1>6, StoringAlone DEF InsertFile, Storing, RowsKnown
  <2>2. u \in Users /\ e \in Entities
    BY <1>6, CallTypes DEF InsertFile, CallOK
  <2>3. files' = [files EXCEPT ![f] = [by |-> u, entity |-> e]]
    BY <1>6 DEF InsertFile
  <2>4. files'[f] # None /\ files'[f].by = u /\ files'[f].entity = e
    BY <2>1, <2>2, <2>3, RowTypes
  <2>5. Listed[f] = None /\ Listed' = [Listed EXCEPT ![f] = [by |-> u, entity |-> e, whole |-> TRUE]]
    BY <2>1, <2>3, <2>4, ListedOne
  <2>6. Store!Upload(f)
    BY <1>2, <1>3, <2>2, <2>5 DEF Store!Upload
  <2> QED BY <2>1, <2>6 DEF StoreStep, Store!Next
<1> QED BY <1>4, <1>5, <1>6


\* A request that finds its file: a download may miss it, a deletion asks.
LEMMA FindStep ==
    ASSUME FilesAssumption, Within, IInv, NEW r \in Requests, FindFile(r)
    PROVE  StoreStep
<1> USE DEF IInv, TypeOK, Handling, Continue, Goto, Reply, Fails, tables
<1> DEFINE f == The(r)
<1>1. /\ pc[r] = "findFile" /\ f \in FileIds /\ f # None /\ answer[r] = "none" /\ r \notin opened
      /\ call' = call /\ opened' = opened /\ files' = files /\ objects' = objects
      /\ \A q \in Requests \ {r} : pc'[q] = pc[q] /\ answer'[q] = answer[q]
  BY CallTypes DEF FindFile, CallOK, OpenedOK, The, FilesAssumption
<1>2. Listed' = Listed
  BY <1>1, ListedSame
<1>3. CASE r \in Downloads /\ files[f] = None
  <2>1. pc' = [pc EXCEPT ![r] = "done"] /\ answer'[r] = "notFound"
    BY <1>1, <1>3 DEF FindFile
  <2>2. Removing' = Removing
    BY <1>1, <2>1, RemovingLess, RemovingMore DEF Deleting
  <2>3. Got(r) = "none" /\ Got(r)' = "missing"
    BY <1>1, <1>3, <2>1 DEF Got, Downloads, Kind
  <2>4. /\ Wants' = Wants /\ Wants[r] = f /\ Gotten[r] = "none"
        /\ Gotten' = [Gotten EXCEPT ![r] = "missing"]
    BY <1>1, <1>3, <2>3, OwnDownload
  <2>5. Listed[f] = None
    BY <1>1, <1>3 DEF Listed
  <2>6. Store!Deliver(r)
    BY <1>1, <1>2, <2>2, <2>4, <2>5 DEF Store!Deliver
  <2> QED BY <2>6 DEF StoreStep, Store!Next
<1>4. CASE r \in Downloads /\ files[f] # None
  <2>1. pc' = [pc EXCEPT ![r] = "exists"] /\ answer' = answer
    BY <1>1, <1>4 DEF FindFile, Downloads
  <2>2. Removing' = Removing
    BY <1>1, <2>1, RemovingLess, RemovingMore DEF Deleting
  <2>3. Wants' = Wants /\ Gotten' = Gotten
    BY <1>1, <2>1 DEF Wants, Gotten, Got, Downloads, Kind, The
  <2> QED BY <1>2, <2>2, <2>3 DEF StoreStep, StoreSame
<1>5. CASE r \notin Downloads /\ pc'[r] = "deleteObject"
  <2>1. Wants' = Wants /\ Gotten' = Gotten
    BY <1>1, <1>5, NoDownload
  <2>2. files[f] # None /\ files[f].by = call[r].by
    BY <1>5 DEF FindFile, MayChange, Downloads
  <2>3. Removing' = Removing \cup {<<f, files[f].by>>}
    BY <1>1, <1>5, <2>2 DEF Removing, At, The
  <2>4. Listed[f] # None /\ Listed[f].by = files[f].by
    BY <1>1, <2>2, ListedFields
  <2>5. Store!Ask(f)
    BY <1>2, <2>1, <2>3, <2>4 DEF Store!Ask
  <2> QED BY <1>1, <2>5 DEF StoreStep, Store!Next
<1>6. CASE r \notin Downloads /\ pc'[r] # "deleteObject"
  <2>1. Wants' = Wants /\ Gotten' = Gotten
    BY <1>1, <1>6, NoDownload
  <2>2. pc'[r] # "deleteFile"
    BY <1>6 DEF FindFile
  <2>3. Removing' = Removing
    BY <1>1, <1>6, <2>2, RemovingLess, RemovingMore DEF Deleting
  <2> QED BY <1>2, <2>1, <2>3 DEF StoreStep, StoreSame
<1> QED BY <1>3, <1>4, <1>5, <1>6

\* A download opens what is whole, delivers what it opened, fails before that
\* and misses only what is not listed.
LEMMA DownloadStep ==
    ASSUME FilesAssumption, Within, IInv, NEW r \in Requests, Exists(r) \/ Open(r) \/ Size(r)
    PROVE  StoreStep
<1> USE DEF IInv, TypeOK, Handling, Continue, Goto, Reply, Fails, tables
<1> DEFINE f == The(r)
<1>1. /\ r \in Downloads /\ f \in FileIds /\ f # None /\ answer[r] = "none"
      /\ call' = call /\ files' = files /\ objects' = objects
      /\ \A q \in Requests \ {r} : /\ pc'[q] = pc[q] /\ answer'[q] = answer[q]
                                   /\ q \in opened' <=> q \in opened
      /\ pc'[r] \in {"open", "size", "done"}
  BY CallTypes DEF Exists, Open, Size, CallOK, Downloads, The, FilesAssumption
<1>2. Listed' = Listed
  BY <1>1, ListedSame
<1>3. Removing' = Removing
  <2>1. \A q \in Requests : Deleting(q)' <=> Deleting(q)
    BY <1>1 DEF Deleting, Exists, Open, Size
  <2> QED BY <1>1, <2>1, RemovingLess, RemovingMore
<1>4. /\ Wants' = Wants /\ Wants[r] = f /\ Gotten' = [Gotten EXCEPT ![r] = Got(r)']
      /\ Gotten[r] = Got(r)
  BY <1>1, OwnDownload
<1>5. Got(r) = IF r \in opened THEN "opened" ELSE "none"
  BY <1>1 DEF Got
<1>6. Store!Whole(f) <=> files[f] # None /\ objects[f] = "whole"
  BY <1>1, ListedFields DEF Store!Whole
<1>7. files[f] # None \/ objects[f] = "none"
  BY DEF RowsKnown, Exists, Open, Size
<1>8. CASE pc'[r] = "open"
  <2>1. Got(r)' = Got(r)
    BY <1>1, <1>8 DEF Got, Downloads, Kind, Exists, Open, Size
  <2>2. Gotten' = Gotten
    BY <1>4, <2>1 DEF Gotten
  <2> QED BY <1>2, <1>3, <1>4, <2>2 DEF StoreStep, StoreSame
<1>9. CASE pc'[r] = "size"
  <2>1. Open(r) /\ Has(f) /\ r \in opened' /\ r \notin opened /\ answer' = answer
    BY <1>1, <1>9 DEF Exists, Open, Size, OpenedOK
  <2>2. objects[f] = "whole" /\ files[f] # None
    BY <1>1, <1>7, <2>1 DEF Has, RowsKnown
  <2>3. Got(r)' = "opened"
    BY <1>1, <2>1 DEF Got, Downloads, Kind
  <2>4. Store!Open(r)
    BY <1>1, <1>2, <1>3, <1>4, <1>5, <1>6, <2>1, <2>2, <2>3 DEF Store!Open
  <2> QED BY <2>4 DEF StoreStep, Store!Next
<1>10. CASE pc'[r] = "done" /\ answer'[r] = "ok"
  <2>1. r \in opened
    BY <1>10 DEF Exists, Open, Size, OpenedOK
  <2>2. Got(r)' = "content"
    BY <1>1, <1>10 DEF Got, Downloads, Kind
  <2>3. Store!Deliver(r)
    BY <1>1, <1>2, <1>3, <1>4, <1>5, <2>1, <2>2 DEF Store!Deliver
  <2> QED BY <2>3 DEF StoreStep, Store!Next
<1>11. CASE pc'[r] = "done" /\ answer'[r] = "notFound"
  <2>1. Listed[f] = None
    BY <1>1, <1>11 DEF Exists, Open, Size, Listed
  <2>2. Got(r)' = "missing"
    BY <1>1, <1>11 DEF Got, Downloads, Kind
  <2>3. Store!Deliver(r)
    BY <1>1, <1>2, <1>3, <1>4, <1>5, <2>1, <2>2 DEF Store!Deliver
  <2> QED BY <2>3 DEF StoreStep, Store!Next
<1>12. CASE pc'[r] = "done" /\ answer'[r] \in {"notInStorage", "error"}
  <2>1. r \notin opened
    BY <1>12 DEF Exists, Open, Size, OpenedOK
  <2>2. Got(r)' = "failed"
    BY <1>1, <1>12 DEF Got, Downloads, Kind
  <2>3. Store!Deliver(r)
    BY <1>1, <1>2, <1>3, <1>4, <1>5, <2>1, <2>2 DEF Store!Deliver
  <2> QED BY <2>3 DEF StoreStep, Store!Next
<1>13. pc'[r] = "done" => answer'[r] \in {"ok", "notFound", "notInStorage", "error"}
  BY <1>1 DEF Exists, Open, Size
<1> QED BY <1>1, <1>8, <1>9, <1>10, <1>11, <1>12, <1>13

\* A deletion empties the file of whoever asked, and then takes it off the list.
LEMMA DeleteStep ==
    ASSUME FilesAssumption, Within, IInv, NEW r \in Requests, DeleteObject(r) \/ DeleteFile(r)
    PROVE  StoreStep
<1> USE DEF IInv, TypeOK, Handling, Continue, Goto, Reply, Fails, tables
<1> DEFINE f == The(r)
<1>1. /\ Deleting(r) /\ r \notin Downloads /\ f \in FileIds /\ call' = call /\ opened' = opened
      /\ \A q \in Requests \ {r} : pc'[q] = pc[q] /\ answer'[q] = answer[q]
  BY CallTypes DEF DeleteObject, DeleteFile, CallOK, Deleting, Downloads, The
<1>2. Wants' = Wants /\ Gotten' = Gotten
  BY <1>1, NoDownload
<1>3. Removing' \subseteq Removing
  BY <1>1, RemovingLess DEF Deleting
<1>4. files[f] # None =>
        Listed[f] # None /\ <<f, Listed[f].by>> \in Removing
  <2> SUFFICES ASSUME files[f] # None
               PROVE  Listed[f] # None /\ <<f, Listed[f].by>> \in Removing
    OBVIOUS
  <2>1. Listed[f] # None /\ Listed[f].by = files[f].by
    BY <1>1, ListedFields
  <2>2. files[f].by = call[r].by
    BY <1>1 DEF RowsKnown, Deleting, Changing, MayChange
  <2> QED BY <1>1, <2>1, <2>2, RemovingHas
<1>5. CASE files' = files /\ objects' = objects
  <2>1. Listed' = Listed
    BY <1>5, ListedSame
  <2>2. Store!Give
    BY <1>2, <1>3, <2>1 DEF Store!Give, Store!Ending
  <2> QED BY <2>2 DEF StoreStep, Store!Next
<1>6. CASE files' = files /\ objects' # objects
  <2>1. objects' = [objects EXCEPT ![f] = "none"] /\ objects[f] # "none" /\ files[f] # None
    BY <1>1, <1>6 DEF DeleteObject, DeleteFile, Drop, Has, RowsKnown, Changing
  <2>2. Listed' = [Listed EXCEPT ![f].whole = FALSE]
    <3>1. Listed' = [Listed EXCEPT ![f] = Listed'[f]]
      BY <1>1, <1>6, <2>1, ListedOne
    <3>2. /\ Listed[f] \in ListedFile
          /\ Listed[f].by = files[f].by /\ Listed[f].entity = files[f].entity
      BY <1>1, <2>1, ListedFields
    <3>3. Listed'[f] = [by |-> files[f].by, entity |-> files[f].entity, whole |-> FALSE]
      BY <1>1, <1>6, <2>1, ListedOne
    <3>4. Listed'[f] = [Listed[f] EXCEPT !.whole = FALSE]
      BY <3>2, <3>3, ListedChanged
    <3> QED BY <3>1, <3>4
  <2>3. Store!Empty(f)
    BY <1>2, <1>3, <1>4, <2>1, <2>2 DEF Store!Empty, Store!Ending
  <2> QED BY <1>1, <2>3 DEF StoreStep, Store!Next
<1>7. CASE files' # files
  <2>1. DeleteFile(r) /\ files[f] # None /\ files' = [files EXCEPT ![f] = None] /\ objects' = objects
    BY <1>7 DEF DeleteObject, DeleteFile
  <2>2. objects[f] = "none"
    BY <2>1 DEF DeleteFile, RowsKnown, Changing
  <2>3. ~Listed[f].whole /\ Listed' = [Listed EXCEPT ![f] = None]
    <3>1. ~Listed[f].whole
      BY <1>1, <2>1, <2>2, ListedFields
    <3>2. files'[f] = None /\ \A g \in FileIds \ {f} : files'[g] = files[g] /\ objects'[g] = objects[g]
      BY <1>1, <2>1
    <3>3. Listed' = [Listed EXCEPT ![f] = Listed'[f]] /\ Listed'[f] = None
      BY <1>1, <3>2, ListedOne
    <3> QED BY <3>1, <3>3
  <2>4. Store!Remove(f)
    BY <1>2, <1>3, <1>4, <2>1, <2>3 DEF Store!Remove, Store!Ending
  <2> QED BY <1>1, <2>4 DEF StoreStep, Store!Next
<1> QED BY <1>5, <1>6, <1>7

LEMMA MoveStep ==
    ASSUME FilesAssumption, Within, IInv, NEW r \in Requests, UpdateFile(r)
    PROVE  StoreStep
<1> USE DEF IInv, TypeOK, Handling, Reply, Fails
<1> DEFINE f == The(r)
           e == call[r].entity
<1>1. /\ r \notin Downloads /\ f \in FileIds /\ e \in Entities /\ call' = call /\ opened' = opened
      /\ pc' = [pc EXCEPT ![r] = "done"] /\ objects' = objects
      /\ \A q \in Requests \ {r} : answer'[q] = answer[q]
  BY CallTypes DEF UpdateFile, CallOK, Downloads, The
<1>2. Wants' = Wants /\ Gotten' = Gotten
  BY <1>1, NoDownload
<1>3. Removing' = Removing
  BY <1>1, RemovingLess, RemovingMore DEF Deleting, UpdateFile
<1>4. CASE files[f] = None
  <2>1. Listed' = Listed
    BY <1>1, <1>4, ListedSame DEF UpdateFile
  <2> QED BY <1>2, <1>3, <2>1 DEF StoreStep, StoreSame
<1>5. CASE files[f] # None
  <2> DEFINE row == [files[f] EXCEPT !.entity = e]
  <2>1. row # None /\ row.by = files[f].by /\ row.entity = e
    BY <1>1, <1>5, RowMoved DEF UpdateFile, File
  <2>2. files' = [files EXCEPT ![f] = row]
    BY <1>1, <1>5 DEF UpdateFile
  <2> HIDE DEF row
  <2>3. Listed[f] # None /\ Listed' = [Listed EXCEPT ![f].entity = e]
    <3>1. /\ files'[f] = row
          /\ \A g \in FileIds \ {f} : files'[g] = files[g] /\ objects'[g] = objects[g]
      BY <1>1, <2>2
    <3>2. Listed' = [Listed EXCEPT ![f] = Listed'[f]]
      BY <1>1, <3>1, ListedOne
    <3>3. /\ Listed[f] \in ListedFile /\ Listed[f] # None
          /\ Listed[f].by = files[f].by /\ Listed[f].whole = (objects[f] = "whole")
      BY <1>1, <1>5, ListedFields
    <3>4. Listed'[f] = [by |-> row.by, entity |-> row.entity, whole |-> objects[f] = "whole"]
      <4>1. files'[f] # None
        BY <2>1, <3>1
      <4>2. Listed'[f] = [by |-> files'[f].by, entity |-> files'[f].entity, whole |-> objects'[f] = "whole"]
        BY <1>1, <3>1, <4>1, ListedOne
      <4> QED BY <1>1, <3>1, <4>2
    <3>5. Listed'[f] = [by |-> Listed[f].by, entity |-> e, whole |-> Listed[f].whole]
      BY <2>1, <3>3, <3>4
    <3>6. Listed'[f] = [Listed[f] EXCEPT !.entity = e]
      BY <1>1, <3>3, <3>5, ListedChanged
    <3> QED BY <3>2, <3>3, <3>6
  <2>4. Store!Move(f)
    BY <1>1, <1>2, <1>3, <2>3 DEF Store!Move
  <2> QED BY <1>1, <2>4 DEF StoreStep, Store!Next
<1> QED BY <1>4, <1>5

\* The process stops: what is under way ends there.
LEMMA StopStep ==
    ASSUME FilesAssumption, IInv, Stop
    PROVE  StoreStep
<1> USE DEF IInv, TypeOK, Handling, tables
<1>1. Listed' = Listed
  BY ListedSame DEF Stop
<1>2. Removing' \subseteq Removing
  BY RemovingLess DEF Stop, Deleting
<1>3. Wants' = Wants /\ Downloads' = Downloads
  BY DEF Stop, Wants, Downloads, Kind, The
<1>4. Gotten' \in [Requests -> {"none", "opened", "content", "missing", "failed", "cut"}]
  BY DEF Gotten, Got
<1>5. \A q \in Requests : Gotten'[q] # Gotten[q] => Gotten[q] \in {"none", "opened"} /\ Gotten'[q] = "cut"
  <2> SUFFICES ASSUME NEW q \in Requests, Got(q)' # Got(q)
               PROVE  Got(q) \in {"none", "opened"} /\ Got(q)' = "cut"
    BY DEF Gotten
  <2>1. q \in Downloads /\ answer[q] = "none" /\ answer'[q] = "cut"
    BY <1>3 DEF Got, Stop, CallOK
  <2> QED BY <1>3, <2>1 DEF Got
<1>6. Store!Restart
  BY <1>1, <1>2, <1>3, <1>4, <1>5 DEF Store!Restart, Store!Ending
<1> QED BY <1>6 DEF StoreStep, Store!Next

LEMMA Simulation ==
    ASSUME FilesAssumption, Within, IInv, [Next]_vars
    PROVE  [Store!Next]_(Store!vars)
<1>1. CASE UNCHANGED vars
  BY <1>1 DEF vars, tables, handlers, StoreSame, Store!vars, Listed, Removing, Wants, Gotten, Got,
              At, The, Downloads, Kind
<1>2. CASE Next
  BY <1>2, StartStep, UploadStep, FindStep, DownloadStep, DeleteStep, MoveStep, StopStep
     DEF Next, StoreStep, StoreSame, Store!vars
<1> QED BY <1>1, <1>2

-----------------------------------------------------------------------------
(***************************************************************************)
(* The theorems                                                            *)
(***************************************************************************)

LEMMA Invariance == ASSUME FilesAssumption, Within PROVE Spec => []IInv
BY IInvInit, IInvStep, FilesAssumption, Within, PTL DEF Spec

\* The variables keep their types, and where a request is says what it was called with.
LEMMA Types == ASSUME FilesAssumption PROVE Spec => [](TypeOK /\ CallOK)
<1>1. Init => TypeOK /\ CallOK
  BY IInvInit DEF IInv
<1>2. TypeOK /\ CallOK /\ [Next]_vars => (TypeOK /\ CallOK)'
  BY TypedStep
<1> QED BY <1>1, <1>2, PTL DEF Spec

\* The variables keep their types.
THEOREM TypeCorrect == ASSUME FilesAssumption PROVE Spec => []TypeOK
BY Types, PTL

\* Nothing is left in the storage but what an upload that failed has left
\* (files.service.ts).
THEOREM StorageIsListed == ASSUME FilesAssumption, Within PROVE Spec => []StoredIsListed
<1>1. IInv => StoredIsListed
  BY DEF IInv, Stored, StoredIsListed, Uploads, CallOK, Storing
<1> QED BY <1>1, Invariance, FilesAssumption, Within, PTL

\* Every step on files, objects and calls is a step of the store that FileStore
\* promises, or is not seen there (files.service.ts).
THEOREM Implementation == ASSUME FilesAssumption, Within PROVE Spec => FilesImplement
<1>1. Spec => Store!Spec
  BY StoreInit, Simulation, Invariance, FilesAssumption, Within, PTL DEF Spec, Store!Spec
<1> QED BY <1>1, StorageIsListed, FilesAssumption, Within, PTL DEF FilesImplement

-----------------------------------------------------------------------------
(***************************************************************************)
(* The handlers of a composition                                           *)
(***************************************************************************)

\* The variables of a handler are functions of the requests.
Framed ==
    /\ pc = [q \in Requests |-> pc[q]] /\ call = [q \in Requests |-> call[q]]
    /\ held = [q \in Requests |-> held[q]] /\ answer = [q \in Requests |-> answer[q]]

\* One request moves on; a call is kept from the start to the end.
Moves(r) ==
    /\ Framed'
    /\ \A q \in Requests \ {r} :
          pc'[q] = pc[q] /\ call'[q] = call[q] /\ held'[q] = held[q] /\ answer'[q] = answer[q]
    /\ pc[r] # "idle" => call'[r] = call[r]
    /\ pc[r] # "done" /\ pc'[r] # "idle"

-----------------------------------------------------------------------------
(***************************************************************************)
(* The queue: its inductive invariant                                      *)
(***************************************************************************)

JobIds == 1..Len(jobs)

\* A job that was neither refused nor cut off, and one that nobody has taken yet.
Smooth(j) == jobs[j].refusals = 0 /\ jobs[j].stalls = 0
Untouched(j) == jobs[j].state = "waiting" /\ Smooth(j)

QueueTyped ==
    /\ jobs \in Seq(N!Job) /\ Len(jobs) <= MaxJobs
    /\ waiting \in Seq(JobIds) /\ mails \in Seq(JobIds)
    /\ worker \in {None} \cup [job: JobIds, at: {"taken", "returned", "threw"}]
    /\ crashes \in 0..MaxCrashes

\* The queue has each waiting job once, and the worker an active one.
QueuePlaced ==
    /\ \A k, n \in 1..Len(waiting) : waiting[k] = waiting[n] => k = n
    /\ \A j \in JobIds : jobs[j].state = "waiting" <=> \E k \in 1..Len(waiting) : waiting[k] = j
    /\ worker # None => jobs[worker.job].state = "active"

\* What may be tried again has attempts left.
TriesLeft ==
    \A j \in JobIds :
        /\ jobs[j].state \in {"waiting", "active", "delayed"} =>
              jobs[j].refusals < N!Attempts(jobs[j].type) /\ jobs[j].stalls <= N!MaxStalled
        /\ jobs[j].state = "delayed" => jobs[j].refusals > 0

\* The mails a job may have by now: one for each time it was refused or cut off,
\* and one for the attempt that is under way or was the last.
Trying(j) ==
    \/ jobs[j].state = "completed"
    \/ jobs[j].state = "active" /\ ~(worker # None /\ worker.job = j /\ worker.at = "taken")
MailsSent ==
    \A j \in JobIds :
        /\ Cardinality(N!MailsOf(j)) <= (IF Trying(j) THEN 1 ELSE 0) + jobs[j].refusals + jobs[j].stalls
        /\ \/ jobs[j].state = "completed"
           \/ worker # None /\ worker.job = j /\ worker.at = "returned"
           => N!MailsOf(j) # {}

\* The untouched jobs are the last ones, and wait in their order.
UntouchedLast ==
    /\ \A i, j \in JobIds : Untouched(j) /\ ~Untouched(i) => i < j
    /\ \A i, j \in JobIds : \A k, n \in 1..Len(waiting) :
          k < n /\ waiting[k] = i /\ waiting[n] = j /\ Untouched(i) /\ Untouched(j) => i < j
    /\ \A i, j \in JobIds :
          worker # None /\ worker.at = "taken" /\ worker.job = j /\ Smooth(j) /\ ~Untouched(i) => i <= j
    /\ \A j \in JobIds : \A k \in 1..Len(mails) : mails[k] = j => ~Untouched(j)

QueueInv == QueueTyped /\ QueuePlaced /\ TriesLeft /\ MailsSent /\ UntouchedLast /\ N!MailsInOrder

-----------------------------------------------------------------------------
(***************************************************************************)
(* The notices: their inductive invariant                                  *)
(***************************************************************************)

EventKinds == DOMAIN N!Events
Who(r) == N!Of(r).who
MailOf(r) == N!Of(r).mail
Telling == {"gather", "look", "insert", "push", "mail", "emit"}
Reading == [left: SUBSET Users, now: Users \cup {None}]

\* Where a request is says what it was called with and what it has read.
PlacedNotice(r) ==
    /\ pc[r] = "idle" <=> call[r].kind = "none"
    /\ pc[r] = "idle" => call[r] = N!NoCall
    /\ pc[r] # "idle" => call[r] \in Deeds
    /\ pc[r] # "done" => answer[r] = "none"
    /\ pc[r] = "other" => call[r].kind \in {"remove", "leave"}
    /\ pc[r] \in {"find", "store"} \cup Telling => call[r].kind \in EventKinds
    /\ pc[r] = "find" => call[r].kind \notin N!Unasked
    /\ pc[r] \in {"store"} \cup Telling /\ call[r].kind \notin N!Unasked => call[r].subject \in Subjects
    /\ pc[r] = "store" /\ Who(r) = "early" => held[r] \in Reading /\ held[r].now = None
    /\ pc[r] \in Telling => held[r] \in Reading
    /\ pc[r] \in {"gather", "look", "insert", "push"} => Who(r) \in {"early", "row", "late", "asked"}
    /\ pc[r] \in {"push", "mail"} => held[r].now \in Users \ held[r].left
    /\ pc[r] = "mail" => MailOf(r) # None
    /\ pc[r] = "mail" /\ Who(r) = "mail" => held[r].left = {} /\ call[r].to = {held[r].now}
    /\ pc[r] = "emit" => held[r].left = {} \/ r \in vanished
    /\ pc[r] \in {"idle", "find", "store", "other"} => r \notin stored
    /\ pc[r] \in Telling => r \in stored
    /\ r \in stored => call[r].kind \in EventKinds
    /\ pc[r] = "idle" => steady[r] = {}

\* The part of the type invariant that is about one request, and that about the tables.
Labelled(r) ==
    /\ pc[r] \in {"idle", "done", "find", "store", "other"} \cup Telling
    /\ call[r] \in {N!NoCall} \cup Deeds
    /\ answer[r] \in {"none", "ok", "notFound", "forbidden", "error", "cut"}
TablesTyped ==
    /\ subjects \subseteq Subjects /\ stored \subseteq Requests /\ vanished \subseteq Requests
    /\ followers \in [Subjects -> SUBSET Users] /\ assignees \in [Subjects -> SUBSET Users]
    /\ rows \in [Requests \X Users -> N!RowStates]
    /\ steady \in [Requests -> SUBSET Users]
SocketsTyped ==
    /\ joined \in [Clients -> SUBSET N!Rooms] /\ watching \in [Clients -> SUBSET N!Rooms]
    /\ known \in [Clients -> SUBSET (N!Rooms \X Requests \X {"row", "deed"})]

\* It is in order that the request is answered "ok".
Over(r) == pc[r] = "emit" \/ (r \in stored /\ answer[r] = "ok")

\* Who is told has a row, and then a mail, if there is one to send.
RowsAndMails(r) ==
    LET noticed == N!Noticed(r)
        mailed == N!Mailed(r)
        left == held[r].left
        now == held[r].now
    IN  /\ r \notin stored \/ pc[r] \in {"gather", "look"} => noticed = {} /\ mailed = {}
        /\ pc[r] \in {"insert", "push"} \/ (pc[r] = "mail" /\ Who(r) # "mail") => noticed \cap left = {}
        /\ pc[r] = "insert" /\ MailOf(r) # None => mailed = noticed
        /\ pc[r] = "push" \/ (pc[r] = "mail" /\ Who(r) # "mail") =>
              now \in noticed /\ (MailOf(r) # None => mailed = noticed \ {now})
        /\ r \in stored /\ Who(r) = "mail" => noticed = {}
        /\ pc[r] = "mail" /\ Who(r) = "mail" => mailed = {}
        /\ r \in stored /\ MailOf(r) = None => mailed = {}
        /\ Over(r) /\ Who(r) = "mail" => mailed = call[r].to
        /\ Over(r) /\ Who(r) # "mail" /\ MailOf(r) # None => mailed = noticed
        /\ pc[r] = "done" /\ r \in stored /\ Who(r) # "mail" /\ MailOf(r) # None =>
              mailed \subseteq noticed /\ \E u \in Users : noticed \ mailed \subseteq {u}

\* No one gets two mails for one deed.
OneJob == \A i, j \in JobIds : jobs[i].deed = jobs[j].deed /\ jobs[i].to = jobs[j].to => i = j

\* A deed whose followers are to be told.
Owing(r) ==
    /\ call[r].kind \in EventKinds /\ r \notin vanished
    /\ Who(r) \in {"early", "row"} \/ (Who(r) = "late" /\ call[r].subject \in subjects)

\* Who followed its subject all the time is among those who are left to tell, or
\* told already.
FollowersAhead(r) ==
    /\ pc[r] = "store" /\ Who(r) = "early" => steady[r] \subseteq held[r].left
    /\ pc[r] = "gather" /\ Who(r) \in {"early", "row"} => steady[r] \subseteq held[r].left
    /\ pc[r] \in {"look", "insert", "push", "mail"} /\ Owing(r) =>
          N!Told(r, steady[r]) \subseteq held[r].left \cup N!Noticed(r)
    /\ Over(r) /\ Owing(r) => N!Told(r, steady[r]) \subseteq N!Noticed(r)

\* Who followed it all the time follows it now.
SteadyStand ==
    \A r \in Requests : call[r].kind \in EventKinds /\ steady[r] # {} =>
        call[r].subject \in Subjects /\ steady[r] \subseteq followers[call[r].subject]

\* A row is created once, before any call names it.
CreatedFirst ==
    /\ \A s \in Fresh : s \in subjects => \E q \in Requests : call[q].kind \in N!Creating /\ call[q].subject = s
    /\ \A q \in Requests : call[q].kind \in N!Creating =>
          /\ \A r \in Requests : call[r].kind \in N!Creating /\ call[r].subject = call[q].subject => r = q
          /\ pc[q] = "store" => call[q].subject \notin subjects
          /\ pc[q] = "store" => \A r \in Requests : call[r].kind \in EventKinds \ N!Creating
                                    /\ call[r].subject = call[q].subject => steady[r] = {}

RequestInv(r) == Labelled(r) /\ PlacedNotice(r) /\ RowsAndMails(r) /\ FollowersAhead(r)

NoticeInv ==
    /\ Framed /\ TablesTyped /\ OneJob /\ SteadyStand /\ CreatedFirst
    /\ \A r \in Requests : RequestInv(r)

\* Who watches the room of its notifications knows them, but the one that is about
\* to be pushed; who watches another room knows the deeds that were answered "ok".
RowsSeen ==
    \A u \in Clients, r \in Requests :
        N!UserRoom(u) \in watching[u] /\ rows[<<r, u>>] \in {"unread", "read"} =>
            <<N!UserRoom(u), r, "row">> \in known[u] \/ (pc[r] = "push" /\ held[r].now = u)
DeedsSeen ==
    \A u \in Clients, r \in stored : \A room \in watching[u] :
        room.type # "user" /\ room \in N!RoomsOf(r) =>
            <<room, r, "deed">> \in known[u] \/ pc[r] # "done" \/ answer[r] # "ok"

\* Who watches a room has joined it, and was shown only what is stored.
Watchers ==
    /\ SocketsTyped
    /\ \A u \in Clients : watching[u] \subseteq joined[u] /\ joined[u] \subseteq N!Joinable(u)
    /\ \A u \in Clients, r \in Requests : <<N!UserRoom(u), r, "row">> \in known[u] => u \in N!Noticed(r)
    /\ RowsSeen /\ DeedsSeen

DeliveryInv == QueueInv /\ NoticeInv /\ Watchers

-----------------------------------------------------------------------------
(***************************************************************************)
(* The queue: what its steps do                                            *)
(***************************************************************************)

\* A job has moved to another state, and may count one more refusal or cut.
JobMoves(j, state, refused, cut) ==
    /\ jobs' \in Seq(N!Job) /\ Len(jobs') = Len(jobs)
    /\ \A i \in JobIds \ {j} : jobs'[i] = jobs[i]
    /\ jobs'[j].type = jobs[j].type /\ jobs'[j].to = jobs[j].to /\ jobs'[j].deed = jobs[j].deed
    /\ jobs'[j].state = state
    /\ jobs'[j].refusals = jobs[j].refusals + refused /\ jobs'[j].stalls = jobs[j].stalls + cut

LEMMA JobFields ==
    ASSUME NEW job \in N!Job
    PROVE  /\ job.type \in N!Branches /\ job.to \in Users /\ job.deed \in Requests
           /\ job.refusals \in 0..3 /\ job.stalls \in 0..(N!MaxStalled + 1)
           /\ job.refusals \in Nat /\ job.stalls \in Nat
           /\ job.state \in {"waiting", "active", "delayed", "completed", "failed"}
           /\ N!MaxStalled = 1
BY DEF N!Job, N!MaxStalled

LEMMA QueueSizes ==
    ASSUME QueueTyped
    PROVE  /\ Len(jobs) \in Nat /\ Len(waiting) \in Nat /\ Len(mails) \in Nat
           /\ N!Jobs = JobIds
           /\ \A j \in JobIds : jobs[j] \in N!Job
           /\ \A k \in 1..Len(waiting) : waiting[k] \in JobIds
           /\ \A k \in 1..Len(mails) : mails[k] \in JobIds
<1>1. jobs \in Seq(N!Job) /\ waiting \in Seq(JobIds) /\ mails \in Seq(JobIds)
  BY DEF QueueTyped
<1>2. Len(jobs) \in Nat /\ DOMAIN jobs = JobIds /\ \A j \in JobIds : jobs[j] \in N!Job
  BY <1>1, LenProperties, ElementOfSeq DEF JobIds
<1>3. Len(waiting) \in Nat /\ \A k \in 1..Len(waiting) : waiting[k] \in JobIds
  BY <1>1, LenProperties, ElementOfSeq
<1>4. Len(mails) \in Nat /\ \A k \in 1..Len(mails) : mails[k] \in JobIds
  BY <1>1, LenProperties, ElementOfSeq
<1> QED BY <1>2, <1>3, <1>4 DEF N!Jobs

LEMMA JobMoved ==
    ASSUME QueueTyped, NEW j \in JobIds, NEW state \in {"waiting", "active", "delayed", "completed", "failed"},
           NEW refused \in {0, 1}, NEW cut \in {0, 1},
           jobs[j].refusals + refused \in 0..3, jobs[j].stalls + cut \in 0..(N!MaxStalled + 1),
           \/ refused = 0 /\ cut = 0 /\ jobs' = N!Turned(j, state)
           \/ refused = 1 /\ cut = 0 /\ jobs' = [N!Turned(j, state) EXCEPT ![j].refusals = @ + 1]
           \/ refused = 0 /\ cut = 1 /\ jobs' = [N!Turned(j, state) EXCEPT ![j].stalls = @ + 1]
    PROVE  JobMoves(j, state, refused, cut)
<1> DEFINE job == [type |-> jobs[j].type, to |-> jobs[j].to, deed |-> jobs[j].deed,
                   refusals |-> jobs[j].refusals + refused, stalls |-> jobs[j].stalls + cut, state |-> state]
<1>0. jobs \in Seq(N!Job) /\ jobs[j] \in N!Job /\ jobs \in [JobIds -> N!Job]
  BY QueueSizes, LenProperties DEF QueueTyped, JobIds
<1>1. job \in N!Job
  BY <1>0, JobFields DEF N!Job
<1>2. jobs' = [jobs EXCEPT ![j] = job]
  <2>1. jobs[j] = [type |-> jobs[j].type, to |-> jobs[j].to, deed |-> jobs[j].deed,
                   refusals |-> jobs[j].refusals, stalls |-> jobs[j].stalls, state |-> jobs[j].state]
    BY <1>0 DEF N!Job
  <2>2. jobs[j].refusals \in Nat /\ jobs[j].stalls \in Nat
    BY <1>0, JobFields
  <2> QED BY <1>0, <2>1, <2>2 DEF N!Turned
<1> HIDE DEF job
<1>3. /\ jobs' \in Seq(N!Job) /\ Len(jobs') = Len(jobs)
      /\ jobs'[j] = job /\ \A i \in JobIds \ {j} : jobs'[i] = jobs[i]
  BY <1>0, <1>1, <1>2, ExceptSeq DEF JobIds
<1> QED BY <1>3 DEF job, JobMoves

LEMMA TakeStep ==
    ASSUME QueueTyped, N!NoticesAssumption, N!Take
    PROVE  LET j == waiting[1]
           IN  /\ worker = None /\ Len(waiting) > 0 /\ j \in JobIds /\ JobMoves(j, "active", 0, 0)
               /\ worker' = [job |-> j, at |-> "taken"] /\ worker' # None
               /\ waiting' \in Seq(JobIds) /\ Len(waiting') = Len(waiting) - 1
               /\ \A k \in 1..Len(waiting') : waiting'[k] = waiting[k + 1]
               /\ UNCHANGED <<mails, crashes>>
<1>1. waiting \in Seq(JobIds) /\ waiting # <<>> /\ Len(waiting) \in Nat \ {0} /\ Head(waiting) = waiting[1]
  BY EmptySeq DEF N!Take, QueueTyped
<1>2. waiting[1] \in JobIds
  BY <1>1, QueueSizes
<1>3. jobs[waiting[1]].refusals + 0 \in 0..3 /\ jobs[waiting[1]].stalls + 0 \in 0..(N!MaxStalled + 1)
  BY <1>2, QueueSizes, JobFields
<1>4. JobMoves(waiting[1], "active", 0, 0)
  BY <1>1, <1>2, <1>3, JobMoved DEF N!Take
<1>5. [job |-> waiting[1], at |-> "taken"] # None
  BY <1>2, QueueSizes DEF N!NoticesAssumption, N!MailQueueAssumption, JobIds
<1> QED BY <1>1, <1>2, <1>4, <1>5, HeadTailProperties DEF N!Take

\* A worker that has a job has one there is.
LEMMA WorkerHas ==
    ASSUME QueueTyped, NEW at, N!Got(at)
    PROVE  /\ worker # None /\ worker \in [job: JobIds, at: {"taken", "returned", "threw"}]
           /\ worker.job \in JobIds /\ worker.at = at
           /\ \A new : [worker EXCEPT !.at = new] = [job |-> worker.job, at |-> new]
BY DEF QueueTyped, N!Got

LEMMA ProcessStep ==
    ASSUME QueueTyped, TriesLeft, N!NoticesAssumption, N!Process
    PROVE  LET j == worker.job
           IN  /\ worker # None /\ worker.at = "taken" /\ j \in JobIds /\ UNCHANGED <<jobs, waiting, crashes>>
               /\ \/ worker' = [job |-> j, at |-> "returned"] /\ mails' = Append(mails, j)
                  \/ worker' = [job |-> j, at |-> "threw"] /\ mails' \in {mails, Append(mails, j)}
               /\ worker' # None
<1>1. N!Got("taken")
  BY DEF N!Process
<1>2. worker # None /\ worker.at = "taken" /\ worker.job \in JobIds
      /\ \A new : [worker EXCEPT !.at = new] = [job |-> worker.job, at |-> new]
  BY <1>1, WorkerHas
<1>3. jobs[worker.job].type \in N!Branches
  BY <1>2, QueueSizes, JobFields
<1>4. \A at \in {"returned", "threw"} : [job |-> worker.job, at |-> at] # None
  BY <1>2, QueueSizes DEF N!NoticesAssumption, N!MailQueueAssumption, JobIds
<1> QED BY <1>2, <1>3, <1>4 DEF N!Process, N!Send

LEMMA CompleteStep ==
    ASSUME QueueTyped, N!Complete
    PROVE  /\ worker # None /\ worker.at = "returned" /\ worker.job \in JobIds
           /\ JobMoves(worker.job, "completed", 0, 0) /\ worker' = None
           /\ UNCHANGED <<waiting, mails, crashes>>
<1>1. worker # None /\ worker.at = "returned" /\ worker.job \in JobIds
  BY WorkerHas DEF N!Complete
<1>2. jobs[worker.job].refusals + 0 \in 0..3 /\ jobs[worker.job].stalls + 0 \in 0..(N!MaxStalled + 1)
  BY <1>1, QueueSizes, JobFields
<1> QED BY <1>1, <1>2, JobMoved DEF N!Complete

LEMMA RetryStep ==
    ASSUME QueueTyped, QueuePlaced, TriesLeft, N!Retry
    PROVE  /\ worker # None /\ worker.at = "threw" /\ worker.job \in JobIds /\ worker' = None
           /\ \/ /\ JobMoves(worker.job, "delayed", 1, 0)
                 /\ jobs[worker.job].refusals + 1 < N!Attempts(jobs[worker.job].type)
              \/ JobMoves(worker.job, "failed", 1, 0)
           /\ UNCHANGED <<waiting, mails, crashes>>
<1> DEFINE j == worker.job
<1>1. worker # None /\ worker.at = "threw" /\ j \in JobIds
  BY WorkerHas DEF N!Retry
<1>2. jobs[j].refusals \in Nat /\ jobs[j].refusals < N!Attempts(jobs[j].type) /\ N!Attempts(jobs[j].type) \in {1, 3}
  BY <1>1, QueueSizes, JobFields DEF QueuePlaced, TriesLeft, N!Attempts
<1>3. jobs[j].refusals + 1 \in 0..3 /\ jobs[j].stalls + 0 \in 0..(N!MaxStalled + 1)
  BY <1>1, <1>2, QueueSizes, JobFields
<1>4. /\ worker' = None /\ UNCHANGED <<waiting, mails, crashes>>
      /\ \/ /\ jobs[j].refusals + 1 < N!Attempts(jobs[j].type)
            /\ jobs' = [N!Turned(j, "delayed") EXCEPT ![j].refusals = @ + 1]
         \/ jobs' = [N!Turned(j, "failed") EXCEPT ![j].refusals = @ + 1]
  BY DEF N!Retry
<1> QED BY <1>1, <1>3, <1>4, JobMoved

LEMMA PromoteStep ==
    ASSUME QueueTyped, NEW j \in JobIds, N!Promote(j)
    PROVE  /\ jobs[j].state = "delayed" /\ JobMoves(j, "waiting", 0, 0)
           /\ waiting' \in Seq(JobIds) /\ Len(waiting') = Len(waiting) + 1
           /\ \A k \in 1..Len(waiting) : waiting'[k] = waiting[k]
           /\ waiting'[Len(waiting) + 1] = j
           /\ UNCHANGED <<worker, mails, crashes>>
<1>1. jobs[j].refusals + 0 \in 0..3 /\ jobs[j].stalls + 0 \in 0..(N!MaxStalled + 1)
  BY QueueSizes, JobFields
<1>2. JobMoves(j, "waiting", 0, 0)
  BY <1>1, JobMoved DEF N!Promote
<1> QED BY <1>2, AppendProperties DEF N!Promote, QueueTyped

LEMMA StallStep ==
    ASSUME QueueTyped, TriesLeft, NEW j \in JobIds, N!Stall(j)
    PROVE  /\ jobs[j].state = "active" /\ ~(worker # None /\ worker.job = j)
           /\ UNCHANGED <<worker, mails, crashes>>
           /\ \/ JobMoves(j, "failed", 0, 1) /\ UNCHANGED waiting
              \/ /\ JobMoves(j, "waiting", 0, 1) /\ jobs[j].stalls + 1 <= N!MaxStalled
                 /\ waiting' \in Seq(JobIds) /\ Len(waiting') = Len(waiting) + 1 /\ waiting'[1] = j
                 /\ \A k \in 1..Len(waiting) : waiting'[k + 1] = waiting[k]
<1>1. jobs[j].state = "active" /\ jobs[j].stalls <= N!MaxStalled
  BY DEF N!Stall, TriesLeft
<1>2. jobs[j].refusals + 0 \in 0..3 /\ jobs[j].stalls + 1 \in 0..(N!MaxStalled + 1)
  BY <1>1, QueueSizes, JobFields
<1>3. CASE jobs[j].stalls < N!MaxStalled
  <2>1. jobs' = [N!Turned(j, "waiting") EXCEPT ![j].stalls = @ + 1] /\ waiting' = <<j>> \o waiting
    BY <1>3 DEF N!Stall
  <2>2. JobMoves(j, "waiting", 0, 1) /\ jobs[j].stalls + 1 <= N!MaxStalled
    <3>1. jobs[j].stalls \in Nat /\ N!MaxStalled \in Nat
      BY QueueSizes, JobFields
    <3>2. JobMoves(j, "waiting", 0, 1)
      BY <1>2, <2>1, JobMoved
    <3> QED BY <1>3, <3>1, <3>2
  <2>3. <<j>> \in Seq(JobIds) /\ Len(<<j>>) = 1 /\ <<j>>[1] = j /\ waiting \in Seq(JobIds) /\ Len(waiting) \in Nat
    BY QueueSizes DEF QueueTyped
  <2>4. /\ waiting' \in Seq(JobIds) /\ Len(waiting') = 1 + Len(waiting)
        /\ \A k \in 1..(1 + Len(waiting)) : waiting'[k] = IF k <= 1 THEN <<j>>[k] ELSE waiting[k - 1]
    BY <2>1, <2>3, ConcatProperties
  <2>5. waiting'[1] = j /\ \A k \in 1..Len(waiting) : waiting'[k + 1] = waiting[k]
    BY <2>3, <2>4
  <2> QED BY <1>1, <2>2, <2>3, <2>4, <2>5 DEF N!Stall
<1>4. CASE ~(jobs[j].stalls < N!MaxStalled)
  <2>1. jobs' = [N!Turned(j, "failed") EXCEPT ![j].stalls = @ + 1] /\ waiting' = waiting
    BY <1>4 DEF N!Stall
  <2> QED BY <1>1, <1>2, <2>1, JobMoved DEF N!Stall
<1> QED BY <1>3, <1>4

\* A job is the last one, and waits behind the others.
JobAdded(type, u, r) ==
    /\ jobs' \in Seq(N!Job) /\ Len(jobs') = Len(jobs) + 1
    /\ \A i \in JobIds : jobs'[i] = jobs[i]
    /\ jobs'[Len(jobs) + 1].type = type /\ jobs'[Len(jobs) + 1].to = u /\ jobs'[Len(jobs) + 1].deed = r
    /\ jobs'[Len(jobs) + 1].refusals = 0 /\ jobs'[Len(jobs) + 1].stalls = 0
    /\ jobs'[Len(jobs) + 1].state = "waiting"
    /\ waiting' \in Seq(JobIds') /\ Len(waiting') = Len(waiting) + 1
    /\ \A k \in 1..Len(waiting) : waiting'[k] = waiting[k]
    /\ waiting'[Len(waiting) + 1] = Len(jobs) + 1
    /\ UNCHANGED <<worker, mails, crashes>>

LEMMA AddStep ==
    ASSUME QueueTyped, NEW type \in N!Branches, NEW u \in Users, NEW r \in Requests, Len(jobs) < MaxJobs,
           N!Add(type, u, r)
    PROVE  JobAdded(type, u, r)
<1> DEFINE job == [type |-> type, to |-> u, deed |-> r, refusals |-> 0, stalls |-> 0, state |-> "waiting"]
           j == Len(jobs) + 1
<1>1. job \in N!Job
  BY DEF N!Job, N!MaxStalled
<1> HIDE DEF job
<1>2. jobs' = Append(jobs, job) /\ waiting' = Append(waiting, j) /\ UNCHANGED <<worker, mails, crashes>>
  BY DEF N!Add, job
<1>3. jobs' \in Seq(N!Job) /\ Len(jobs') = j /\ (\A i \in JobIds : jobs'[i] = jobs[i]) /\ jobs'[j] = job
  BY <1>1, <1>2, AppendProperties DEF QueueTyped, JobIds
<1>4. JobIds \subseteq JobIds' /\ j \in JobIds'
  BY <1>3, QueueSizes DEF JobIds
<1>5. waiting \in Seq(JobIds')
  BY <1>4, SeqMonotonic DEF QueueTyped
<1>6. /\ waiting' \in Seq(JobIds') /\ Len(waiting') = Len(waiting) + 1
      /\ \A k \in 1..Len(waiting) : waiting'[k] = waiting[k]
      /\ waiting'[Len(waiting) + 1] = j
  BY <1>2, <1>4, <1>5, AppendProperties
<1>7. /\ job.type = type /\ job.to = u /\ job.deed = r /\ job.refusals = 0 /\ job.stalls = 0
      /\ job.state = "waiting"
  BY DEF job
<1> HIDE DEF job
<1> QED BY <1>2, <1>3, <1>6, <1>7 DEF JobAdded

-----------------------------------------------------------------------------
(***************************************************************************)
(* The queue: the invariant is kept                                        *)
(***************************************************************************)

AddsJob == \E type \in N!Branches, u \in Users, r \in Requests : Len(jobs) < MaxJobs /\ N!Add(type, u, r)

QueueStep ==
    \/ N!Take \/ N!Process \/ N!Complete \/ N!Retry
    \/ \E j \in JobIds : N!Promote(j) \/ N!Stall(j)
    \/ N!WorkerStops
    \/ AddsJob

\* The worker stops: its job stays active.
LEMMA StopsStep ==
    ASSUME QueueTyped, N!NoticesAssumption, N!WorkerStops
    PROVE  worker' = None /\ UNCHANGED <<jobs, waiting, mails>> /\ crashes' \in 0..MaxCrashes
BY DEF N!WorkerStops, QueueTyped, N!NoticesAssumption, N!MailQueueAssumption

LEMMA QueueTypedStep ==
    ASSUME QueueInv, N!NoticesAssumption, QueueStep
    PROVE  QueueTyped'
<1>0. QueueTyped /\ QueuePlaced /\ TriesLeft
  BY DEF QueueInv
<1> USE <1>0
<1>1. ASSUME NEW j \in JobIds, NEW s, NEW m, NEW n, JobMoves(j, s, m, n)
      PROVE  jobs' \in Seq(N!Job) /\ Len(jobs') <= MaxJobs /\ JobIds' = JobIds
  BY <1>1 DEF JobMoves, JobIds, QueueTyped
<1>2. CASE N!Take
  BY <1>1, <1>2, TakeStep DEF QueueTyped
<1>3. CASE N!Process
  <2>1. worker.job \in JobIds /\ mails \in Seq(JobIds)
    BY <1>3, ProcessStep DEF QueueTyped
  <2>2. Append(mails, worker.job) \in Seq(JobIds)
    BY <2>1, AppendProperties
  <2>3. jobs' = jobs /\ waiting' = waiting /\ crashes' = crashes /\ mails' \in Seq(JobIds)
        /\ worker' \in [job: JobIds, at: {"taken", "returned", "threw"}]
    BY <1>3, <2>1, <2>2, ProcessStep
  <2> QED BY <2>3 DEF QueueTyped, JobIds
<1>4. CASE N!Complete
  BY <1>1, <1>4, CompleteStep DEF QueueTyped
<1>5. CASE N!Retry
  BY <1>1, <1>5, RetryStep DEF QueueTyped
<1>6. ASSUME NEW j \in JobIds, N!Promote(j) PROVE QueueTyped'
  BY <1>1, <1>6, PromoteStep DEF QueueTyped
<1>7. ASSUME NEW j \in JobIds, N!Stall(j) PROVE QueueTyped'
  BY <1>1, <1>7, StallStep DEF QueueTyped
<1>8. CASE N!WorkerStops
  BY <1>8, StopsStep DEF QueueTyped, JobIds
<1>9. CASE AddsJob
  <2>1. PICK type \in N!Branches, u \in Users, r \in Requests : Len(jobs) < MaxJobs /\ N!Add(type, u, r)
    BY <1>9 DEF AddsJob
  <2>2. /\ jobs' \in Seq(N!Job) /\ Len(jobs') = Len(jobs) + 1 /\ waiting' \in Seq(JobIds')
        /\ UNCHANGED <<worker, mails, crashes>>
    BY <2>1, AddStep DEF JobAdded
  <2>3. Len(jobs) + 1 <= MaxJobs /\ JobIds \subseteq JobIds'
    BY <2>1, <2>2, QueueSizes DEF JobIds, N!NoticesAssumption, N!MailQueueAssumption
  <2>4. mails \in Seq(JobIds')
    BY <2>3, SeqMonotonic DEF QueueTyped
  <2>5. worker \in {None} \cup [job: JobIds', at: {"taken", "returned", "threw"}]
    BY <2>3 DEF QueueTyped
  <2> QED BY <2>2, <2>3, <2>4, <2>5 DEF QueueTyped
<1> QED BY <1>2, <1>3, <1>4, <1>5, <1>6, <1>7, <1>8, <1>9 DEF QueueStep

LEMMA QueuePlacedStep ==
    ASSUME QueueInv, N!NoticesAssumption, QueueStep
    PROVE  QueuePlaced'
<1>0. QueueTyped /\ QueuePlaced /\ TriesLeft
  BY DEF QueueInv
<1>00. Len(waiting) \in Nat /\ Len(jobs) \in Nat /\ \A k \in 1..Len(waiting) : waiting[k] \in JobIds
  BY <1>0, QueueSizes
<1>1. ASSUME NEW j \in JobIds, NEW s, NEW m, NEW n, JobMoves(j, s, m, n)
      PROVE  JobIds' = JobIds /\ jobs'[j].state = s /\ \A i \in JobIds \ {j} : jobs'[i].state = jobs[i].state
  BY <1>1 DEF JobMoves, JobIds
<1>2. CASE N!Take
  <2> DEFINE j == waiting[1]
  <2>1. /\ Len(waiting) > 0 /\ j \in JobIds /\ JobMoves(j, "active", 0, 0)
        /\ worker' = [job |-> j, at |-> "taken"] /\ Len(waiting') = Len(waiting) - 1
        /\ \A k \in 1..Len(waiting') : waiting'[k] = waiting[k + 1]
    BY <1>0, <1>2, TakeStep
  <2>2. \A k \in 1..Len(waiting') : k + 1 \in 1..Len(waiting) /\ waiting'[k] # j
    BY <1>0, <1>00, <2>1 DEF QueuePlaced
  <2>3. \A k, n \in 1..Len(waiting') : waiting'[k] = waiting'[n] => k = n
    BY <1>0, <1>00, <2>1, <2>2 DEF QueuePlaced
  <2>4. ASSUME NEW i \in JobIds
        PROVE  jobs'[i].state = "waiting" <=> \E k \in 1..Len(waiting') : waiting'[k] = i
    <3>1. CASE i = j
      BY <1>1, <2>1, <2>2, <3>1
    <3>2. CASE i # j
      <4>1. jobs'[i].state = jobs[i].state
        BY <1>1, <2>1, <3>2
      <4>2. ASSUME NEW k \in 1..Len(waiting), waiting[k] = i
            PROVE  \E n \in 1..Len(waiting') : waiting'[n] = i
        <5>1. k # 1 /\ k - 1 \in 1..Len(waiting')
          BY <1>00, <2>1, <3>2, <4>2
        <5>2. waiting'[k - 1] = waiting[(k - 1) + 1] /\ (k - 1) + 1 = k
          BY <1>00, <2>1, <5>1
        <5> QED BY <4>2, <5>1, <5>2
      <4> QED BY <1>0, <2>1, <2>2, <4>1, <4>2 DEF QueuePlaced
    <3> QED BY <3>1, <3>2
  <2> QED BY <1>1, <2>1, <2>3, <2>4 DEF QueuePlaced
<1>3. CASE N!Process
  <2>1. jobs' = jobs /\ waiting' = waiting /\ worker # None /\ worker'.job = worker.job
    BY <1>0, <1>3, ProcessStep
  <2> QED BY <1>0, <2>1 DEF QueuePlaced, JobIds
<1>4. CASE N!Complete \/ N!Retry
  <2>1. PICK j \in JobIds, s \in {"completed", "delayed", "failed"}, m \in {0, 1}, n \in {0, 1} :
           /\ JobMoves(j, s, m, n) /\ worker # None /\ j = worker.job /\ worker' = None /\ waiting' = waiting
    BY <1>0, <1>4, CompleteStep, RetryStep
  <2>2. jobs[j].state = "active"
    BY <1>0, <2>1 DEF QueuePlaced
  <2> QED BY <1>0, <1>1, <2>1, <2>2 DEF QueuePlaced
<1>5. ASSUME NEW j \in JobIds, N!Promote(j) PROVE QueuePlaced'
  <2>1. /\ jobs[j].state = "delayed" /\ JobMoves(j, "waiting", 0, 0)
        /\ Len(waiting') = Len(waiting) + 1
        /\ \A k \in 1..Len(waiting) : waiting'[k] = waiting[k]
        /\ waiting'[Len(waiting) + 1] = j /\ worker' = worker
    BY <1>0, <1>5, PromoteStep
  <2>2. \A k \in 1..Len(waiting) : waiting[k] # j
    BY <1>0, <2>1 DEF QueuePlaced
  <2>3. \A k \in 1..Len(waiting') : k \in 1..Len(waiting) \/ k = Len(waiting) + 1
    BY <1>00, <2>1
  <2>4. \A k, n \in 1..Len(waiting') : waiting'[k] = waiting'[n] => k = n
    BY <1>0, <2>1, <2>2, <2>3 DEF QueuePlaced
  <2>5. ASSUME NEW i \in JobIds
        PROVE  jobs'[i].state = "waiting" <=> \E k \in 1..Len(waiting') : waiting'[k] = i
    <3>1. CASE i = j
      BY <1>00, <1>1, <2>1, <3>1
    <3>2. CASE i # j
      <4>1. jobs'[i].state = jobs[i].state
        BY <1>1, <2>1, <3>2
      <4>2. 1..Len(waiting) \subseteq 1..Len(waiting')
        BY <1>00, <2>1
      <4> QED BY <1>0, <2>1, <2>3, <3>2, <4>1, <4>2 DEF QueuePlaced
    <3> QED BY <3>1, <3>2
  <2>6. worker' # None => jobs'[worker'.job].state = "active"
    BY <1>0, <1>1, <2>1 DEF QueuePlaced, QueueTyped
  <2> QED BY <1>1, <2>1, <2>4, <2>5, <2>6 DEF QueuePlaced
<1>6. ASSUME NEW j \in JobIds, N!Stall(j) PROVE QueuePlaced'
  <2>1. /\ jobs[j].state = "active" /\ ~(worker # None /\ worker.job = j) /\ worker' = worker
        /\ \/ JobMoves(j, "failed", 0, 1) /\ UNCHANGED waiting
           \/ /\ JobMoves(j, "waiting", 0, 1) /\ Len(waiting') = Len(waiting) + 1 /\ waiting'[1] = j
              /\ \A k \in 1..Len(waiting) : waiting'[k + 1] = waiting[k]
    BY <1>0, <1>6, StallStep
  <2>2. \A k \in 1..Len(waiting) : waiting[k] # j
    BY <1>0, <2>1 DEF QueuePlaced
  <2>3. worker' # None => jobs'[worker'.job].state = "active"
    BY <1>0, <1>1, <2>1 DEF QueuePlaced, QueueTyped
  <2>4. CASE JobMoves(j, "failed", 0, 1) /\ UNCHANGED waiting
    BY <1>0, <1>1, <2>2, <2>3, <2>4 DEF QueuePlaced
  <2>5. CASE /\ JobMoves(j, "waiting", 0, 1) /\ Len(waiting') = Len(waiting) + 1 /\ waiting'[1] = j
             /\ \A k \in 1..Len(waiting) : waiting'[k + 1] = waiting[k]
    <3>1. \A k \in 1..Len(waiting') : k = 1 \/ (k - 1 \in 1..Len(waiting) /\ waiting'[k] = waiting[k - 1])
      BY <1>00, <2>5
    <3>2. ASSUME NEW k \in 1..Len(waiting'), NEW n \in 1..Len(waiting'), waiting'[k] = waiting'[n] PROVE k = n
      <4>1. k # 1 => waiting'[k] # j
        BY <2>2, <3>1
      <4>2. n # 1 => waiting'[n] # j
        BY <2>2, <3>1
      <4>3. CASE k = 1 \/ n = 1
        BY <2>5, <3>2, <4>1, <4>2, <4>3
      <4>4. CASE k # 1 /\ n # 1
        <5>1. k - 1 = n - 1
          BY <1>0, <3>1, <3>2, <4>4 DEF QueuePlaced
        <5> QED BY <1>00, <2>5, <5>1
      <4> QED BY <4>3, <4>4
    <3>3. ASSUME NEW i \in JobIds
          PROVE  jobs'[i].state = "waiting" <=> \E k \in 1..Len(waiting') : waiting'[k] = i
      <4>1. CASE i = j
        BY <1>00, <1>1, <2>5, <4>1
      <4>2. CASE i # j
        <5>1. jobs'[i].state = jobs[i].state
          BY <1>1, <2>5, <4>2
        <5>2. \A k \in 1..Len(waiting) : k + 1 \in 1..Len(waiting')
          BY <1>00, <2>5
        <5> QED BY <1>0, <2>5, <3>1, <4>2, <5>1, <5>2 DEF QueuePlaced
      <4> QED BY <4>1, <4>2
    <3> QED BY <1>1, <2>3, <2>5, <3>2, <3>3 DEF QueuePlaced
  <2> QED BY <2>1, <2>4, <2>5
<1>7. CASE N!WorkerStops
  BY <1>0, <1>7, StopsStep DEF QueuePlaced, JobIds
<1>8. CASE AddsJob
  <2> DEFINE j == Len(jobs) + 1
  <2>1. /\ Len(jobs') = j /\ (\A i \in JobIds : jobs'[i] = jobs[i]) /\ jobs'[j].state = "waiting"
        /\ Len(waiting') = Len(waiting) + 1
        /\ \A k \in 1..Len(waiting) : waiting'[k] = waiting[k]
        /\ waiting'[Len(waiting) + 1] = j /\ worker' = worker
    <3>1. PICK type \in N!Branches, u \in Users, r \in Requests : Len(jobs) < MaxJobs /\ N!Add(type, u, r)
      BY <1>8 DEF AddsJob
    <3>2. JobAdded(type, u, r)
      BY <1>0, <3>1, AddStep
    <3> QED BY <3>2 DEF JobAdded
  <2>2. /\ \A k \in 1..Len(waiting) : waiting[k] # j
        /\ \A i \in JobIds' : i \in JobIds \/ i = j
        /\ j \notin JobIds
    BY <1>00, <2>1 DEF JobIds
  <2>3. \A k \in 1..Len(waiting') : k \in 1..Len(waiting) \/ k = Len(waiting) + 1
    BY <1>00, <2>1
  <2>4. \A k, n \in 1..Len(waiting') : waiting'[k] = waiting'[n] => k = n
    BY <1>0, <2>1, <2>2, <2>3 DEF QueuePlaced
  <2>5. ASSUME NEW i \in JobIds'
        PROVE  jobs'[i].state = "waiting" <=> \E k \in 1..Len(waiting') : waiting'[k] = i
    <3>1. CASE i = j
      BY <1>00, <2>1, <3>1
    <3>2. CASE i # j
      <4>1. i \in JobIds /\ jobs'[i].state = jobs[i].state
        BY <2>1, <2>2, <3>2
      <4>2. 1..Len(waiting) \subseteq 1..Len(waiting')
        BY <1>00, <2>1
      <4> QED BY <1>0, <2>1, <2>3, <3>2, <4>1, <4>2 DEF QueuePlaced
    <3> QED BY <3>1, <3>2
  <2>6. worker' # None => jobs'[worker'.job].state = "active"
    BY <1>0, <2>1 DEF QueuePlaced, QueueTyped
  <2> QED BY <2>4, <2>5, <2>6 DEF QueuePlaced
<1> QED BY <1>2, <1>3, <1>4, <1>5, <1>6, <1>7, <1>8 DEF QueueStep

LEMMA TriesLeftStep ==
    ASSUME QueueInv, N!NoticesAssumption, QueueStep
    PROVE  TriesLeft'
<1>0. QueueTyped /\ QueuePlaced /\ TriesLeft
  BY DEF QueueInv
<1>00. \A i \in JobIds : jobs[i].refusals \in Nat /\ jobs[i].stalls \in Nat
  BY <1>0, QueueSizes, JobFields
<1>1. ASSUME NEW j \in JobIds, NEW s, NEW m, NEW n, JobMoves(j, s, m, n)
      PROVE  /\ JobIds' = JobIds /\ (\A i \in JobIds \ {j} : jobs'[i] = jobs[i]) /\ jobs'[j].state = s
             /\ jobs'[j].refusals = jobs[j].refusals + m /\ jobs'[j].stalls = jobs[j].stalls + n
             /\ jobs'[j].type = jobs[j].type
  BY <1>1 DEF JobMoves, JobIds
<1>2. CASE N!Take
  <2>1. waiting[1] \in JobIds /\ Len(waiting) > 0 /\ JobMoves(waiting[1], "active", 0, 0)
    BY <1>0, <1>2, TakeStep
  <2>2. jobs[waiting[1]].state = "waiting"
    <3>1. 1 \in 1..Len(waiting)
      BY <1>0, <2>1, QueueSizes
    <3> QED BY <1>0, <2>1, <3>1 DEF QueuePlaced
  <2> QED BY <1>0, <1>00, <1>1, <2>1, <2>2 DEF TriesLeft
<1>3. CASE N!Process \/ N!WorkerStops
  <2>1. jobs' = jobs
    BY <1>0, <1>3, ProcessStep, StopsStep
  <2> QED BY <1>0, <2>1 DEF TriesLeft, JobIds
<1>4. CASE N!Complete
  <2>1. worker.job \in JobIds /\ JobMoves(worker.job, "completed", 0, 0)
    BY <1>0, <1>4, CompleteStep
  <2> QED BY <1>0, <1>00, <1>1, <2>1 DEF TriesLeft
<1>5. CASE N!Retry
  <2> DEFINE j == worker.job
  <2>1. /\ j \in JobIds /\ jobs[j].state = "active"
        /\ \/ /\ JobMoves(j, "delayed", 1, 0)
              /\ jobs[j].refusals + 1 < N!Attempts(jobs[j].type)
           \/ JobMoves(j, "failed", 1, 0)
    BY <1>0, <1>5, RetryStep DEF QueuePlaced
  <2>2. jobs[j].stalls <= N!MaxStalled
    BY <1>0, <2>1 DEF TriesLeft
  <2> QED BY <1>0, <1>00, <1>1, <2>1, <2>2 DEF TriesLeft
<1>6. ASSUME NEW j \in JobIds, N!Promote(j) PROVE TriesLeft'
  <2>1. jobs[j].state = "delayed" /\ JobMoves(j, "waiting", 0, 0)
    BY <1>0, <1>6, PromoteStep
  <2> QED BY <1>0, <1>00, <1>1, <2>1 DEF TriesLeft
<1>7. ASSUME NEW j \in JobIds, N!Stall(j) PROVE TriesLeft'
  <2>1. /\ jobs[j].state = "active"
        /\ \/ JobMoves(j, "failed", 0, 1)
           \/ JobMoves(j, "waiting", 0, 1) /\ jobs[j].stalls + 1 <= N!MaxStalled
    BY <1>0, <1>7, StallStep
  <2> QED BY <1>0, <1>00, <1>1, <2>1 DEF TriesLeft
<1>8. CASE AddsJob
  <2> DEFINE j == Len(jobs) + 1
  <2>1. /\ Len(jobs') = j /\ (\A i \in JobIds : jobs'[i] = jobs[i]) /\ jobs'[j].state = "waiting"
        /\ jobs'[j].refusals = 0 /\ jobs'[j].stalls = 0
    <3>1. PICK type \in N!Branches, u \in Users, r \in Requests : Len(jobs) < MaxJobs /\ N!Add(type, u, r)
      BY <1>8 DEF AddsJob
    <3>2. JobAdded(type, u, r)
      BY <1>0, <3>1, AddStep
    <3> QED BY <3>2 DEF JobAdded
  <2>2. \A i \in JobIds' : i \in JobIds \/ i = j
    BY <1>0, <2>1, QueueSizes DEF JobIds
  <2>3. 0 < N!Attempts(jobs'[j].type) /\ 0 <= N!MaxStalled
    BY DEF N!Attempts, N!MaxStalled
  <2> QED BY <1>0, <2>1, <2>2, <2>3 DEF TriesLeft
<1> QED BY <1>2, <1>3, <1>4, <1>5, <1>6, <1>7, <1>8 DEF QueueStep

LEMMA SameCardinality == ASSUME NEW S PROVE N!Cardinality(S) = Cardinality(S)
BY DEF N!Cardinality, Cardinality

LEMMA MailsCounted ==
    ASSUME QueueTyped, NEW j
    PROVE  /\ IsFiniteSet(N!MailsOf(j)) /\ Cardinality(N!MailsOf(j)) \in Nat
           /\ N!MailsOf(j) = {k \in 1..Len(mails) : mails[k] = j}
<1>1. N!MailsOf(j) = {k \in 1..Len(mails) : mails[k] = j} /\ Len(mails) \in Nat
  BY LenProperties DEF QueueTyped, N!MailsOf
<1>2. IsFiniteSet(1..Len(mails))
  BY <1>1, FS_Interval
<1>3. IsFiniteSet(N!MailsOf(j))
  BY <1>1, <1>2, FS_Subset
<1> QED BY <1>1, <1>3, FS_CardinalityType

\* A mail more.
LEMMA MailAppended ==
    ASSUME QueueTyped, NEW j \in JobIds, mails' = Append(mails, j)
    PROVE  /\ Len(mails') = Len(mails) + 1 /\ mails'[Len(mails) + 1] = j /\ DOMAIN mails' = 1..(Len(mails) + 1)
           /\ \A k \in 1..Len(mails) : mails'[k] = mails[k]
           /\ N!MailsOf(j)' # {} /\ Cardinality(N!MailsOf(j)') = Cardinality(N!MailsOf(j)) + 1
           /\ \A i \in JobIds \ {j} : N!MailsOf(i)' = N!MailsOf(i)
<1>1. /\ mails \in Seq(JobIds) /\ Len(mails) \in Nat /\ mails' \in Seq(JobIds)
      /\ Len(mails') = Len(mails) + 1 /\ mails'[Len(mails) + 1] = j
      /\ \A k \in 1..Len(mails) : mails'[k] = mails[k]
  BY AppendProperties, LenProperties DEF QueueTyped
<1>2. DOMAIN mails' = 1..(Len(mails) + 1)
  BY <1>1, LenProperties
<1>3. \A i : N!MailsOf(i) = {k \in 1..Len(mails) : mails[k] = i}
  BY MailsCounted
<1>4. \A i : N!MailsOf(i)' = {k \in 1..(Len(mails) + 1) : mails'[k] = i}
  BY <1>2 DEF N!MailsOf
<1>5. N!MailsOf(j)' = N!MailsOf(j) \cup {Len(mails) + 1} /\ Len(mails) + 1 \notin N!MailsOf(j)
  BY <1>1, <1>3, <1>4
<1>6. \A i \in JobIds \ {j} : N!MailsOf(i)' = N!MailsOf(i)
  <2>1. \A k \in 1..(Len(mails) + 1) : k \in 1..Len(mails) \/ k = Len(mails) + 1
    BY <1>1
  <2>2. 1..Len(mails) \subseteq 1..(Len(mails) + 1)
    BY <1>1
  <2> QED BY <1>1, <1>3, <1>4, <2>1, <2>2
<1>7. Cardinality(N!MailsOf(j) \cup {Len(mails) + 1}) = Cardinality(N!MailsOf(j)) + 1
  BY <1>5, MailsCounted, FS_AddElement
<1> QED BY <1>1, <1>2, <1>5, <1>6, <1>7

LEMMA MailsSentStep ==
    ASSUME QueueInv, N!NoticesAssumption, QueueStep
    PROVE  MailsSent'
<1>0. QueueTyped /\ QueuePlaced /\ TriesLeft /\ MailsSent
  BY DEF QueueInv
<1>00. \A i \in JobIds : /\ jobs[i].refusals \in Nat /\ jobs[i].stalls \in Nat
                         /\ Cardinality(N!MailsOf(i)) \in Nat
  BY <1>0, QueueSizes, JobFields, MailsCounted
<1>1. ASSUME NEW j \in JobIds, NEW s, NEW m, NEW n, JobMoves(j, s, m, n)
      PROVE  /\ JobIds' = JobIds /\ (\A i \in JobIds \ {j} : jobs'[i] = jobs[i]) /\ jobs'[j].state = s
             /\ jobs'[j].refusals = jobs[j].refusals + m /\ jobs'[j].stalls = jobs[j].stalls + n
  BY <1>1 DEF JobMoves, JobIds
<1>2. mails' = mails => \A i : N!MailsOf(i)' = N!MailsOf(i)
  BY DEF N!MailsOf
<1>3. CASE N!Take
  <2>1. PICK j \in JobIds :
           /\ j = waiting[1] /\ Len(waiting) > 0 /\ JobMoves(j, "active", 0, 0) /\ mails' = mails
           /\ worker = None /\ worker' = [job |-> j, at |-> "taken"] /\ worker' # None
    BY <1>0, <1>3, TakeStep
  <2>2. ~Trying(j)' /\ \A i \in JobIds \ {j} : Trying(i)' <=> Trying(i)
    BY <1>1, <2>1 DEF Trying
  <2>3. jobs[j].state = "waiting" /\ ~Trying(j)
    <3>1. j = waiting[1] /\ 1 \in 1..Len(waiting)
      BY <1>0, <2>1, QueueSizes
    <3> QED BY <1>0, <3>1 DEF QueuePlaced, Trying
  <2>4. /\ jobs'[j].refusals = jobs[j].refusals /\ jobs'[j].stalls = jobs[j].stalls /\ jobs'[j].state = "active"
        /\ JobIds' = JobIds /\ \A i \in JobIds \ {j} : jobs'[i] = jobs[i]
    BY <1>00, <1>1, <2>1
  <2>5. worker'.job = j /\ worker'.at = "taken"
    BY <2>1
  <2> QED BY <1>0, <1>00, <1>2, <2>1, <2>2, <2>3, <2>4, <2>5 DEF MailsSent
<1>4. CASE N!Process
  <2>1. PICK j \in JobIds :
        /\ worker # None /\ worker.at = "taken" /\ worker.job = j /\ jobs' = jobs /\ worker' # None
        /\ \/ worker' = [job |-> j, at |-> "returned"] /\ mails' = Append(mails, j)
           \/ worker' = [job |-> j, at |-> "threw"] /\ mails' \in {mails, Append(mails, j)}
    BY <1>0, <1>4, ProcessStep
  <2>2. /\ worker'.job = j /\ jobs[j].state = "active" /\ ~Trying(j) /\ Trying(j)'
        /\ \A i \in JobIds \ {j} : Trying(i)' <=> Trying(i)
    BY <1>0, <2>1 DEF Trying, QueuePlaced
  <2>3. mails' = mails \/ mails' = Append(mails, j)
    BY <2>1
  <2>4. CASE mails' = mails
    BY <1>0, <1>00, <1>2, <2>1, <2>2, <2>4 DEF MailsSent, JobIds
  <2>5. CASE mails' = Append(mails, j)
    <3>1. /\ N!MailsOf(j)' # {} /\ Cardinality(N!MailsOf(j)') = Cardinality(N!MailsOf(j)) + 1
          /\ \A i \in JobIds \ {j} : N!MailsOf(i)' = N!MailsOf(i)
      BY <1>0, <2>1, <2>5, MailAppended
    <3> QED BY <1>0, <1>00, <2>1, <2>2, <3>1 DEF MailsSent, JobIds
  <2> QED BY <2>3, <2>4, <2>5
<1>5. CASE N!Complete
  <2>1. PICK j \in JobIds :
        /\ worker # None /\ worker.at = "returned" /\ worker.job = j
        /\ JobMoves(j, "completed", 0, 0) /\ worker' = None /\ mails' = mails
    BY <1>0, <1>5, CompleteStep
  <2>2. \A i \in JobIds : (Trying(i) => Trying(i)') /\ (i # j => (Trying(i)' <=> Trying(i)))
    BY <1>1, <2>1 DEF Trying
  <2>3. N!MailsOf(j) # {}
    BY <1>0, <2>1 DEF MailsSent
  <2> QED BY <1>0, <1>00, <1>1, <1>2, <2>1, <2>2, <2>3 DEF MailsSent
<1>6. CASE N!Retry
  <2>1. PICK j \in JobIds :
        /\ worker # None /\ worker.at = "threw" /\ worker.job = j
        /\ JobMoves(j, "delayed", 1, 0) \/ JobMoves(j, "failed", 1, 0)
        /\ worker' = None /\ mails' = mails
    BY <1>0, <1>6, RetryStep
  <2>2. ~Trying(j)' /\ \A i \in JobIds \ {j} : Trying(i)' <=> Trying(i)
    BY <1>1, <2>1 DEF Trying
  <2>3. Cardinality(N!MailsOf(j)) <= 1 + jobs[j].refusals + jobs[j].stalls
    BY <1>0, <1>00, <2>1 DEF MailsSent
  <2> QED BY <1>0, <1>00, <1>1, <1>2, <2>1, <2>2, <2>3 DEF MailsSent
<1>7. ASSUME NEW j \in JobIds, N!Promote(j) PROVE MailsSent'
  <2>1. jobs[j].state = "delayed" /\ JobMoves(j, "waiting", 0, 0) /\ worker' = worker /\ mails' = mails
    BY <1>0, <1>7, PromoteStep
  <2>2. ~Trying(j) /\ ~Trying(j)' /\ \A i \in JobIds \ {j} : Trying(i)' <=> Trying(i)
    BY <1>1, <2>1 DEF Trying
  <2>3. ~(worker # None /\ worker.job = j)
    BY <1>0, <2>1 DEF QueuePlaced
  <2> QED BY <1>0, <1>00, <1>1, <1>2, <2>1, <2>2, <2>3 DEF MailsSent
<1>8. ASSUME NEW j \in JobIds, N!Stall(j) PROVE MailsSent'
  <2>1. /\ ~(worker # None /\ worker.job = j) /\ worker' = worker /\ mails' = mails
        /\ JobMoves(j, "failed", 0, 1) \/ JobMoves(j, "waiting", 0, 1)
    BY <1>0, <1>8, StallStep
  <2>2. ~Trying(j)' /\ \A i \in JobIds \ {j} : Trying(i)' <=> Trying(i)
    BY <1>1, <2>1 DEF Trying
  <2>3. Cardinality(N!MailsOf(j)) <= 1 + jobs[j].refusals + jobs[j].stalls
    BY <1>0, <1>00 DEF MailsSent
  <2> QED BY <1>0, <1>00, <1>1, <1>2, <2>1, <2>2, <2>3 DEF MailsSent
<1>9. CASE N!WorkerStops
  <2>1. jobs' = jobs /\ mails' = mails /\ worker' = None
    BY <1>0, <1>9, StopsStep
  <2>2. \A i \in JobIds : Trying(i) => Trying(i)'
    BY <2>1 DEF Trying
  <2> QED BY <1>0, <1>00, <1>2, <2>1, <2>2 DEF MailsSent, JobIds
<1>10. CASE AddsJob
  <2>1. PICK j \in Nat :
        /\ j = Len(jobs) + 1
        /\ Len(jobs') = j /\ (\A i \in JobIds : jobs'[i] = jobs[i]) /\ jobs'[j].state = "waiting"
        /\ jobs'[j].refusals = 0 /\ jobs'[j].stalls = 0 /\ worker' = worker /\ mails' = mails
    <3>1. PICK type \in N!Branches, u \in Users, r \in Requests : Len(jobs) < MaxJobs /\ N!Add(type, u, r)
      BY <1>10 DEF AddsJob
    <3>2. JobAdded(type, u, r)
      BY <1>0, <3>1, AddStep
    <3> QED BY <1>0, <3>2, QueueSizes DEF JobAdded
  <2>2. (\A i \in JobIds' : i \in JobIds \/ i = j) /\ j \notin JobIds
    BY <1>0, <2>1, QueueSizes DEF JobIds
  <2>3. ~Trying(j)' /\ \A i \in JobIds : Trying(i)' <=> Trying(i)
    BY <2>1 DEF Trying
  <2>4. N!MailsOf(j) = {}
    BY <1>0, <2>2, MailsCounted, QueueSizes
  <2>5. Cardinality({}) = 0
    BY FS_EmptySet
  <2>6. worker # None => worker.job # j
    BY <1>0, <2>2 DEF QueueTyped
  <2>7. Cardinality(N!MailsOf(j)') = 0 /\ \A i \in JobIds : N!MailsOf(i)' = N!MailsOf(i)
    BY <1>2, <2>1, <2>4, <2>5
  <2>8. ASSUME NEW i \in JobIds'
        PROVE  /\ Cardinality(N!MailsOf(i)') <= (IF Trying(i)' THEN 1 ELSE 0) + jobs'[i].refusals + jobs'[i].stalls
               /\ \/ jobs'[i].state = "completed"
                  \/ worker' # None /\ worker'.job = i /\ worker'.at = "returned"
                  => N!MailsOf(i)' # {}
    <3>1. CASE i = j
      BY <2>1, <2>3, <2>6, <2>7, <3>1
    <3>2. CASE i \in JobIds
      BY <1>0, <2>1, <2>3, <2>7, <3>2 DEF MailsSent
    <3> QED BY <2>2, <3>1, <3>2
  <2> QED BY <2>8 DEF MailsSent
<1> QED BY <1>3, <1>4, <1>5, <1>6, <1>7, <1>8, <1>9, <1>10 DEF QueueStep

LEMMA UntouchedStep ==
    ASSUME QueueInv, N!NoticesAssumption, QueueStep
    PROVE  UntouchedLast'
<1>0. QueueTyped /\ QueuePlaced /\ TriesLeft /\ UntouchedLast
  BY DEF QueueInv
<1>00. /\ \A i \in JobIds : jobs[i].refusals \in Nat /\ jobs[i].stalls \in Nat
       /\ Len(waiting) \in Nat /\ Len(mails) \in Nat /\ JobIds \subseteq Nat /\ Len(jobs) \in Nat
       /\ \A k \in 1..Len(waiting) : waiting[k] \in JobIds
       /\ \A k \in 1..Len(mails) : mails[k] \in JobIds
  BY <1>0, QueueSizes, JobFields DEF JobIds
<1>1. ASSUME NEW j \in JobIds, NEW s, NEW m, NEW n, JobMoves(j, s, m, n)
      PROVE  /\ JobIds' = JobIds /\ jobs'[j].state = s
             /\ jobs'[j].refusals = jobs[j].refusals + m /\ jobs'[j].stalls = jobs[j].stalls + n
             /\ \A i \in JobIds \ {j} : (Untouched(i)' <=> Untouched(i)) /\ (Smooth(i)' <=> Smooth(i))
  BY <1>1 DEF JobMoves, JobIds, Untouched, Smooth
<1>2. CASE N!Take
  <2>1. PICK j \in JobIds :
           /\ j = waiting[1] /\ Len(waiting) > 0 /\ JobMoves(j, "active", 0, 0) /\ mails' = mails
           /\ worker' = [job |-> j, at |-> "taken"] /\ worker' # None /\ Len(waiting') = Len(waiting) - 1
           /\ \A k \in 1..Len(waiting') : waiting'[k] = waiting[k + 1]
    BY <1>0, <1>2, TakeStep
  <2>2. 1 \in 1..Len(waiting) /\ jobs[j].state = "waiting"
    <3>1. 1 \in 1..Len(waiting)
      BY <1>00, <2>1
    <3> QED BY <1>0, <2>1, <3>1 DEF QueuePlaced
  <2>3. ~Untouched(j)' /\ (Smooth(j)' => Untouched(j))
    <3>1. jobs'[j].state = "active" /\ jobs'[j].refusals = jobs[j].refusals /\ jobs'[j].stalls = jobs[j].stalls
      BY <1>00, <1>1, <2>1
    <3> QED BY <2>2, <3>1 DEF Untouched, Smooth
  <2>4. \A k \in 1..Len(waiting') : k + 1 \in 1..Len(waiting) /\ waiting'[k] # j
    BY <1>0, <1>00, <2>1, <2>2 DEF QueuePlaced
  <2>5. ASSUME NEW b \in JobIds, Untouched(b), b # j, Untouched(j) PROVE j < b
    <3>1. PICK k \in 1..Len(waiting) : waiting[k] = b
      BY <1>0, <2>5 DEF QueuePlaced, Untouched
    <3>2. 1 < k
      BY <1>00, <2>1, <2>5, <3>1
    <3> QED BY <1>0, <2>1, <2>2, <2>5, <3>1, <3>2 DEF UntouchedLast
  <2>6. ASSUME NEW a \in JobIds, NEW b \in JobIds, Untouched(b)', ~Untouched(a)' PROVE a < b
    <3>1. b # j /\ Untouched(b)
      BY <1>1, <2>1, <2>3, <2>6
    <3>2. CASE ~Untouched(a)
      BY <1>0, <3>1, <3>2 DEF UntouchedLast
    <3>3. CASE Untouched(a)
      BY <1>1, <2>1, <2>5, <2>6, <3>1, <3>3
    <3> QED BY <3>2, <3>3
  <2>7. ASSUME NEW a \in JobIds, NEW b \in JobIds, NEW k \in 1..Len(waiting'), NEW n \in 1..Len(waiting'), k < n,
               waiting'[k] = a, waiting'[n] = b, Untouched(a)', Untouched(b)'
        PROVE  a < b
    <3>1. k + 1 \in 1..Len(waiting) /\ n + 1 \in 1..Len(waiting) /\ k + 1 < n + 1
      BY <1>00, <2>1, <2>4, <2>7
    <3>2. waiting[k + 1] = a /\ waiting[n + 1] = b /\ Untouched(a) /\ Untouched(b)
      BY <1>1, <2>1, <2>4, <2>7
    <3> QED BY <1>0, <3>1, <3>2 DEF UntouchedLast
  <2>8. ASSUME NEW i \in JobIds, Smooth(j)', ~Untouched(i)' PROVE i <= j
    <3>1. CASE i = j
      BY <1>00, <3>1
    <3>2. CASE i # j
      <4>1. ~Untouched(i) /\ Untouched(j)
        BY <1>1, <2>1, <2>3, <2>8, <3>2
      <4>2. i < j
        BY <1>0, <4>1 DEF UntouchedLast
      <4> QED BY <1>00, <4>2
    <3> QED BY <3>1, <3>2
  <2>9. \A i \in JobIds : \A k \in 1..Len(mails) : mails[k] = i => ~Untouched(i)'
    BY <1>0, <1>1, <2>1, <2>3 DEF UntouchedLast
  <2>10. worker'.job = j /\ JobIds' = JobIds
    BY <1>1, <2>1
  <2> QED BY <2>1, <2>6, <2>7, <2>8, <2>9, <2>10 DEF UntouchedLast
<1>3. CASE N!Process
  <2>1. PICK j \in JobIds :
           /\ worker # None /\ worker.job = j /\ jobs' = jobs /\ waiting' = waiting
           /\ worker'.at # "taken" /\ mails' \in {mails, Append(mails, j)}
    BY <1>0, <1>3, ProcessStep
  <2>2. ~Untouched(j)
    BY <1>0, <2>1 DEF QueuePlaced, Untouched
  <2>3. (\A i : Untouched(i)' <=> Untouched(i)) /\ JobIds' = JobIds
    BY <2>1 DEF Untouched, Smooth, JobIds
  <2>4. \A i \in JobIds : \A k \in 1..Len(mails') : mails'[k] = i => ~Untouched(i)
    <3>1. CASE mails' = mails
      BY <1>0, <3>1 DEF UntouchedLast
    <3>2. CASE mails' = Append(mails, j)
      <4>1. /\ Len(mails') = Len(mails) + 1 /\ mails'[Len(mails) + 1] = j
            /\ \A k \in 1..Len(mails) : mails'[k] = mails[k]
        BY <1>0, <3>2, MailAppended
      <4>2. \A k \in 1..Len(mails') : k \in 1..Len(mails) \/ k = Len(mails) + 1
        BY <1>00, <4>1
      <4> QED BY <1>0, <2>2, <4>1, <4>2 DEF UntouchedLast
    <3> QED BY <2>1, <3>1, <3>2
  <2> QED BY <1>0, <2>1, <2>3, <2>4 DEF UntouchedLast
<1>4. ASSUME NEW j \in JobIds, NEW s, NEW m, NEW n, JobMoves(j, s, m, n), ~Untouched(j), ~Untouched(j)',
             mails' = mails,
             \/ worker' = None
             \/ worker' = worker /\ ~(worker # None /\ worker.job = j)
      PROVE  /\ JobIds' = JobIds /\ \A i \in JobIds : Untouched(i)' <=> Untouched(i)
             /\ \A a, b \in JobIds : Untouched(b)' /\ ~Untouched(a)' => a < b
             /\ \A a, b \in JobIds :
                   worker' # None /\ worker'.at = "taken" /\ worker'.job = b /\ Smooth(b)' /\ ~Untouched(a)' => a <= b
             /\ \A i \in JobIds : \A k \in 1..Len(mails') : mails'[k] = i => ~Untouched(i)'
  <2>1. \A i \in JobIds : Untouched(i)' <=> Untouched(i)
    BY <1>1, <1>4
  <2>2. JobIds' = JobIds /\ \A i \in JobIds \ {j} : Smooth(i)' <=> Smooth(i)
    BY <1>1, <1>4
  <2> QED BY <1>0, <1>4, <2>1, <2>2 DEF UntouchedLast
<1>5. CASE N!Complete \/ N!Retry
  <2>1. PICK j \in JobIds, s \in {"completed", "delayed", "failed"}, m \in {0, 1}, n \in {0, 1} :
           /\ JobMoves(j, s, m, n) /\ worker # None /\ j = worker.job /\ worker' = None
           /\ waiting' = waiting /\ mails' = mails
    BY <1>0, <1>5, CompleteStep, RetryStep
  <2>2. ~Untouched(j) /\ ~Untouched(j)'
    BY <1>0, <1>1, <2>1 DEF QueuePlaced, Untouched
  <2>3. /\ JobIds' = JobIds /\ \A i \in JobIds : Untouched(i)' <=> Untouched(i)
        /\ \A a, b \in JobIds : Untouched(b)' /\ ~Untouched(a)' => a < b
        /\ \A i \in JobIds : \A k \in 1..Len(mails') : mails'[k] = i => ~Untouched(i)'
    BY <1>4, <2>1, <2>2
  <2> QED BY <1>0, <2>1, <2>3 DEF UntouchedLast
<1>6. ASSUME NEW j \in JobIds, N!Promote(j) PROVE UntouchedLast'
  <2>1. /\ jobs[j].state = "delayed" /\ JobMoves(j, "waiting", 0, 0)
        /\ Len(waiting') = Len(waiting) + 1
        /\ \A k \in 1..Len(waiting) : waiting'[k] = waiting[k]
        /\ waiting'[Len(waiting) + 1] = j /\ worker' = worker /\ mails' = mails
    BY <1>0, <1>6, PromoteStep
  <2>2. ~Untouched(j) /\ ~Untouched(j)' /\ ~(worker # None /\ worker.job = j)
    BY <1>0, <1>00, <1>1, <2>1 DEF QueuePlaced, Untouched, Smooth, TriesLeft
  <2>3. /\ JobIds' = JobIds /\ \A i \in JobIds : Untouched(i)' <=> Untouched(i)
        /\ \A a, b \in JobIds : Untouched(b)' /\ ~Untouched(a)' => a < b
        /\ \A a, b \in JobIds :
              worker' # None /\ worker'.at = "taken" /\ worker'.job = b /\ Smooth(b)' /\ ~Untouched(a)' => a <= b
        /\ \A i \in JobIds : \A k \in 1..Len(mails') : mails'[k] = i => ~Untouched(i)'
    BY <1>4, <2>1, <2>2
  <2>4. \A k \in 1..Len(waiting') : k \in 1..Len(waiting) \/ k = Len(waiting) + 1
    BY <1>00, <2>1
  <2>5. \A a, b \in JobIds : \A k, n \in 1..Len(waiting') :
           k < n /\ waiting'[k] = a /\ waiting'[n] = b /\ Untouched(a)' /\ Untouched(b)' => a < b
    BY <1>0, <2>1, <2>2, <2>3, <2>4 DEF UntouchedLast
  <2> QED BY <2>3, <2>5 DEF UntouchedLast
<1>7. ASSUME NEW j \in JobIds, N!Stall(j) PROVE UntouchedLast'
  <2>1. /\ jobs[j].state = "active" /\ ~(worker # None /\ worker.job = j) /\ worker' = worker /\ mails' = mails
        /\ \/ JobMoves(j, "failed", 0, 1) /\ UNCHANGED waiting
           \/ /\ JobMoves(j, "waiting", 0, 1) /\ Len(waiting') = Len(waiting) + 1 /\ waiting'[1] = j
              /\ \A k \in 1..Len(waiting) : waiting'[k + 1] = waiting[k]
    BY <1>0, <1>7, StallStep
  <2>2. ~Untouched(j) /\ ~Untouched(j)'
    BY <1>00, <1>1, <2>1 DEF Untouched, Smooth
  <2>3. /\ JobIds' = JobIds /\ \A i \in JobIds : Untouched(i)' <=> Untouched(i)
        /\ \A a, b \in JobIds : Untouched(b)' /\ ~Untouched(a)' => a < b
        /\ \A a, b \in JobIds :
              worker' # None /\ worker'.at = "taken" /\ worker'.job = b /\ Smooth(b)' /\ ~Untouched(a)' => a <= b
        /\ \A i \in JobIds : \A k \in 1..Len(mails') : mails'[k] = i => ~Untouched(i)'
    BY <1>4, <2>1, <2>2
  <2>4. ASSUME NEW a \in JobIds, NEW b \in JobIds, NEW k \in 1..Len(waiting'), NEW n \in 1..Len(waiting'), k < n,
               waiting'[k] = a, waiting'[n] = b, Untouched(a)', Untouched(b)'
        PROVE  a < b
    <3>1. CASE waiting' = waiting
      BY <1>0, <2>3, <2>4, <3>1 DEF UntouchedLast
    <3>2. CASE waiting' # waiting
      <4>1. /\ Len(waiting') = Len(waiting) + 1 /\ waiting'[1] = j
            /\ \A l \in 1..Len(waiting) : waiting'[l + 1] = waiting[l]
        BY <2>1, <3>2
      <4>2. ASSUME NEW l \in 1..Len(waiting'), l # 1
            PROVE  l - 1 \in 1..Len(waiting) /\ waiting'[l] = waiting[l - 1]
        <5>1. l - 1 \in 1..Len(waiting) /\ (l - 1) + 1 = l
          BY <1>00, <4>1, <4>2
        <5> QED BY <4>1, <5>1
      <4>3. k # 1 /\ n # 1
        BY <2>2, <2>4, <4>1
      <4>4. /\ k - 1 \in 1..Len(waiting) /\ waiting[k - 1] = a
            /\ n - 1 \in 1..Len(waiting) /\ waiting[n - 1] = b /\ k - 1 < n - 1
        BY <1>00, <2>4, <4>1, <4>2, <4>3
      <4>5. Untouched(a) /\ Untouched(b)
        BY <2>3, <2>4
      <4> QED BY <1>0, <4>4, <4>5 DEF UntouchedLast
    <3> QED BY <3>1, <3>2
  <2> QED BY <2>3, <2>4 DEF UntouchedLast
<1>8. CASE N!WorkerStops
  <2>1. jobs' = jobs /\ mails' = mails /\ waiting' = waiting /\ worker' = None
    BY <1>0, <1>8, StopsStep
  <2> QED BY <1>0, <2>1 DEF UntouchedLast, Untouched, Smooth, JobIds
<1>9. CASE AddsJob
  <2>1. PICK j \in Nat :
        /\ j = Len(jobs) + 1
        /\ Len(jobs') = j /\ (\A i \in JobIds : jobs'[i] = jobs[i]) /\ jobs'[j].state = "waiting"
        /\ jobs'[j].refusals = 0 /\ jobs'[j].stalls = 0 /\ worker' = worker /\ mails' = mails
        /\ Len(waiting') = Len(waiting) + 1
        /\ \A k \in 1..Len(waiting) : waiting'[k] = waiting[k]
        /\ waiting'[Len(waiting) + 1] = j
    <3>1. PICK type \in N!Branches, u \in Users, r \in Requests : Len(jobs) < MaxJobs /\ N!Add(type, u, r)
      BY <1>9 DEF AddsJob
    <3>2. JobAdded(type, u, r)
      BY <1>0, <3>1, AddStep
    <3> QED BY <1>00, <3>2 DEF JobAdded
  <2>2. (\A i \in JobIds' : i \in JobIds \/ i = j) /\ j \notin JobIds /\ \A i \in JobIds : i < j
    BY <1>00, <2>1 DEF JobIds
  <2>3. Untouched(j)' /\ \A i \in JobIds : (Untouched(i)' <=> Untouched(i)) /\ (Smooth(i)' <=> Smooth(i))
    BY <2>1 DEF Untouched, Smooth
  <2>4. \A k \in 1..Len(waiting') : k \in 1..Len(waiting) \/ k = Len(waiting) + 1
    BY <1>00, <2>1
  <2>5. \A a, b \in JobIds' : Untouched(b)' /\ ~Untouched(a)' => a < b
    BY <1>0, <2>2, <2>3 DEF UntouchedLast
  <2>6. ASSUME NEW a \in JobIds', NEW b \in JobIds', NEW k \in 1..Len(waiting'), NEW n \in 1..Len(waiting'), k < n,
               waiting'[k] = a, waiting'[n] = b, Untouched(a)', Untouched(b)'
        PROVE  a < b
    <3>1. k \in 1..Len(waiting) /\ a \in JobIds /\ waiting[k] = a /\ Untouched(a)
      <4>1. k \in 1..Len(waiting)
        BY <1>00, <2>1, <2>6
      <4> QED BY <1>00, <2>1, <2>3, <2>6, <4>1
    <3>2. CASE n = Len(waiting) + 1
      BY <2>1, <2>2, <2>6, <3>1, <3>2
    <3>3. CASE n \in 1..Len(waiting)
      <4>1. b \in JobIds /\ waiting[n] = b /\ Untouched(b)
        BY <1>00, <2>1, <2>3, <2>6, <3>3
      <4> QED BY <1>0, <2>6, <3>1, <3>3, <4>1 DEF UntouchedLast
    <3> QED BY <2>4, <3>2, <3>3
  <2>7. ASSUME NEW a \in JobIds', NEW b \in JobIds', worker # None, worker.at = "taken", worker.job = b,
               Smooth(b)', ~Untouched(a)'
        PROVE  a <= b
    <3>1. b \in JobIds /\ a \in JobIds
      BY <1>0, <2>2, <2>3, <2>7 DEF QueueTyped
    <3> QED BY <1>0, <2>3, <2>7, <3>1 DEF UntouchedLast
  <2>8. \A i \in JobIds' : \A k \in 1..Len(mails) : mails[k] = i => ~Untouched(i)'
    BY <1>0, <1>00, <2>2, <2>3 DEF UntouchedLast
  <2> QED BY <2>1, <2>5, <2>6, <2>7, <2>8 DEF UntouchedLast
<1> QED BY <1>2, <1>3, <1>5, <1>6, <1>7, <1>8, <1>9 DEF QueueStep

LEMMA MailsInOrderStep ==
    ASSUME QueueInv, N!NoticesAssumption, QueueStep
    PROVE  N!MailsInOrder'
<1>0. QueueTyped /\ QueuePlaced /\ TriesLeft /\ UntouchedLast /\ N!MailsInOrder
  BY DEF QueueInv
<1>00. /\ \A i \in JobIds : jobs[i].refusals \in Nat /\ jobs[i].stalls \in Nat
       /\ Len(mails) \in Nat /\ JobIds \subseteq Nat /\ DOMAIN mails = 1..Len(mails)
       /\ \A k \in 1..Len(mails) : mails[k] \in JobIds
  BY <1>0, QueueSizes, JobFields, LenProperties DEF JobIds, QueueTyped
<1>1. ASSUME mails' = mails, \A i \in JobIds : /\ jobs'[i].refusals + jobs'[i].stalls \in Nat
                                               /\ jobs[i].refusals + jobs[i].stalls <= jobs'[i].refusals + jobs'[i].stalls
      PROVE  N!MailsInOrder'
  BY <1>0, <1>00, <1>1 DEF N!MailsInOrder
<1>11. ASSUME mails' = mails, \A i \in JobIds : jobs'[i] = jobs[i]
       PROVE  N!MailsInOrder'
  BY <1>0, <1>00, <1>11 DEF N!MailsInOrder
<1>2. ASSUME NEW j \in JobIds, NEW s, NEW m \in {0, 1}, NEW n \in {0, 1}, JobMoves(j, s, m, n), mails' = mails
      PROVE  N!MailsInOrder'
  <2>1. \A i \in JobIds \ {j} : jobs'[i] = jobs[i]
    BY <1>2 DEF JobMoves
  <2>2. jobs'[j].refusals = jobs[j].refusals + m /\ jobs'[j].stalls = jobs[j].stalls + n
    BY <1>2 DEF JobMoves
  <2>3. jobs[j].refusals + jobs[j].stalls <= (jobs[j].refusals + m) + (jobs[j].stalls + n)
        /\ (jobs[j].refusals + m) + (jobs[j].stalls + n) \in Nat
    <3>1. \A a, b \in Nat : a + b <= (a + m) + (b + n) /\ (a + m) + (b + n) \in Nat
      OBVIOUS
    <3>2. jobs[j].refusals \in Nat /\ jobs[j].stalls \in Nat
      BY <1>00
    <3> QED BY <3>1, <3>2
  <2>4. ASSUME NEW i \in JobIds
        PROVE  /\ jobs'[i].refusals + jobs'[i].stalls \in Nat
               /\ jobs[i].refusals + jobs[i].stalls <= jobs'[i].refusals + jobs'[i].stalls
    <3>1. CASE i = j
      BY <2>2, <2>3, <3>1
    <3>2. CASE i # j
      <4>1. jobs'[i] = jobs[i] /\ jobs[i].refusals \in Nat /\ jobs[i].stalls \in Nat
        BY <1>00, <2>1, <3>2
      <4> QED BY <4>1
    <3> QED BY <3>1, <3>2
  <2> QED BY <1>1, <1>2, <2>4
<1>3. CASE N!Take
  BY <1>0, <1>2, <1>3, TakeStep
<1>4. CASE N!Complete \/ N!Retry
  BY <1>0, <1>2, <1>4, CompleteStep, RetryStep
<1>5. CASE \E j \in JobIds : N!Promote(j) \/ N!Stall(j)
  BY <1>0, <1>2, <1>5, PromoteStep, StallStep
<1>6. CASE N!WorkerStops
  <2>1. jobs' = jobs /\ mails' = mails
    BY <1>0, <1>6, StopsStep
  <2> QED BY <1>11, <2>1
<1>7. CASE AddsJob
  <2>1. PICK type \in N!Branches, u \in Users, r \in Requests : Len(jobs) < MaxJobs /\ N!Add(type, u, r)
    BY <1>7 DEF AddsJob
  <2>2. JobAdded(type, u, r)
    BY <1>0, <2>1, AddStep
  <2>3. mails' = mails /\ \A i \in JobIds : jobs'[i] = jobs[i]
    BY <2>2 DEF JobAdded
  <2> QED BY <1>11, <2>3
<1>8. CASE N!Process
  <2>1. PICK j \in JobIds :
           /\ worker # None /\ worker.job = j /\ worker.at = "taken" /\ jobs' = jobs
           /\ mails' \in {mails, Append(mails, j)}
    BY <1>0, <1>8, ProcessStep
  <2>2. CASE mails' = mails
    BY <1>11, <2>1, <2>2
  <2>3. CASE mails' = Append(mails, j)
    <3>1. /\ Len(mails') = Len(mails) + 1 /\ mails'[Len(mails) + 1] = j /\ DOMAIN mails' = 1..(Len(mails) + 1)
          /\ \A k \in 1..Len(mails) : mails'[k] = mails[k]
      BY <1>0, <2>3, MailAppended
    <3>2. \A k \in 1..(Len(mails) + 1) : k \in 1..Len(mails) \/ k = Len(mails) + 1
      BY <1>00
    <3>3. ASSUME Smooth(j), NEW k \in 1..Len(mails) PROVE mails[k] <= j
      BY <1>0, <1>00, <2>1, <3>3 DEF UntouchedLast
    <3>4. ASSUME NEW k \in DOMAIN mails', NEW n \in DOMAIN mails', k < n, mails'[k] > mails'[n]
          PROVE  jobs'[mails'[n]].refusals + jobs'[mails'[n]].stalls > 0
      <4>1. k \in 1..Len(mails) /\ mails'[k] = mails[k]
        BY <1>00, <3>1, <3>2, <3>4
      <4>2. CASE n \in 1..Len(mails)
        BY <1>0, <1>00, <2>1, <3>1, <3>4, <4>1, <4>2 DEF N!MailsInOrder
      <4>3. CASE n = Len(mails) + 1
        <5>1. mails'[n] = j /\ mails[k] > j /\ mails[k] \in Nat /\ j \in Nat
          BY <1>00, <3>1, <3>4, <4>1, <4>3
        <5>2. ~Smooth(j)
          BY <3>3, <4>1, <5>1
        <5> QED BY <1>00, <2>1, <5>1, <5>2 DEF Smooth
      <4> QED BY <3>1, <3>2, <4>2, <4>3
    <3> QED BY <3>4 DEF N!MailsInOrder
  <2> QED BY <2>1, <2>2, <2>3
<1> QED BY <1>3, <1>4, <1>5, <1>6, <1>7, <1>8 DEF QueueStep

LEMMA QueueInvStep ==
    ASSUME QueueInv, N!NoticesAssumption, QueueStep
    PROVE  QueueInv'
BY QueueTypedStep, QueuePlacedStep, TriesLeftStep, MailsSentStep, UntouchedStep, MailsInOrderStep DEF QueueInv

LEMMA QueueInvSame ==
    ASSUME QueueInv, UNCHANGED N!mailing
    PROVE  QueueInv'
<1>1. UNCHANGED <<jobs, waiting, worker, mails, crashes>>
  BY DEF N!mailing
<1>2. QueueTyped' /\ QueuePlaced' /\ TriesLeft'
  BY <1>1 DEF QueueInv, QueueTyped, QueuePlaced, TriesLeft, JobIds
<1>3. MailsSent'
  BY <1>1 DEF QueueInv, MailsSent, Trying, N!MailsOf, JobIds
<1>4. UntouchedLast'
  BY <1>1 DEF QueueInv, UntouchedLast, Untouched, Smooth, JobIds
<1>5. N!MailsInOrder'
  BY <1>1 DEF QueueInv, N!MailsInOrder
<1> QED BY <1>2, <1>3, <1>4, <1>5 DEF QueueInv

LEMMA QueueInvInit ==
    ASSUME N!NoticesAssumption, N!MailQueueInit
    PROVE  QueueInv
<1>1. jobs = <<>> /\ waiting = <<>> /\ worker = None /\ mails = <<>> /\ crashes = 0
  BY DEF N!MailQueueInit
<1>2. Len(jobs) = 0 /\ Len(waiting) = 0 /\ Len(mails) = 0 /\ DOMAIN mails = {} /\ JobIds = {} /\ 1..0 = {}
  BY <1>1, EmptySeq DEF JobIds
<1>3. QueueTyped
  BY <1>1, <1>2, EmptySeq DEF QueueTyped, N!NoticesAssumption, N!MailQueueAssumption
<1> QED BY <1>1, <1>2, <1>3 DEF QueueInv, QueuePlaced, TriesLeft, MailsSent, UntouchedLast, N!MailsInOrder

-----------------------------------------------------------------------------
(***************************************************************************)
(* The notices: events, calls and what a handler's steps do                *)
(***************************************************************************)

LEMMA NoticesGiven == N!NoticesAssumption
BY DeliveryAssumption

\* What the events have in common.
LEMMA EventFacts ==
    ASSUME NEW kind \in EventKinds
    PROVE  LET e == N!Events[kind]
           IN  /\ e.who \in {"early", "row", "late", "asked", "none", "mail"}
               /\ e.mail \in N!Branches \cup {None}
               /\ e.who = "mail" <=> kind \in N!MailsOnly
               /\ e.who = "mail" => e.mail \in N!Branches
               /\ e.who = "none" => e.mail = None
               /\ e.who = "early" => kind \notin N!Unasked
               /\ e.who = "row" => kind \in N!Creating \/ kind \notin N!Unasked
               /\ kind \in N!Creating => e.who = "row"
               /\ e.assignees => e.who \in {"early", "late"}
               /\ kind = "assign" => kind \notin N!Unasked
               /\ kind \notin {"none", "remove", "leave"}
<1> DEFINE Kinds == {"comment", "task", "log", "upload", "tag", "share", "teamShare", "assign", "assignStatus",
                     "ticket", "ticketAssign", "ticketStatus", "deal", "dealStage", "submission", "update",
                     "editComment", "project", "verify", "reset", "code", "invite"}
<1>1. kind \in Kinds
  BY DEF EventKinds, N!Events
<1>2. CASE kind \in {"comment", "task", "log", "upload", "tag", "share", "teamShare", "assign"}
  BY <1>2 DEF N!Events, N!Event, N!CommentAdded, N!TaskCreated, N!TimeLogged, N!FileUploaded, N!TaggableTagged,
              N!ShareCreated, N!SharedWithTeam, N!AssignmentCreated, N!Branches, N!TaskMails, N!TagMails,
              N!SharingMails, N!MailsOnly, N!Unasked, N!Creating
<1>3. CASE kind \in {"assignStatus", "ticket", "ticketAssign", "ticketStatus", "deal", "dealStage", "submission"}
  BY <1>3 DEF N!Events, N!Event, N!AssignmentStatusChanged, N!TicketCreated, N!TicketAssigned, N!TicketStatusChanged,
              N!DealCreated, N!DealStageChanged, N!FormSubmission, N!Branches, N!TicketMails, N!SalesMails,
              N!SharingMails, N!MailsOnly, N!Unasked, N!Creating
<1>4. CASE kind \in {"update", "editComment", "project"}
  BY <1>4 DEF N!Events, N!Event, N!TaskUpdated, N!CommentUpdated, N!ProjectCreated, N!Silent,
              N!MailsOnly, N!Unasked, N!Creating
<1>5. CASE kind \in {"verify", "reset", "code", "invite"}
  BY <1>5 DEF N!Events, N!Event, N!MailOnly, N!Branches, N!AccountMails, N!NoticeMails,
              N!MailsOnly, N!Unasked, N!Creating
<1> QED BY <1>1, <1>2, <1>3, <1>4, <1>5

LEMMA DeedFields ==
    ASSUME NEW c \in Deeds
    PROVE  /\ c.kind \in EventKinds \cup {"remove", "leave"}
           /\ c.kind \in EventKinds => c.by \in Users /\ c.subject \in Subjects \cup {None} /\ c.to \subseteq Users
           /\ c.kind \in {"remove", "leave"} => c.subject \in Subjects
           /\ c.kind = "leave" => c.to \subseteq Users
           /\ c.kind \in N!Creating => c.subject \in Fresh /\ c.subject \in Subjects
           /\ c.kind \in N!MailsOnly => \E u \in Users : c.to = {u}
           /\ c.kind \in N!Unasked => c.kind \in EventKinds
           /\ c.kind # "none"
<1>1. c \in N!Deed \cup N!OtherCall
  BY NoticesGiven DEF N!NoticesAssumption
<1>2. /\ c.kind \in N!Creating => c.subject \in Fresh /\ c.subject \in Subjects
      /\ c.kind \in N!MailsOnly => \E u \in Users : c.to = {u}
  BY NoticesGiven DEF N!NoticesAssumption
<1>3. "remove" \notin N!Unasked /\ "leave" \notin N!Unasked
  BY DEF N!Unasked, N!Creating, N!MailsOnly
<1>4. CASE c \in N!Deed
  <2>1. c.kind \in EventKinds /\ c.by \in Users /\ c.subject \in Subjects \cup {None} /\ c.to \subseteq Users
    BY <1>4 DEF N!Deed, EventKinds
  <2> QED BY <1>2, <2>1, EventFacts
<1>5. CASE c \in N!OtherCall
  <2>1. c.kind \in {"remove", "leave"} /\ c.subject \in Subjects /\ (c.kind = "leave" => c.to \subseteq Users)
    BY <1>5 DEF N!OtherCall
  <2>2. c.kind \notin EventKinds
    BY <2>1, EventFacts
  <2> QED BY <1>2, <1>3, <2>1, <2>2
<1> QED BY <1>1, <1>4, <1>5

LEMMA NoticeContinues ==
    ASSUME Framed, NEW r \in Requests, pc[r] \notin {"idle", "done"},
           NEW label, label # "idle", NEW what, N!Continue(r, label, what)
    PROVE  Moves(r) /\ pc'[r] = label /\ held'[r] = what /\ answer'[r] = answer[r]
BY DEF N!Continue, Framed, Moves

LEMMA NoticeGoes ==
    ASSUME Framed, NEW r \in Requests, pc[r] \notin {"idle", "done"},
           NEW label, label # "idle", N!Goto(r, label)
    PROVE  Moves(r) /\ pc'[r] = label /\ held'[r] = held[r] /\ answer'[r] = answer[r]
BY NoticeContinues DEF N!Goto

LEMMA NoticeReplies ==
    ASSUME Framed, NEW r \in Requests, pc[r] \notin {"idle", "done"}, NEW what, N!Reply(r, what)
    PROVE  Moves(r) /\ pc'[r] = "done" /\ held'[r] = held[r] /\ answer'[r] = what
BY DEF N!Reply, Framed, Moves

LEMMA NoticeFails ==
    ASSUME Framed, NEW r \in Requests, pc[r] \notin {"idle", "done"}, N!Fails(r)
    PROVE  Moves(r) /\ pc'[r] = "done" /\ held'[r] = held[r] /\ answer'[r] = "error"
BY NoticeReplies DEF N!Fails

LEMMA NoticeBegins ==
    ASSUME Framed, NEW r \in Requests, NEW c, NEW label, label # "idle", N!Begin(r, c, label)
    PROVE  /\ Moves(r) /\ pc[r] = "idle" /\ pc'[r] = label /\ call'[r] = c
           /\ held'[r] = held[r] /\ answer'[r] = answer[r]
BY DEF N!Begin, Framed, Moves

-----------------------------------------------------------------------------
(***************************************************************************)
(* The notices: rows and mails of a deed                                   *)
(***************************************************************************)

LEMMA MailedTo ==
    ASSUME QueueTyped, NEW r
    PROVE  /\ \A u : u \in N!Mailed(r) <=> \E j \in JobIds : jobs[j].deed = r /\ jobs[j].to = u
           /\ N!JobsOf(r) = {j \in JobIds : jobs[j].deed = r}
BY QueueSizes DEF N!Mailed, N!JobsOf

LEMMA MailedThen ==
    ASSUME QueueTyped', NEW r
    PROVE  \A u : u \in N!Mailed(r)' <=> \E j \in JobIds' : jobs'[j].deed = r /\ jobs'[j].to = u
<1>1. jobs' \in Seq(N!Job)
  BY DEF QueueTyped
<1>2. DOMAIN jobs' = JobIds'
  BY <1>1, LenProperties DEF JobIds
<1> QED BY <1>2 DEF N!Mailed, N!Jobs

\* The steps of the queue keep what the jobs are for.
KeepsJobs == Len(jobs') = Len(jobs) /\ \A j \in JobIds : jobs'[j].deed = jobs[j].deed /\ jobs'[j].to = jobs[j].to

LEMMA JobsKept ==
    ASSUME QueueInv, N!Work \/ N!WorkAgain \/ N!WorkerStops \/ UNCHANGED N!mailing
    PROVE  QueueInv' /\ KeepsJobs
<1>0. QueueTyped /\ QueuePlaced /\ TriesLeft /\ N!NoticesAssumption
  BY NoticesGiven DEF QueueInv
<1>1. QueueInv'
  <2>1. N!Work \/ N!WorkAgain \/ N!WorkerStops => QueueStep
    BY <1>0, QueueSizes DEF N!Work, N!WorkAgain, QueueStep
  <2> QED BY <1>0, <2>1, QueueInvStep, QueueInvSame
<1>2. ASSUME NEW j \in JobIds, NEW s, NEW m, NEW n, JobMoves(j, s, m, n) PROVE KeepsJobs
  BY <1>2 DEF JobMoves, KeepsJobs
<1>3. CASE N!Take
  BY <1>0, <1>1, <1>2, <1>3, TakeStep
<1>4. CASE N!Process
  BY <1>0, <1>1, <1>4, ProcessStep DEF KeepsJobs
<1>5. CASE N!Complete
  BY <1>0, <1>1, <1>2, <1>5, CompleteStep
<1>6. CASE N!Retry
  BY <1>0, <1>1, <1>2, <1>6, RetryStep
<1>7. CASE N!WorkAgain
  <2>1. PICK j \in JobIds : N!Promote(j) \/ N!Stall(j)
    BY <1>0, <1>7, QueueSizes DEF N!WorkAgain
  <2> QED BY <1>0, <1>1, <1>2, <2>1, PromoteStep, StallStep
<1>8. CASE N!WorkerStops \/ UNCHANGED N!mailing
  BY <1>0, <1>1, <1>8, StopsStep DEF KeepsJobs, N!mailing
<1> QED BY <1>1, <1>3, <1>4, <1>5, <1>6, <1>7, <1>8 DEF N!Work

LEMMA MailedKept ==
    ASSUME QueueTyped, QueueTyped', KeepsJobs, NEW r
    PROVE  N!Mailed(r)' = N!Mailed(r) /\ (OneJob => OneJob')
<1>1. JobIds' = JobIds
  BY DEF KeepsJobs, JobIds
<1>2. \A u : u \in N!Mailed(r) <=> \E j \in JobIds : jobs[j].deed = r /\ jobs[j].to = u
  BY MailedTo
<1>3. \A u : u \in N!Mailed(r)' <=> \E j \in JobIds' : jobs'[j].deed = r /\ jobs'[j].to = u
  BY MailedThen
<1>4. \A u : u \in N!Mailed(r)' <=> u \in N!Mailed(r)
  BY <1>1, <1>2, <1>3 DEF KeepsJobs
<1>5. OneJob => OneJob'
  BY <1>1 DEF OneJob, KeepsJobs
<1> QED BY <1>4, <1>5

\* A mail is added for who has none for this deed.
LEMMA MailedMore ==
    ASSUME QueueInv, OneJob, NEW type \in N!Branches, NEW u \in Users, NEW r \in Requests, Len(jobs) < MaxJobs,
           N!Add(type, u, r), u \notin N!Mailed(r)
    PROVE  /\ QueueInv' /\ OneJob' /\ N!Mailed(r)' = N!Mailed(r) \cup {u}
           /\ \A q \in Requests \ {r} : N!Mailed(q)' = N!Mailed(q)
<1>1. QueueTyped /\ QueueInv' /\ QueueTyped'
  BY NoticesGiven, QueueInvStep DEF QueueInv, QueueStep, AddsJob
<1>2. JobAdded(type, u, r)
  BY <1>1, AddStep
<1>3. PICK n \in Nat : n = Len(jobs) + 1
  BY <1>1, QueueSizes
<1>4. /\ Len(jobs') = n /\ jobs'[n].deed = r /\ jobs'[n].to = u
      /\ \A i \in JobIds : jobs'[i].deed = jobs[i].deed /\ jobs'[i].to = jobs[i].to
  BY <1>2, <1>3 DEF JobAdded
<1>5. JobIds' = JobIds \cup {n} /\ n \notin JobIds
  BY <1>1, <1>3, <1>4, QueueSizes DEF JobIds
<1>6. ASSUME NEW q \in Requests
      PROVE  \A v : v \in N!Mailed(q)' <=> v \in N!Mailed(q) \/ (q = r /\ v = u)
  <2>1. \A v : v \in N!Mailed(q) <=> \E j \in JobIds : jobs[j].deed = q /\ jobs[j].to = v
    BY <1>1, MailedTo
  <2>2. \A v : v \in N!Mailed(q)' <=> \E j \in JobIds' : jobs'[j].deed = q /\ jobs'[j].to = v
    BY <1>1, MailedThen
  <2> QED BY <1>4, <1>5, <2>1, <2>2
<1>7. \A v : v \in N!Mailed(r) <=> \E j \in JobIds : jobs[j].deed = r /\ jobs[j].to = v
  BY <1>1, MailedTo
<1>8. OneJob'
  <2>1. ASSUME NEW i \in JobIds', NEW j \in JobIds', jobs'[i].deed = jobs'[j].deed, jobs'[i].to = jobs'[j].to
        PROVE  i = j
    <3>1. CASE i \in JobIds /\ j \in JobIds
      BY <1>4, <2>1, <3>1 DEF OneJob
    <3>2. CASE ~(i \in JobIds /\ j \in JobIds)
      BY <1>4, <1>5, <1>7, <2>1, <3>2
    <3> QED BY <3>1, <3>2
  <2> QED BY <2>1 DEF OneJob
<1> QED BY <1>1, <1>6, <1>8

-----------------------------------------------------------------------------
(***************************************************************************)
(* The notices: a request that goes on, and the others                     *)
(***************************************************************************)

\* What a step of another request or of a client leaves of a request.
Stays(q) ==
    /\ pc'[q] = pc[q] /\ call'[q] = call[q] /\ held'[q] = held[q] /\ answer'[q] = answer[q]
    /\ q \in stored' <=> q \in stored
    /\ q \in vanished' <=> q \in vanished
    /\ steady'[q] \subseteq steady[q]
    /\ N!Noticed(q)' = N!Noticed(q) /\ N!Mailed(q)' = N!Mailed(q)

LEMMA SameCall ==
    ASSUME NEW q, call'[q] = call[q]
    PROVE  N!Of(q)' = N!Of(q) /\ Who(q)' = Who(q) /\ MailOf(q)' = MailOf(q)
BY DEF N!Of, N!Kind, Who, MailOf

LEMMA ToldLess == ASSUME NEW q, NEW S, NEW T, S \subseteq T PROVE N!Told(q, S) \subseteq N!Told(q, T)
BY DEF N!Told

LEMMA ToldThen ==
    ASSUME NEW q, call'[q] = call[q]
    PROVE  N!Told(q, steady[q])' = N!Told(q, steady'[q])
BY SameCall DEF N!Told

LEMMA StaysSo ==
    ASSUME NEW q \in Requests, RequestInv(q), Stays(q), Owing(q)' => Owing(q) \/ steady[q] = {}
    PROVE  RequestInv(q)'
<1>0. Labelled(q) /\ PlacedNotice(q) /\ RowsAndMails(q) /\ FollowersAhead(q)
  BY DEF RequestInv
<1>1. Who(q)' = Who(q) /\ MailOf(q)' = MailOf(q) /\ N!Told(q, steady[q])' = N!Told(q, steady'[q])
  BY SameCall, ToldThen DEF Stays
<1>2. Labelled(q)'
  BY <1>0 DEF Labelled, Stays
<1>3. PlacedNotice(q)'
  BY <1>0, <1>1 DEF PlacedNotice, Stays
<1>4. RowsAndMails(q)'
  BY <1>0, <1>1 DEF RowsAndMails, Over, Stays
<1>5. FollowersAhead(q)'
  <2>1. N!Told(q, steady'[q]) \subseteq N!Told(q, steady[q]) /\ (steady[q] = {} => N!Told(q, steady'[q]) = {})
    BY ToldLess DEF Stays, N!Told
  <2> QED BY <1>0, <1>1, <2>1 DEF FollowersAhead, Over, Stays
<1> QED BY <1>2, <1>3, <1>4, <1>5 DEF RequestInv

\* The fields that a step of its own has left of a request.
Keeps(r) ==
    /\ call'[r] = call[r] /\ steady'[r] = steady[r]
    /\ N!Noticed(r)' = N!Noticed(r) /\ N!Mailed(r)' = N!Mailed(r)

\* A call that has not told everybody ends with an error or a stop.
LEMMA EndsSo ==
    ASSUME NEW r \in Requests, RequestInv(r), Keeps(r), pc[r] \notin {"idle", "done"}, pc'[r] = "done",
           held'[r] = held[r], answer'[r] \in {"ok", "notFound", "error", "cut"}, answer'[r] # "ok" \/ r \notin stored,
           r \in stored' <=> r \in stored, r \in vanished' <=> r \in vanished
    PROVE  RequestInv(r)'
<1>0. Labelled(r) /\ PlacedNotice(r) /\ RowsAndMails(r) /\ FollowersAhead(r)
  BY DEF RequestInv
<1>1. Who(r)' = Who(r) /\ MailOf(r)' = MailOf(r)
  BY SameCall DEF Keeps
<1>2. Labelled(r)'
  BY <1>0 DEF Labelled, Keeps
<1>3. PlacedNotice(r)'
  BY <1>0, <1>1 DEF PlacedNotice, Keeps, Telling
<1>4. ~Over(r)' /\ FollowersAhead(r)'
  BY <1>1 DEF FollowersAhead, Over, Keeps
<1>5. ASSUME r \in stored, Who(r) # "mail", MailOf(r) # None
      PROVE  N!Mailed(r) \subseteq N!Noticed(r) /\ \E u \in Users : N!Noticed(r) \ N!Mailed(r) \subseteq {u}
  <2>1. call[r].by \in Users
    BY <1>0, <1>5, DeedFields DEF PlacedNotice, Telling
  <2>2. pc[r] \in Telling
    BY <1>0, <1>5 DEF PlacedNotice, Labelled
  <2>3. CASE pc[r] \in {"gather", "look", "insert", "emit"}
    BY <1>0, <1>5, <2>1, <2>3 DEF RowsAndMails, Over
  <2>4. CASE pc[r] \in {"push", "mail"}
    <3>1. held[r].now \in Users /\ N!Mailed(r) = N!Noticed(r) \ {held[r].now}
      BY <1>0, <1>5, <2>4 DEF RowsAndMails, PlacedNotice
    <3> QED BY <3>1
  <2> QED BY <2>2, <2>3, <2>4 DEF Telling
<1>6. RowsAndMails(r)'
  BY <1>0, <1>1, <1>4, <1>5 DEF RowsAndMails, Keeps
<1> QED BY <1>2, <1>3, <1>4, <1>6 DEF RequestInv

\* The requests that a step of one of them leaves alone.
LEMMA OthersSo ==
    ASSUME NoticeInv, NEW r \in Requests, Moves(r), RequestInv(r)',
           \A q \in Requests \ {r} : Stays(q) /\ (Owing(q)' => Owing(q) \/ steady[q] = {})
    PROVE  Framed' /\ \A q \in Requests : RequestInv(q)'
<1>1. ASSUME NEW q \in Requests \ {r} PROVE RequestInv(q)'
  BY StaysSo DEF NoticeInv
<1> QED BY <1>1 DEF Moves

LEMMA OwingSame ==
    ASSUME NEW q, call'[q] = call[q], q \in vanished' <=> q \in vanished, subjects' \subseteq subjects
    PROVE  Owing(q)' => Owing(q)
BY SameCall DEF Owing

LEMMA NoticedSame == ASSUME NEW q, rows' = rows PROVE N!Noticed(q)' = N!Noticed(q)
BY DEF N!Noticed

LEMMA MailedSame ==
    ASSUME QueueInv, NEW q, UNCHANGED N!mailing
    PROVE  N!Mailed(q)' = N!Mailed(q) /\ QueueInv' /\ (OneJob => OneJob')
BY JobsKept, MailedKept DEF QueueInv

LEMMA CreatedSame ==
    ASSUME NoticeInv, call' = call, subjects' \subseteq subjects,
           \A q \in Requests : /\ steady'[q] \subseteq steady[q]
                               /\ pc'[q] = "store" /\ call[q].kind \in N!Creating => pc[q] = "store"
    PROVE  CreatedFirst'
BY DEF NoticeInv, CreatedFirst

LEMMA SteadySame ==
    ASSUME NoticeInv, call' = call, steady' = steady, followers' = followers
    PROVE  SteadyStand'
BY DEF NoticeInv, SteadyStand

-----------------------------------------------------------------------------
(***************************************************************************)
(* The notices: the handler's steps keep the invariant                     *)
(***************************************************************************)

\* A step that changes no table.
Calm(r) ==
    /\ Moves(r) /\ pc[r] \notin {"idle", "done"}
    /\ UNCHANGED <<N!mailing, subjects, followers, assignees, stored, rows, steady>>
    /\ vanished \subseteq vanished' /\ vanished' \subseteq vanished \cup {r}

LEMMA CalmKeeps ==
    ASSUME NoticeInv, QueueInv, NEW r \in Requests, Calm(r)
    PROVE  /\ call' = call /\ QueueInv' /\ OneJob' /\ TablesTyped' /\ Keeps(r)
           /\ \A q \in Requests \ {r} : Stays(q) /\ (Owing(q)' => Owing(q))
<1>1. call' = call
  BY DEF Calm, Moves, Framed, NoticeInv
<1>2. QueueInv' /\ OneJob' /\ \A q : N!Mailed(q)' = N!Mailed(q)
  BY MailedSame DEF Calm, NoticeInv
<1>3. \A q : N!Noticed(q)' = N!Noticed(q)
  BY NoticedSame DEF Calm
<1>4. TablesTyped'
  BY DEF Calm, NoticeInv, TablesTyped
<1>5. ASSUME NEW q \in Requests \ {r} PROVE Stays(q) /\ (Owing(q)' => Owing(q))
  BY <1>1, <1>2, <1>3, OwingSame DEF Calm, Moves, Stays
<1> QED BY <1>1, <1>2, <1>3, <1>4, <1>5 DEF Keeps, Calm

LEMMA CalmSo ==
    ASSUME NoticeInv, QueueInv, NEW r \in Requests, Calm(r), RequestInv(r)',
           pc'[r] = "store" => call[r].kind \notin N!Creating
    PROVE  NoticeInv' /\ QueueInv'
<1>1. /\ call' = call /\ QueueInv' /\ OneJob' /\ TablesTyped'
      /\ \A q \in Requests \ {r} : Stays(q) /\ (Owing(q)' => Owing(q))
  BY CalmKeeps
<1>2. Framed' /\ \A q \in Requests : RequestInv(q)'
  BY <1>1, OthersSo DEF Calm
<1>3. SteadyStand'
  BY <1>1, SteadySame DEF Calm
<1>4. CreatedFirst'
  <2>1. \A q \in Requests : pc'[q] = "store" /\ call[q].kind \in N!Creating => pc[q] = "store"
    BY DEF Calm, Moves
  <2> QED BY <1>1, <2>1, CreatedSame DEF Calm
<1> QED BY <1>1, <1>2, <1>3, <1>4 DEF NoticeInv

\* A call ends with an error, and no table has changed.
LEMMA CalmEnds ==
    ASSUME NoticeInv, QueueInv, NEW r \in Requests, Calm(r), vanished' = vanished, pc'[r] = "done", held'[r] = held[r],
           answer'[r] \in {"ok", "notFound", "error"}, answer'[r] # "ok" \/ r \notin stored
    PROVE  NoticeInv' /\ QueueInv'
<1>1. Keeps(r)
  BY CalmKeeps
<1>2. RequestInv(r)'
  BY <1>1, EndsSo DEF NoticeInv, Calm
<1> QED BY <1>2, CalmSo

LEMMA NoticeFind ==
    ASSUME NoticeInv, QueueInv, NEW r \in Requests, N!Find(r)
    PROVE  NoticeInv' /\ QueueInv' /\ Calm(r) /\ UNCHANGED N!sockets /\ (pc'[r] = "done" => answer'[r] # "ok")
<1>0. /\ Framed /\ pc[r] = "find" /\ Labelled(r) /\ PlacedNotice(r) /\ RowsAndMails(r)
      /\ UNCHANGED <<N!mailing, N!tables, N!sockets, N!history>>
  BY DEF N!Find, NoticeInv, RequestInv
<1>1. Moves(r) => Calm(r)
  BY <1>0 DEF Calm, N!tables, N!history
<1>2. CASE N!Reply(r, "notFound")
  <2>1. Moves(r) /\ pc'[r] = "done" /\ held'[r] = held[r] /\ answer'[r] = "notFound"
    BY <1>0, <1>2, NoticeReplies
  <2> QED BY <1>0, <1>1, <2>1, CalmEnds DEF N!history
<1>3. CASE ~N!Reply(r, "notFound")
  <2> DEFINE s == call[r].subject
             users == IF N!Of(r).who = "early" THEN followers[s] ELSE {}
  <2>1. s \in subjects /\ N!Continue(r, "store", N!Left(users))
    BY <1>3 DEF N!Find, N!Subject
  <2>2. Moves(r) /\ pc'[r] = "store" /\ held'[r] = N!Left(users) /\ answer'[r] = answer[r]
    BY <1>0, <2>1, NoticeContinues
  <2>3. s \in Subjects /\ users \subseteq Users /\ call[r].kind \in EventKinds \ N!Unasked
    BY <1>0, <2>1 DEF NoticeInv, TablesTyped, PlacedNotice
  <2>4. held'[r] = [left |-> users, now |-> None]
    BY <2>2 DEF N!Left, N!Nobody
  <2>5. Who(r) = "early" => steady[r] \subseteq users
    BY <2>3 DEF NoticeInv, SteadyStand, Who
  <2>6. Calm(r) /\ Keeps(r) /\ call' = call /\ Who(r)' = Who(r) /\ MailOf(r)' = MailOf(r)
        /\ stored' = stored /\ vanished' = vanished
    BY <1>0, <1>1, <2>2, CalmKeeps, SameCall DEF N!history, N!tables
  <2> HIDE DEF s, users
  <2>7. Labelled(r)' /\ PlacedNotice(r)'
    BY <1>0, <2>2, <2>3, <2>4, <2>6 DEF Labelled, PlacedNotice, Reading, Telling, s
  <2>8. RowsAndMails(r)'
    BY <1>0, <2>2, <2>6 DEF RowsAndMails, PlacedNotice, Over, Keeps
  <2>9. FollowersAhead(r)'
    BY <1>0, <2>2, <2>4, <2>5, <2>6 DEF FollowersAhead, PlacedNotice, Over, Keeps
  <2>10. call[r].kind \notin N!Creating
    BY <2>3 DEF N!Unasked
  <2> QED BY <1>0, <2>2, <2>6, <2>7, <2>8, <2>9, <2>10, CalmSo DEF RequestInv
<1> QED BY <1>2, <1>3

LEMMA NoticeGather ==
    ASSUME NoticeInv, QueueInv, NEW r \in Requests, N!Gather(r)
    PROVE  NoticeInv' /\ QueueInv' /\ Calm(r) /\ UNCHANGED N!sockets /\ pc'[r] # "done"
<1>0. /\ Framed /\ pc[r] = "gather" /\ Labelled(r) /\ PlacedNotice(r) /\ RowsAndMails(r) /\ FollowersAhead(r)
      /\ UNCHANGED <<N!mailing, N!tables, N!sockets, N!history>>
  BY DEF N!Gather, NoticeInv, RequestInv
<1> DEFINE s == call[r].subject
           found == IF N!Of(r).who # "late"
                    THEN held[r].left \cup (IF N!Of(r).assignees THEN assignees[s] ELSE {})
                    ELSE IF s \in subjects THEN followers[s] \cup assignees[s] ELSE {}
           told == N!Told(r, found)
           label == IF told = {} THEN "emit" ELSE "look"
<1>1. N!Continue(r, label, N!Left(told))
  BY DEF N!Gather, N!Subject
<1>2. Moves(r) /\ pc'[r] = label /\ held'[r] = N!Left(told) /\ answer'[r] = answer[r]
  <2>1. label # "idle"
    OBVIOUS
  <2> HIDE DEF label, told
  <2> QED BY <1>0, <1>1, <2>1, NoticeContinues
<1>3. Calm(r) /\ Keeps(r) /\ call' = call /\ Who(r)' = Who(r) /\ MailOf(r)' = MailOf(r)
      /\ stored' = stored /\ vanished' = vanished /\ subjects' = subjects /\ steady' = steady
  <2>1. Calm(r)
    BY <1>0, <1>2 DEF Calm, N!tables, N!history
  <2> QED BY <1>0, <2>1, CalmKeeps, SameCall DEF Calm, N!history, N!tables
<1>4. held'[r] = [left |-> told, now |-> None]
  BY <1>2 DEF N!Left, N!Nobody
<1>5. /\ call[r].kind \in EventKinds /\ held[r] \in Reading /\ Who(r) \in {"early", "row", "late", "asked"}
      /\ Who(r) # "late" /\ N!Of(r).assignees => s \in Subjects
  <2>1. call[r].kind \in EventKinds /\ held[r] \in Reading /\ Who(r) \in {"early", "row", "late", "asked"}
    BY <1>0 DEF PlacedNotice, Telling
  <2>2. N!Of(r) = N!Events[call[r].kind]
    BY DEF N!Of, N!Kind
  <2>3. N!Of(r).assignees /\ Who(r) # "late" => call[r].kind \notin N!Unasked
    BY <2>1, <2>2, EventFacts DEF Who
  <2> QED BY <1>0, <2>1, <2>3 DEF PlacedNotice, Telling
<1>6. found \subseteq Users
  <2>1. held[r].left \subseteq Users
    BY <1>5 DEF Reading
  <2>2. \A x \in Subjects : followers[x] \subseteq Users /\ assignees[x] \subseteq Users
    BY DEF NoticeInv, TablesTyped
  <2>3. subjects \subseteq Subjects
    BY DEF NoticeInv, TablesTyped
  <2>4. CASE N!Of(r).who = "late"
    BY <2>2, <2>3, <2>4
  <2>5. CASE N!Of(r).who # "late" /\ N!Of(r).assignees
    BY <1>5, <2>1, <2>2, <2>5 DEF Who
  <2>6. CASE N!Of(r).who # "late" /\ ~N!Of(r).assignees
    BY <2>1, <2>6
  <2> QED BY <2>4, <2>5, <2>6
<1>7. told \subseteq Users
  BY <1>6 DEF N!Told
<1>8. Owing(r) => steady[r] \subseteq found
  <2>1. CASE Who(r) = "late"
    <3>1. Owing(r) => s \in subjects
      BY <2>1 DEF Owing
    <3>2. steady[r] # {} => steady[r] \subseteq followers[s]
      BY <1>5 DEF NoticeInv, SteadyStand
    <3> QED BY <2>1, <3>1, <3>2 DEF Who
  <2>2. CASE Who(r) \in {"early", "row"}
    <3>1. steady[r] \subseteq held[r].left
      BY <1>0, <2>2 DEF FollowersAhead
    <3> QED BY <2>2, <3>1 DEF Who
  <2> QED BY <2>1, <2>2 DEF Owing
<1>9. Owing(r) => N!Told(r, steady[r]) \subseteq told
  BY <1>8, ToldLess
<1> HIDE DEF s, found, told
<1>10. Labelled(r)' /\ PlacedNotice(r)'
  BY <1>0, <1>2, <1>3, <1>4, <1>5, <1>7 DEF Labelled, PlacedNotice, Reading, Telling, Keeps
<1>11. RowsAndMails(r)'
  BY <1>0, <1>2, <1>3, <1>5 DEF RowsAndMails, PlacedNotice, Over, Keeps
<1>12. N!Told(r, steady[r])' = N!Told(r, steady[r]) /\ (Owing(r)' => Owing(r))
  BY <1>3, ToldThen, OwingSame
<1>13. FollowersAhead(r)'
  BY <1>0, <1>2, <1>3, <1>4, <1>9, <1>12 DEF FollowersAhead, PlacedNotice, Over, Keeps
<1>14. pc'[r] \notin {"store", "done"}
  BY <1>2
<1> QED BY <1>0, <1>3, <1>10, <1>11, <1>13, <1>14, CalmSo DEF RequestInv

LEMMA NoticeLook ==
    ASSUME NoticeInv, QueueInv, NEW r \in Requests, N!Look(r)
    PROVE  NoticeInv' /\ QueueInv' /\ Calm(r) /\ UNCHANGED N!sockets /\ pc'[r] # "done"
<1>0. /\ Framed /\ pc[r] = "look" /\ Labelled(r) /\ PlacedNotice(r) /\ RowsAndMails(r) /\ FollowersAhead(r)
      /\ UNCHANGED <<N!mailing, N!tables, N!sockets, steady>>
  BY DEF N!Look, NoticeInv, RequestInv
<1>1. PICK label : /\ N!Goto(r, label)
                   /\ \/ label = "insert" /\ vanished' = vanished
                      \/ label = "emit" /\ vanished' = vanished \cup {r}
  BY DEF N!Look
<1>2. Moves(r) /\ pc'[r] = label /\ held'[r] = held[r] /\ answer'[r] = answer[r]
  BY <1>0, <1>1, NoticeGoes
<1>3. Calm(r) /\ Keeps(r) /\ call' = call /\ Who(r)' = Who(r) /\ MailOf(r)' = MailOf(r)
      /\ stored' = stored /\ subjects' = subjects /\ steady' = steady
  <2>1. Calm(r)
    BY <1>0, <1>1, <1>2 DEF Calm, N!tables
  <2> QED BY <1>0, <2>1, CalmKeeps, SameCall DEF Calm
<1>4. Labelled(r)' /\ PlacedNotice(r)'
  BY <1>0, <1>1, <1>2, <1>3 DEF Labelled, PlacedNotice, Reading, Telling, Keeps
<1>5. RowsAndMails(r)'
  BY <1>0, <1>1, <1>2, <1>3 DEF RowsAndMails, PlacedNotice, Over, Keeps
<1>6. N!Told(r, steady[r])' = N!Told(r, steady[r])
  BY <1>3, ToldThen
<1>7. FollowersAhead(r)'
  <2>1. CASE label = "emit"
    <3>1. ~Owing(r)'
      BY <1>1, <2>1 DEF Owing
    <3> QED BY <1>2, <2>1, <3>1 DEF FollowersAhead
  <2>2. CASE label = "insert"
    <3>1. Owing(r)' => Owing(r)
      BY <1>1, <1>3, <2>2, OwingSame
    <3> QED BY <1>0, <1>2, <1>3, <1>6, <2>2, <3>1 DEF FollowersAhead, PlacedNotice, Over, Keeps
  <2> QED BY <1>1, <2>1, <2>2
<1>8. pc'[r] \notin {"store", "done"}
  BY <1>1, <1>2
<1> QED BY <1>0, <1>3, <1>4, <1>5, <1>7, <1>8, CalmSo DEF RequestInv

\* A step of a request that stores what it tells, or adds a mail.
LEMMA TellsSo ==
    ASSUME NoticeInv, QueueInv', OneJob', TablesTyped', NEW r \in Requests, Moves(r), pc[r] \notin {"idle", "done"},
           pc'[r] # "store", RequestInv(r)', UNCHANGED <<subjects, followers, stored, steady, vanished>>,
           \A q \in Requests \ {r} : N!Noticed(q)' = N!Noticed(q) /\ N!Mailed(q)' = N!Mailed(q)
    PROVE  NoticeInv'
<1>1. call' = call
  BY DEF Moves, Framed, NoticeInv
<1>2. ASSUME NEW q \in Requests \ {r} PROVE Stays(q) /\ (Owing(q)' => Owing(q))
  BY <1>1, OwingSame DEF Moves, Stays
<1>3. Framed' /\ \A q \in Requests : RequestInv(q)'
  BY <1>2, OthersSo
<1>4. SteadyStand'
  BY <1>1, SteadySame
<1>5. CreatedFirst'
  <2>1. \A q \in Requests : pc'[q] = "store" => pc[q] = "store"
    BY DEF Moves
  <2> QED BY <1>1, <2>1, CreatedSame
<1> QED BY <1>3, <1>4, <1>5 DEF NoticeInv

LEMMA RowSet ==
    ASSUME TablesTyped, NEW r \in Requests, NEW u \in Users, NEW state \in N!RowStates \ {"none"},
           rows' = [rows EXCEPT ![<<r, u>>] = state]
    PROVE  /\ rows' \in [Requests \X Users -> N!RowStates]
           /\ N!Noticed(r)' = N!Noticed(r) \cup {u}
           /\ \A q \in Requests \ {r} : N!Noticed(q)' = N!Noticed(q)
<1>1. rows \in [Requests \X Users -> N!RowStates]
  BY DEF TablesTyped
<1>2. \A q \in Requests, v \in Users : rows'[<<q, v>>] = IF q = r /\ v = u THEN state ELSE rows[<<q, v>>]
  BY <1>1
<1>3. rows' \in [Requests \X Users -> N!RowStates]
  BY <1>1
<1> QED BY <1>2, <1>3 DEF N!Noticed

LEMMA NoticeInsert ==
    ASSUME NoticeInv, QueueInv, NEW r \in Requests, N!Insert(r)
    PROVE  NoticeInv' /\ QueueInv'
<1>0. /\ Framed /\ TablesTyped /\ pc[r] = "insert" /\ Labelled(r) /\ PlacedNotice(r) /\ RowsAndMails(r)
      /\ FollowersAhead(r) /\ UNCHANGED <<N!mailing, subjects, followers, assignees, stored, N!sockets, N!history>>
  BY DEF N!Insert, NoticeInv, RequestInv
<1>1. CASE N!Fails(r) /\ UNCHANGED rows
  <2>1. Moves(r) /\ pc'[r] = "done" /\ held'[r] = held[r] /\ answer'[r] = "error"
    BY <1>0, <1>1, NoticeFails
  <2>2. Calm(r) /\ vanished' = vanished
    BY <1>0, <1>1, <2>1 DEF Calm, N!history
  <2> QED BY <2>1, <2>2, CalmEnds
<1>2. CASE ~(N!Fails(r) /\ UNCHANGED rows)
  <2>1. PICK u \in held[r].left :
           /\ rows' = [rows EXCEPT ![<<r, u>>] = IF @ = "none" THEN "unread" ELSE "twice"]
           /\ N!Continue(r, "push", [left |-> held[r].left \ {u}, now |-> u])
    BY <1>2 DEF N!Insert
  <2>2. /\ Moves(r) /\ pc'[r] = "push" /\ answer'[r] = answer[r]
        /\ held'[r] = [left |-> held[r].left \ {u}, now |-> u]
    BY <1>0, <2>1, NoticeContinues
  <2>3. held[r] \in Reading /\ u \in Users
    BY <1>0, <2>1 DEF PlacedNotice, Telling, Reading
  <2>4. u \notin N!Noticed(r) /\ rows[<<r, u>>] = "none"
    BY <1>0, <2>1, <2>3 DEF RowsAndMails, N!Noticed
  <2>5. rows' = [rows EXCEPT ![<<r, u>>] = "unread"] /\ "unread" \in N!RowStates \ {"none"}
    BY <2>1, <2>4 DEF N!RowStates
  <2>6. /\ rows' \in [Requests \X Users -> N!RowStates]
        /\ N!Noticed(r)' = N!Noticed(r) \cup {u}
        /\ \A q \in Requests \ {r} : N!Noticed(q)' = N!Noticed(q)
    BY <1>0, <2>3, <2>5, RowSet
  <2>7. TablesTyped'
    BY <1>0, <2>6 DEF TablesTyped, N!history
  <2>8. QueueInv' /\ OneJob' /\ \A q : N!Mailed(q)' = N!Mailed(q)
    BY <1>0, MailedSame DEF NoticeInv
  <2>9. call' = call /\ Who(r)' = Who(r) /\ MailOf(r)' = MailOf(r) /\ N!Told(r, steady[r])' = N!Told(r, steady[r])
        /\ (Owing(r)' => Owing(r)) /\ UNCHANGED <<steady, vanished, stored, subjects>>
    <3>1. call' = call
      BY <1>0, <2>2 DEF Moves, Framed
    <3> QED BY <1>0, <3>1, SameCall, ToldThen, OwingSame DEF N!history
  <2>10. Labelled(r)' /\ PlacedNotice(r)'
    BY <1>0, <2>2, <2>3, <2>9 DEF Labelled, PlacedNotice, Reading, Telling
  <2>11. RowsAndMails(r)'
    BY <1>0, <2>1, <2>2, <2>4, <2>6, <2>8, <2>9 DEF RowsAndMails, PlacedNotice, Over, Telling
  <2>12. FollowersAhead(r)'
    BY <1>0, <2>1, <2>2, <2>6, <2>9 DEF FollowersAhead, PlacedNotice, Over, Telling
  <2> QED BY <1>0, <2>2, <2>6, <2>7, <2>8, <2>9, <2>10, <2>11, <2>12, TellsSo DEF RequestInv
<1> QED BY <1>1, <1>2

LEMMA NoticePush ==
    ASSUME NoticeInv, QueueInv, NEW r \in Requests, N!Push(r)
    PROVE  NoticeInv' /\ QueueInv' /\ Calm(r) /\ UNCHANGED <<joined, watching>> /\ pc'[r] # "done"
<1>0. /\ Framed /\ pc[r] = "push" /\ Labelled(r) /\ PlacedNotice(r) /\ RowsAndMails(r) /\ FollowersAhead(r)
      /\ UNCHANGED <<N!mailing, N!tables, joined, watching, N!history>>
  BY DEF N!Push, NoticeInv, RequestInv
<1>1. PICK label : /\ N!Goto(r, label)
                   /\ \/ label = "mail" /\ MailOf(r) # None
                      \/ label = "emit" /\ MailOf(r) = None /\ held[r].left = {}
                      \/ label = "insert" /\ MailOf(r) = None
  BY DEF N!Push, N!Onward, MailOf
<1>2. Moves(r) /\ pc'[r] = label /\ held'[r] = held[r] /\ answer'[r] = answer[r]
  BY <1>0, <1>1, NoticeGoes
<1>3. Calm(r) /\ Keeps(r) /\ call' = call /\ Who(r)' = Who(r) /\ MailOf(r)' = MailOf(r)
      /\ stored' = stored /\ subjects' = subjects /\ steady' = steady /\ vanished' = vanished
  <2>1. Calm(r)
    BY <1>0, <1>1, <1>2 DEF Calm, N!tables, N!history
  <2> QED BY <1>0, <2>1, CalmKeeps, SameCall DEF Calm, N!history
<1>4. Who(r) # "mail"
  BY <1>0 DEF PlacedNotice
<1>5. Labelled(r)' /\ PlacedNotice(r)'
  BY <1>0, <1>1, <1>2, <1>3, <1>4 DEF Labelled, PlacedNotice, Reading, Telling, Keeps
<1>6. RowsAndMails(r)'
  BY <1>0, <1>1, <1>2, <1>3, <1>4 DEF RowsAndMails, PlacedNotice, Over, Keeps, Telling
<1>7. N!Told(r, steady[r])' = N!Told(r, steady[r]) /\ (Owing(r)' => Owing(r))
  BY <1>3, ToldThen, OwingSame
<1>8. FollowersAhead(r)'
  BY <1>0, <1>1, <1>2, <1>3, <1>7 DEF FollowersAhead, PlacedNotice, Over, Keeps
<1>9. pc'[r] \notin {"store", "done"}
  BY <1>1, <1>2
<1> QED BY <1>0, <1>3, <1>5, <1>6, <1>8, <1>9, CalmSo DEF RequestInv

LEMMA NoticeMail ==
    ASSUME NoticeInv, QueueInv, NEW r \in Requests, N!Mail(r)
    PROVE  NoticeInv' /\ QueueInv'
<1>0. /\ Framed /\ TablesTyped /\ pc[r] = "mail" /\ Labelled(r) /\ PlacedNotice(r) /\ RowsAndMails(r)
      /\ FollowersAhead(r) /\ UNCHANGED <<N!tables, N!sockets, N!history>>
  BY DEF N!Mail, NoticeInv, RequestInv
<1>1. CASE N!Fails(r) /\ UNCHANGED N!mailing
  <2>1. Moves(r) /\ pc'[r] = "done" /\ held'[r] = held[r] /\ answer'[r] = "error"
    BY <1>0, <1>1, NoticeFails
  <2>2. Calm(r) /\ vanished' = vanished
    BY <1>0, <1>1, <2>1 DEF Calm, N!history, N!tables
  <2> QED BY <2>1, <2>2, CalmEnds
<1>2. CASE ~(N!Fails(r) /\ UNCHANGED N!mailing)
  <2> DEFINE u == held[r].now
             type == MailOf(r)
  <2>1. /\ Len(jobs) < MaxJobs /\ N!Add(type, u, r) /\ N!Goto(r, N!Onward(r))
    BY <1>2 DEF N!Mail, MailOf
  <2>2. PICK label : /\ N!Goto(r, label)
                     /\ \/ label = "emit" /\ held[r].left = {}
                        \/ label = "insert" /\ held[r].left # {}
    BY <2>1 DEF N!Onward
  <2>3. Moves(r) /\ pc'[r] = label /\ held'[r] = held[r] /\ answer'[r] = answer[r]
    BY <1>0, <2>2, NoticeGoes
  <2>4. /\ u \in Users /\ call[r].kind \in EventKinds /\ held[r] \in Reading /\ type # None
        /\ (Who(r) = "mail" => held[r].left = {} /\ call[r].to = {u})
    BY <1>0 DEF PlacedNotice, Telling
  <2>5. type \in N!Branches /\ Who(r) \in {"early", "row", "late", "asked", "mail"}
    BY <2>4, EventFacts DEF MailOf, N!Of, N!Kind, Who
  <2>6. u \notin N!Mailed(r)
    BY <1>0, <2>4 DEF RowsAndMails
  <2>7. /\ QueueInv' /\ OneJob' /\ N!Mailed(r)' = N!Mailed(r) \cup {u}
        /\ \A q \in Requests \ {r} : N!Mailed(q)' = N!Mailed(q)
    BY <2>1, <2>4, <2>5, <2>6, MailedMore DEF NoticeInv
  <2>8. TablesTyped' /\ UNCHANGED <<steady, vanished, stored, subjects, followers>> /\ \A q : N!Noticed(q)' = N!Noticed(q)
    BY <1>0, NoticedSame DEF TablesTyped, N!history, N!tables
  <2>9. call' = call /\ Who(r)' = Who(r) /\ MailOf(r)' = MailOf(r) /\ N!Told(r, steady[r])' = N!Told(r, steady[r])
        /\ (Owing(r)' => Owing(r))
    <3>1. call' = call
      BY <1>0, <2>3 DEF Moves, Framed
    <3> QED BY <2>8, <3>1, SameCall, ToldThen, OwingSame
  <2>10. Labelled(r)' /\ PlacedNotice(r)'
    BY <1>0, <2>2, <2>3, <2>4, <2>5, <2>8, <2>9 DEF Labelled, PlacedNotice, Reading, Telling
  <2>11. RowsAndMails(r)'
    <3>1. CASE Who(r) = "mail"
      BY <1>0, <2>2, <2>3, <2>4, <2>7, <2>8, <2>9, <3>1 DEF RowsAndMails, PlacedNotice, Over, Telling
    <3>2. CASE Who(r) # "mail"
      BY <1>0, <2>2, <2>3, <2>4, <2>7, <2>8, <2>9, <3>2 DEF RowsAndMails, PlacedNotice, Over, Telling
    <3> QED BY <3>1, <3>2
  <2>12. FollowersAhead(r)'
    BY <1>0, <2>2, <2>3, <2>8, <2>9 DEF FollowersAhead, PlacedNotice, Over, Telling
  <2>13. pc'[r] # "store"
    BY <2>2, <2>3
  <2> HIDE DEF u, type
  <2> QED BY <1>0, <2>3, <2>7, <2>8, <2>10, <2>11, <2>12, <2>13, TellsSo DEF RequestInv
<1> QED BY <1>1, <1>2

LEMMA NoticeEmit ==
    ASSUME NoticeInv, QueueInv, NEW r \in Requests, N!Emit(r)
    PROVE  /\ NoticeInv' /\ QueueInv' /\ Calm(r) /\ UNCHANGED <<joined, watching>>
           /\ pc'[r] = "done" /\ answer'[r] = "ok"
<1>0. /\ Framed /\ pc[r] = "emit" /\ Labelled(r) /\ PlacedNotice(r) /\ RowsAndMails(r) /\ FollowersAhead(r)
      /\ UNCHANGED <<N!mailing, N!tables, joined, watching, N!history>> /\ N!Reply(r, "ok")
  BY DEF N!Emit, NoticeInv, RequestInv
<1>2. Moves(r) /\ pc'[r] = "done" /\ held'[r] = held[r] /\ answer'[r] = "ok"
  BY <1>0, NoticeReplies
<1>3. Calm(r) /\ Keeps(r) /\ call' = call /\ Who(r)' = Who(r) /\ MailOf(r)' = MailOf(r)
      /\ stored' = stored /\ subjects' = subjects /\ steady' = steady /\ vanished' = vanished
  <2>1. Calm(r)
    BY <1>0, <1>2 DEF Calm, N!tables, N!history
  <2> QED BY <1>0, <2>1, CalmKeeps, SameCall DEF Calm, N!history
<1>4. r \in stored /\ call[r].by \in Users /\ Over(r) /\ Over(r)'
  BY <1>0, <1>2, <1>3, DeedFields DEF PlacedNotice, Telling, Over
<1>5. Labelled(r)' /\ PlacedNotice(r)'
  BY <1>0, <1>2, <1>3, <1>4 DEF Labelled, PlacedNotice, Telling, Keeps
<1>6. RowsAndMails(r)'
  <2>1. Who(r) # "mail" /\ MailOf(r) # None => \E u \in Users : N!Noticed(r) \ N!Mailed(r) \subseteq {u}
    BY <1>0, <1>4 DEF RowsAndMails
  <2> QED BY <1>0, <1>2, <1>3, <1>4, <2>1 DEF RowsAndMails, Keeps
<1>7. N!Told(r, steady[r])' = N!Told(r, steady[r]) /\ (Owing(r)' => Owing(r))
  BY <1>3, ToldThen, OwingSame
<1>8. FollowersAhead(r)'
  BY <1>0, <1>2, <1>3, <1>4, <1>7 DEF FollowersAhead, Keeps
<1>9. pc'[r] # "store"
  BY <1>2
<1> QED BY <1>0, <1>2, <1>3, <1>5, <1>6, <1>8, <1>9, CalmSo DEF RequestInv

\* Whom a deed tells at first.
StartsWith(r) ==
    CASE N!Of(r).who = "row" -> N!Left(followers[call[r].subject])
      [] N!Of(r).who = "asked" -> N!Left(call[r].to)
      [] N!Of(r).who = "early" -> held[r]
      [] N!Of(r).who = "mail" -> [left |-> {}, now |-> CHOOSE u \in call[r].to : TRUE]
      [] OTHER -> N!Nobody

LEMMA StartsWithSome ==
    ASSUME NoticeInv, NEW r \in Requests, pc[r] = "store"
    PROVE  /\ call[r].kind \in EventKinds /\ call[r].to \subseteq Users
           /\ Who(r) \in {"early", "row", "late", "asked", "none", "mail"}
           /\ StartsWith(r) \in Reading
           /\ Who(r) \in {"early", "row"} => steady[r] \subseteq StartsWith(r).left
           /\ Who(r) \in {"late", "none"} => StartsWith(r).left = {}
           /\ Who(r) = "mail" => /\ StartsWith(r).left = {} /\ StartsWith(r).now \in Users
                                 /\ call[r].to = {StartsWith(r).now} /\ MailOf(r) # None
<1>0. PlacedNotice(r) /\ FollowersAhead(r) /\ TablesTyped
  BY DEF NoticeInv, RequestInv
<1>1. call[r].kind \in EventKinds /\ call[r] \in Deeds /\ call[r].to \subseteq Users
  BY <1>0, DeedFields DEF PlacedNotice
<1>2. N!Of(r) = N!Events[call[r].kind]
  BY DEF N!Of, N!Kind
<1>3. Who(r) \in {"early", "row", "late", "asked", "none", "mail"}
  BY <1>1, <1>2, EventFacts DEF Who
<1>4. \A users \in SUBSET Users : N!Left(users) \in Reading /\ N!Left(users).left = users
  BY DEF N!Left, N!Nobody, Reading
<1>5. CASE Who(r) = "row"
  <2>1. call[r].kind \in N!Creating \/ call[r].kind \notin N!Unasked
    BY <1>1, <1>2, <1>5, EventFacts DEF Who
  <2>2. call[r].subject \in Subjects
    BY <1>0, <1>1, <2>1, DeedFields DEF PlacedNotice
  <2>3. followers[call[r].subject] \in SUBSET Users
    BY <1>0, <2>2 DEF TablesTyped
  <2>4. StartsWith(r) = N!Left(followers[call[r].subject])
    BY <1>5 DEF StartsWith, Who
  <2>5. steady[r] \subseteq followers[call[r].subject]
    BY <1>1 DEF NoticeInv, SteadyStand
  <2> QED BY <1>1, <1>3, <1>4, <1>5, <2>3, <2>4, <2>5
<1>6. CASE Who(r) = "asked"
  <2>1. StartsWith(r) = N!Left(call[r].to)
    BY <1>6 DEF StartsWith, Who
  <2> QED BY <1>1, <1>3, <1>4, <1>6, <2>1
<1>7. CASE Who(r) = "early"
  <2>1. StartsWith(r) = held[r]
    BY <1>7 DEF StartsWith, Who
  <2> QED BY <1>0, <1>1, <1>3, <1>7, <2>1 DEF PlacedNotice, FollowersAhead
<1>8. CASE Who(r) = "mail"
  <2>1. StartsWith(r) = [left |-> {}, now |-> CHOOSE u \in call[r].to : TRUE]
    BY <1>8 DEF StartsWith, Who
  <2>2. call[r].kind \in N!MailsOnly /\ MailOf(r) \in N!Branches
    BY <1>1, <1>2, <1>8, EventFacts DEF Who, MailOf
  <2>3. PICK v \in Users : call[r].to = {v}
    BY <1>1, <2>2, DeedFields
  <2>4. (CHOOSE u \in call[r].to : TRUE) = v
    BY <2>3
  <2>5. None \notin N!Branches
    BY NoticesGiven DEF N!NoticesAssumption
  <2> QED BY <1>1, <1>3, <1>8, <2>1, <2>2, <2>3, <2>4, <2>5 DEF Reading
<1>9. CASE Who(r) \in {"late", "none"}
  <2>1. StartsWith(r) = N!Nobody
    BY <1>9 DEF StartsWith, Who
  <2> QED BY <1>1, <1>3, <1>9, <2>1 DEF N!Nobody, Reading
<1> QED BY <1>3, <1>5, <1>6, <1>7, <1>8, <1>9

LEMMA NoticeStore ==
    ASSUME NoticeInv, QueueInv, NEW r \in Requests, N!Store(r)
    PROVE  NoticeInv' /\ QueueInv'
<1>0. /\ Framed /\ TablesTyped /\ pc[r] = "store" /\ Labelled(r) /\ PlacedNotice(r) /\ RowsAndMails(r)
      /\ FollowersAhead(r) /\ UNCHANGED <<N!mailing, followers, rows, N!sockets, N!history>>
  BY DEF N!Store, NoticeInv, RequestInv
<1> DEFINE s == call[r].subject
           label == IF N!Of(r).who = "mail" THEN "mail" ELSE IF N!Of(r).who = "none" THEN "emit" ELSE "gather"
<1>1. CASE N!Fails(r) /\ UNCHANGED <<stored, subjects, assignees>>
  <2>1. Moves(r) /\ pc'[r] = "done" /\ held'[r] = held[r] /\ answer'[r] = "error"
    BY <1>0, <1>1, NoticeFails
  <2>2. Calm(r) /\ vanished' = vanished
    BY <1>0, <1>1, <2>1 DEF Calm, N!history
  <2> QED BY <2>1, <2>2, CalmEnds
<1>2. CASE ~(N!Fails(r) /\ UNCHANGED <<stored, subjects, assignees>>)
  <2>1. /\ stored' = stored \cup {r}
        /\ subjects' = subjects \cup (IF call[r].kind \in N!Creating THEN {s} ELSE {})
        /\ assignees' = IF call[r].kind = "assign" THEN [assignees EXCEPT ![s] = @ \cup call[r].to] ELSE assignees
        /\ N!Continue(r, label, StartsWith(r))
    BY <1>2 DEF N!Store, N!Subject, N!Kind, StartsWith
  <2>2. Moves(r) /\ pc'[r] = label /\ held'[r] = StartsWith(r) /\ answer'[r] = answer[r]
    BY <1>0, <2>1, NoticeContinues
  <2>3. /\ call[r].kind \in EventKinds /\ call[r].to \subseteq Users
        /\ Who(r) \in {"early", "row", "late", "asked", "none", "mail"}
        /\ StartsWith(r) \in Reading
        /\ Who(r) \in {"early", "row"} => steady[r] \subseteq StartsWith(r).left
        /\ Who(r) \in {"late", "none"} => StartsWith(r).left = {}
        /\ Who(r) = "mail" => /\ StartsWith(r).left = {} /\ StartsWith(r).now \in Users
                              /\ call[r].to = {StartsWith(r).now} /\ MailOf(r) # None
    BY <1>0, StartsWithSome
  <2>4. call[r].kind \in N!Creating => s \in Subjects
    BY <1>0, DeedFields DEF PlacedNotice
  <2>5. assignees' \in [Subjects -> SUBSET Users]
    <3>1. CASE call[r].kind = "assign"
      <4>1. s \in Subjects
        BY <1>0, <2>3, <3>1, EventFacts DEF PlacedNotice
      <4> QED BY <1>0, <2>1, <2>3, <3>1, <4>1 DEF TablesTyped
    <3>2. CASE call[r].kind # "assign"
      BY <1>0, <2>1, <3>2 DEF TablesTyped
    <3> QED BY <3>1, <3>2
  <2>6. TablesTyped'
    BY <1>0, <2>1, <2>4, <2>5 DEF TablesTyped, N!history
  <2>7. QueueInv' /\ OneJob' /\ (\A q : N!Mailed(q)' = N!Mailed(q)) /\ (\A q : N!Noticed(q)' = N!Noticed(q))
    BY <1>0, MailedSame, NoticedSame DEF NoticeInv
  <2>8. call' = call /\ Who(r)' = Who(r) /\ MailOf(r)' = MailOf(r) /\ steady' = steady /\ vanished' = vanished
        /\ N!Told(r, steady[r])' = N!Told(r, steady[r])
    <3>1. call' = call
      BY <1>0, <2>2 DEF Moves, Framed
    <3> QED BY <1>0, <3>1, SameCall, ToldThen DEF N!history
  <2>9. label = (IF Who(r) = "mail" THEN "mail" ELSE IF Who(r) = "none" THEN "emit" ELSE "gather")
    BY DEF Who
  <2> HIDE DEF label, s
  <2>10. Labelled(r)' /\ PlacedNotice(r)'
    BY <1>0, <2>1, <2>2, <2>3, <2>8, <2>9 DEF Labelled, PlacedNotice, Reading, Telling
  <2>11. RowsAndMails(r)'
    <3>1. Who(r) = "none" => MailOf(r) = None
      BY <2>3, EventFacts DEF MailOf, Who, N!Of, N!Kind
    <3> QED BY <1>0, <2>1, <2>2, <2>3, <2>7, <2>8, <2>9, <3>1 DEF RowsAndMails, PlacedNotice, Over, Telling
  <2>12. FollowersAhead(r)'
    <3>1. Over(r)' => Who(r) = "none"
      BY <1>0, <2>2, <2>3, <2>8, <2>9 DEF Over, PlacedNotice
    <3>2. Over(r)' => ~Owing(r)'
      BY <2>8, <3>1 DEF Owing
    <3>3. pc'[r] \in {"look", "insert", "push", "mail"} => ~Owing(r)'
      BY <2>2, <2>8, <2>9 DEF Owing
    <3>4. pc'[r] # "store" /\ (pc'[r] = "gather" /\ Who(r) \in {"early", "row"} => steady[r] \subseteq held'[r].left)
      BY <2>2, <2>3, <2>9
    <3> QED BY <2>8, <3>2, <3>3, <3>4 DEF FollowersAhead
  <2>13. ASSUME NEW q \in Requests \ {r} PROVE Stays(q) /\ (Owing(q)' => Owing(q) \/ steady[q] = {})
    <3>1. Stays(q)
      BY <2>1, <2>2, <2>7, <2>8 DEF Stays, Moves
    <3>2. ASSUME Owing(q)', ~Owing(q) PROVE steady[q] = {}
      <4>1. Who(q) = "late" /\ call[q].subject \notin subjects /\ call[q].subject \in subjects'
        BY <2>8, <3>2, SameCall DEF Owing
      <4>2. call[r].kind \in N!Creating /\ call[q].subject = call[r].subject
        BY <2>1, <4>1 DEF s
      <4>3. call[q].kind \in EventKinds
        BY <2>8, <3>2 DEF Owing
      <4>4. call[q].kind \notin N!Creating
        BY <4>1, <4>3, EventFacts DEF Who, N!Of, N!Kind
      <4> QED BY <1>0, <4>2, <4>3, <4>4 DEF NoticeInv, CreatedFirst
    <3> QED BY <3>1, <3>2
  <2>14. Framed' /\ \A q \in Requests : RequestInv(q)'
    BY <2>2, <2>10, <2>11, <2>12, <2>13, OthersSo DEF RequestInv
  <2>15. SteadyStand'
    BY <1>0, <2>8, SteadySame
  <2>16. CreatedFirst'
    <3>1. pc'[r] # "store" /\ \A q \in Requests \ {r} : pc'[q] = pc[q]
      BY <2>2, <2>9 DEF Moves
    <3>2. CASE call[r].kind \in N!Creating
      BY <1>0, <2>1, <2>8, <3>1, <3>2 DEF NoticeInv, CreatedFirst, s
    <3>3. CASE call[r].kind \notin N!Creating
      <4>1. subjects' = subjects
        BY <2>1, <3>3
      <4> QED BY <2>8, <3>1, <4>1, CreatedSame
    <3> QED BY <3>2, <3>3
  <2> QED BY <2>6, <2>7, <2>14, <2>15, <2>16 DEF NoticeInv
<1> QED BY <1>1, <1>2

LEMMA NoticeStart ==
    ASSUME NoticeInv, QueueInv, NEW r \in Requests, N!Start(r)
    PROVE  NoticeInv' /\ QueueInv' /\ Moves(r) /\ r \notin stored /\ pc[r] = "idle" /\ pc'[r] # "done"
<1>0. /\ Framed /\ TablesTyped /\ Labelled(r) /\ PlacedNotice(r) /\ RowsAndMails(r) /\ CreatedFirst
      /\ UNCHANGED <<N!mailing, N!tables, N!sockets, vanished>>
  BY DEF N!Start, NoticeInv, RequestInv
<1>1. PICK d \in Deeds :
         /\ d.kind \in N!Creating => N!NewId(d.subject)
         /\ N!Begin(r, d, IF d.kind \in {"remove", "leave"} THEN "other"
                          ELSE IF d.kind \in N!Unasked THEN "store" ELSE "find")
         /\ steady' = [steady EXCEPT ![r] =
                           IF d.kind \in N!Creating \/ d.subject \in subjects THEN followers[d.subject] ELSE {}]
  BY DEF N!Start
<1> DEFINE label == IF d.kind \in {"remove", "leave"} THEN "other"
                    ELSE IF d.kind \in N!Unasked THEN "store" ELSE "find"
           steadily == IF d.kind \in N!Creating \/ d.subject \in subjects THEN followers[d.subject] ELSE {}
<1>2. /\ Moves(r) /\ pc[r] = "idle" /\ pc'[r] = label /\ call'[r] = d
      /\ held'[r] = held[r] /\ answer'[r] = answer[r]
  BY <1>0, <1>1, NoticeBegins
<1>3. /\ d.kind \in EventKinds \cup {"remove", "leave"}
      /\ d.kind \in N!Creating => d.subject \in Fresh /\ d.subject \in Subjects
      /\ d.kind \in N!Unasked => d.kind \in EventKinds
      /\ d.kind # "none"
  BY DeedFields
<1>4. steadily \subseteq Users /\ (steadily # {} => d.subject \in Subjects /\ steadily = followers[d.subject])
  <2>1. CASE d.kind \in N!Creating \/ d.subject \in subjects
    BY <1>0, <1>3, <2>1 DEF TablesTyped
  <2>2. CASE ~(d.kind \in N!Creating \/ d.subject \in subjects)
    BY <2>2
  <2> QED BY <2>1, <2>2
<1>5. /\ steady'[r] = steadily /\ (\A q \in Requests \ {r} : steady'[q] = steady[q])
      /\ steady' \in [Requests -> SUBSET Users]
  BY <1>0, <1>1, <1>4 DEF TablesTyped
<1>6. QueueInv' /\ OneJob' /\ (\A q : N!Mailed(q)' = N!Mailed(q)) /\ (\A q : N!Noticed(q)' = N!Noticed(q))
  BY <1>0, MailedSame, NoticedSame DEF NoticeInv, N!tables
<1>7. TablesTyped' /\ stored' = stored /\ subjects' = subjects /\ vanished' = vanished /\ followers' = followers
  BY <1>0, <1>5 DEF TablesTyped, N!tables
<1>8. r \notin stored /\ call[r].kind = "none"
  BY <1>0, <1>2 DEF PlacedNotice
<1>9. Who(r)' = N!Events[d.kind].who
  BY <1>2 DEF Who, N!Of, N!Kind
<1> HIDE DEF steadily
<1>10. Labelled(r)'
  BY <1>0, <1>2 DEF Labelled
<1>11. PlacedNotice(r)'
  <2>1. label = "store" => Who(r)' # "early"
    BY <1>3, <1>9, EventFacts
  <2>2. call'[r].kind # "none" /\ call'[r] \in Deeds /\ answer'[r] = "none"
    BY <1>0, <1>2, <1>3 DEF PlacedNotice
  <2>3. (label = "other" => d.kind \in {"remove", "leave"}) /\ (label = "find" => d.kind \notin N!Unasked)
        /\ (label = "store" => d.kind \in N!Unasked) /\ label \in {"other", "find", "store"}
    BY <1>3
  <2> QED BY <1>2, <1>3, <1>7, <1>8, <2>1, <2>2, <2>3 DEF PlacedNotice, Telling
<1>12. RowsAndMails(r)' /\ FollowersAhead(r)'
  <2>1. pc'[r] \in {"other", "find", "store"} /\ r \notin stored' /\ (pc'[r] = "store" => Who(r)' # "early")
    BY <1>2, <1>3, <1>7, <1>8, <1>9, EventFacts
  <2>2. ~Over(r)'
    BY <2>1 DEF Over
  <2>3. N!Noticed(r)' = {} /\ N!Mailed(r)' = {}
    BY <1>0, <1>6, <1>8 DEF RowsAndMails
  <2> QED BY <2>1, <2>2, <2>3 DEF RowsAndMails, FollowersAhead
<1>13. ASSUME NEW q \in Requests \ {r} PROVE Stays(q) /\ (Owing(q)' => Owing(q))
  BY <1>2, <1>5, <1>6, <1>7, OwingSame DEF Stays, Moves
<1>14. Framed' /\ \A q \in Requests : RequestInv(q)'
  BY <1>2, <1>10, <1>11, <1>12, <1>13, OthersSo DEF RequestInv
<1>15. SteadyStand'
  <2>1. \A q \in Requests \ {r} : call'[q] = call[q] /\ steady'[q] = steady[q]
    BY <1>2, <1>5 DEF Moves
  <2> QED BY <1>2, <1>4, <1>5, <1>7, <2>1 DEF NoticeInv, SteadyStand
<1>16. CreatedFirst'
  <2>1. \A q \in Requests \ {r} : call'[q] = call[q] /\ steady'[q] = steady[q] /\ pc'[q] = pc[q]
    BY <1>2, <1>5 DEF Moves
  <2>2. d.kind \in N!Creating => \A q \in Requests : call[q].kind # "none" => call[q].subject # d.subject
    BY <1>1 DEF N!NewId, N!Kind, N!Subject
  <2>3. \A kind \in N!Creating : kind \in EventKinds
    BY DEF N!Creating, EventKinds, N!Events
  <2>4. "none" \notin EventKinds
    BY EventFacts
  <2>5. ASSUME NEW s \in Fresh, s \in subjects' PROVE \E q \in Requests : call'[q].kind \in N!Creating /\ call'[q].subject = s
    <3>1. PICK q \in Requests : call[q].kind \in N!Creating /\ call[q].subject = s
      BY <1>0, <1>7, <2>5 DEF CreatedFirst
    <3>2. q # r
      BY <1>8, <2>3, <2>4, <3>1
    <3> QED BY <2>1, <3>1, <3>2
  <2>6. d.kind \in N!Creating => d.subject \notin subjects
    <3>1. \A q \in Requests : call[q].kind \in N!Creating => call[q].kind # "none"
      BY <2>3, <2>4
    <3> QED BY <1>0, <1>3, <2>2, <3>1 DEF CreatedFirst
  <2>7. ASSUME NEW q \in Requests, call'[q].kind \in N!Creating
        PROVE  /\ \A p \in Requests : call'[p].kind \in N!Creating /\ call'[p].subject = call'[q].subject => p = q
               /\ pc'[q] = "store" => call'[q].subject \notin subjects'
               /\ pc'[q] = "store" => \A p \in Requests : call'[p].kind \in EventKinds \ N!Creating
                                         /\ call'[p].subject = call'[q].subject => steady'[p] = {}
    <3>1. CASE q = r
      <4>1. \A p \in Requests \ {r} : call'[p].kind \in EventKinds => call'[p].subject # d.subject
        BY <1>2, <2>1, <2>2, <2>4, <2>7, <3>1
      <4> QED BY <1>2, <1>7, <2>3, <2>6, <2>7, <3>1, <4>1
    <3>2. CASE q # r
      <4>1. call'[q] = call[q] /\ pc'[q] = pc[q] /\ call[q].kind # "none"
        BY <2>1, <2>3, <2>4, <2>7, <3>2
      <4>2. pc'[q] = "store" => call'[q].subject \notin subjects'
        BY <1>0, <1>7, <2>7, <4>1 DEF CreatedFirst
      <4>3. d.kind \in N!Creating => call[q].subject # d.subject
        BY <2>2, <4>1
      <4>4. d.kind \notin N!Creating /\ d.subject \notin subjects => steady'[r] = {}
        BY <1>5 DEF steadily
      <4> QED BY <1>0, <1>2, <1>7, <2>1, <2>7, <4>1, <4>2, <4>3, <4>4 DEF CreatedFirst
    <3> QED BY <3>1, <3>2
  <2> QED BY <2>5, <2>7 DEF CreatedFirst
<1>17. pc'[r] # "done"
  BY <1>2
<1> QED BY <1>2, <1>6, <1>7, <1>8, <1>14, <1>15, <1>16, <1>17 DEF NoticeInv

LEMMA NoticeOther ==
    ASSUME NoticeInv, QueueInv, NEW r \in Requests, N!Other(r)
    PROVE  NoticeInv' /\ QueueInv' /\ Moves(r) /\ r \notin stored
<1>0. /\ Framed /\ TablesTyped /\ pc[r] = "other" /\ Labelled(r) /\ PlacedNotice(r) /\ N!Reply(r, "ok")
      /\ UNCHANGED <<N!mailing, assignees, stored, rows, N!sockets, vanished>>
  BY DEF N!Other, NoticeInv, RequestInv
<1>1. Moves(r) /\ pc'[r] = "done" /\ held'[r] = held[r] /\ answer'[r] = "ok" /\ call' = call
  <2>1. Moves(r) /\ pc'[r] = "done" /\ held'[r] = held[r] /\ answer'[r] = "ok"
    BY <1>0, NoticeReplies
  <2> QED BY <1>0, <2>1 DEF Moves, Framed
<1>2. r \notin stored /\ call[r] \in Deeds /\ call[r].kind \in {"remove", "leave"} /\ call[r].kind \notin EventKinds
  BY <1>0, EventFacts DEF PlacedNotice
<1>3. PICK s \in Subjects : s = call[r].subject
  BY <1>2, DeedFields
<1>4. \/ subjects' = subjects \ {s} /\ followers' = followers /\ steady' = steady
      \/ /\ subjects' = subjects
         /\ followers' = [followers EXCEPT ![s] = @ \ call[r].to]
         /\ steady' = [q \in Requests |-> IF q # r /\ call[q].kind # "none" /\ call[q].subject = s
                                          THEN steady[q] \ call[r].to ELSE steady[q]]
  BY <1>3 DEF N!Other, N!Kind, N!Subject
<1>5. /\ subjects' \subseteq subjects /\ followers' \in [Subjects -> SUBSET Users]
      /\ steady' \in [Requests -> SUBSET Users] /\ steady'[r] = steady[r]
      /\ \A q \in Requests : steady'[q] \subseteq steady[q]
  BY <1>0, <1>4 DEF TablesTyped
<1>6. QueueInv' /\ OneJob' /\ (\A q : N!Mailed(q)' = N!Mailed(q)) /\ (\A q : N!Noticed(q)' = N!Noticed(q))
  BY <1>0, MailedSame, NoticedSame DEF NoticeInv
<1>7. TablesTyped'
  BY <1>0, <1>5 DEF TablesTyped
<1>8. RequestInv(r)'
  BY <1>0, <1>1, <1>2, <1>5, <1>6, EndsSo DEF Keeps, NoticeInv
<1>9. ASSUME NEW q \in Requests \ {r} PROVE Stays(q) /\ (Owing(q)' => Owing(q))
  BY <1>0, <1>1, <1>5, <1>6, OwingSame DEF Stays, Moves
<1>10. Framed' /\ \A q \in Requests : RequestInv(q)'
  BY <1>1, <1>8, <1>9, OthersSo
<1>11. SteadyStand'
  <2>1. ASSUME NEW q \in Requests, call'[q].kind \in EventKinds, steady'[q] # {}
        PROVE  call'[q].subject \in Subjects /\ steady'[q] \subseteq followers'[call'[q].subject]
    <3>1. q # r /\ call'[q] = call[q] /\ call[q].kind \in EventKinds /\ call[q].kind # "none"
      BY <1>1, <1>2, <2>1, EventFacts
    <3>2. steady[q] # {} /\ call[q].subject \in Subjects /\ steady[q] \subseteq followers[call[q].subject]
      BY <1>5, <2>1, <3>1 DEF NoticeInv, SteadyStand
    <3>3. CASE followers' = followers
      BY <1>5, <3>1, <3>2, <3>3
    <3>4. CASE /\ followers' = [followers EXCEPT ![s] = @ \ call[r].to]
               /\ steady' = [p \in Requests |-> IF p # r /\ call[p].kind # "none" /\ call[p].subject = s
                                                THEN steady[p] \ call[r].to ELSE steady[p]]
      BY <1>0, <3>1, <3>2, <3>4 DEF TablesTyped
    <3> QED BY <1>4, <3>3, <3>4
  <2> QED BY <2>1 DEF SteadyStand
<1>12. CreatedFirst'
  <2>1. \A q \in Requests : pc'[q] = "store" => pc[q] = "store"
    BY <1>1 DEF Moves
  <2> QED BY <1>1, <1>5, <2>1, CreatedSame
<1> QED BY <1>1, <1>2, <1>6, <1>7, <1>10, <1>11, <1>12 DEF NoticeInv

\* What clients do, and the worker, leaves the requests as they are.
LEMMA QuietSo ==
    ASSUME NoticeInv, QueueInv', OneJob', UNCHANGED <<pc, call, held, answer>>,
           UNCHANGED <<subjects, followers, assignees, stored, N!history>>, rows' \in [Requests \X Users -> N!RowStates],
           \A q \in Requests : N!Noticed(q)' = N!Noticed(q) /\ N!Mailed(q)' = N!Mailed(q)
    PROVE  NoticeInv'
<1>1. ASSUME NEW q \in Requests PROVE RequestInv(q)'
  <2>1. Stays(q) /\ (Owing(q)' => Owing(q))
    BY OwingSame DEF Stays, N!history
  <2> QED BY <2>1, StaysSo DEF NoticeInv
<1>2. Framed' /\ TablesTyped'
  BY DEF NoticeInv, Framed, TablesTyped, N!history
<1>3. SteadyStand' /\ CreatedFirst'
  BY SteadySame, CreatedSame DEF N!history
<1> QED BY <1>1, <1>2, <1>3 DEF NoticeInv

LEMMA NoticeSame ==
    ASSUME NoticeInv, QueueInv, UNCHANGED <<pc, call, held, answer>>, UNCHANGED <<N!tables, N!history>>,
           N!Work \/ N!WorkAgain \/ UNCHANGED N!mailing
    PROVE  NoticeInv' /\ QueueInv'
<1>1. QueueInv' /\ KeepsJobs
  BY JobsKept
<1>2. OneJob' /\ \A q : N!Mailed(q)' = N!Mailed(q)
  BY <1>1, MailedKept DEF QueueInv, NoticeInv
<1>3. \A q : N!Noticed(q)' = N!Noticed(q)
  BY NoticedSame DEF N!tables
<1>4. rows' \in [Requests \X Users -> N!RowStates]
  BY DEF N!tables, NoticeInv, TablesTyped
<1> QED BY <1>1, <1>2, <1>3, <1>4, QuietSo DEF N!tables

LEMMA NoticeMarkRead ==
    ASSUME NoticeInv, QueueInv, Watchers, NEW u \in Clients, N!MarkRead(u) \/ N!Delete(u)
    PROVE  NoticeInv' /\ QueueInv' /\ \A q \in Requests : N!Noticed(q)' = N!Noticed(q)
<1>0. /\ UNCHANGED <<pc, call, held, answer>> /\ UNCHANGED <<N!mailing, subjects, followers, assignees, stored, N!history>>
      /\ rows \in [Requests \X Users -> N!RowStates] /\ u \in Users
  BY NoticesGiven DEF N!MarkRead, N!Delete, N!handlers, NoticeInv, TablesTyped, N!NoticesAssumption
<1>1. rows' \in [Requests \X Users -> N!RowStates]
      /\ \A x \in Requests \X Users : rows'[x] = "none" <=> rows[x] = "none"
  <2>1. CASE N!MarkRead(u)
    <3>1. PICK S : rows' = [x \in DOMAIN rows |-> IF x \in S /\ rows[x] = "unread" THEN "read" ELSE rows[x]]
      BY <2>1 DEF N!MarkRead
    <3> QED BY <1>0, <3>1 DEF N!RowStates
  <2>2. CASE N!Delete(u)
    <3>1. PICK x \in N!Shown(u) : rows' = [rows EXCEPT ![x] = "deleted"]
      BY <2>2 DEF N!Delete
    <3>2. PICK r \in Requests : x = <<r, u>> /\ <<N!UserRoom(u), r, "row">> \in known[u]
      BY <1>0, <3>1 DEF N!Shown
    <3>3. rows[x] # "none" /\ x \in Requests \X Users
      BY <1>0, <3>2 DEF Watchers, N!Noticed
    <3> QED BY <1>0, <3>1, <3>3 DEF N!RowStates
  <2> QED BY <2>1, <2>2
<1>2. \A q \in Requests : N!Noticed(q)' = N!Noticed(q)
  BY <1>1 DEF N!Noticed
<1>3. QueueInv' /\ OneJob' /\ \A q : N!Mailed(q)' = N!Mailed(q)
  BY <1>0, MailedSame DEF NoticeInv
<1> QED BY <1>0, <1>1, <1>2, <1>3, QuietSo

LEMMA NoticeCrash ==
    ASSUME NoticeInv, QueueInv, N!Crash
    PROVE  NoticeInv' /\ QueueInv'
<1>0. /\ N!WorkerStops /\ UNCHANGED <<call, held, N!tables, known, N!history>>
      /\ pc' = [r \in Requests |-> IF pc[r] = "idle" THEN "idle" ELSE "done"]
      /\ answer' = [r \in Requests |-> IF pc[r] \in {"idle", "done"} THEN answer[r] ELSE "cut"]
  BY DEF N!Crash
<1>1. QueueInv' /\ KeepsJobs
  BY <1>0, JobsKept
<1>2. OneJob' /\ (\A q : N!Mailed(q)' = N!Mailed(q)) /\ (\A q : N!Noticed(q)' = N!Noticed(q))
  BY <1>0, <1>1, MailedKept, NoticedSame DEF QueueInv, NoticeInv, N!tables
<1>3. ASSUME NEW q \in Requests PROVE RequestInv(q)'
  <2>1. /\ pc'[q] = (IF pc[q] = "idle" THEN "idle" ELSE "done")
        /\ answer'[q] = (IF pc[q] \in {"idle", "done"} THEN answer[q] ELSE "cut")
        /\ call'[q] = call[q] /\ held'[q] = held[q] /\ steady' = steady /\ stored' = stored /\ vanished' = vanished
        /\ subjects' = subjects
    BY <1>0 DEF N!tables, N!history
  <2>2. CASE pc[q] \in {"idle", "done"}
    <3>1. Stays(q) /\ (Owing(q)' => Owing(q))
      BY <1>2, <2>1, <2>2, OwingSame DEF Stays
    <3> QED BY <3>1, StaysSo DEF NoticeInv
  <2>3. CASE pc[q] \notin {"idle", "done"}
    BY <1>2, <2>1, <2>3, EndsSo DEF Keeps, NoticeInv
  <2> QED BY <2>2, <2>3
<1>4. Framed' /\ TablesTyped'
  BY <1>0 DEF NoticeInv, Framed, TablesTyped, N!tables, N!history
<1>5. SteadyStand' /\ CreatedFirst'
  <2>1. \A q \in Requests : pc'[q] # "store"
    BY <1>0
  <2> QED BY <1>0, <2>1, SteadySame, CreatedSame DEF N!tables, N!history
<1> QED BY <1>1, <1>2, <1>3, <1>4, <1>5 DEF NoticeInv

-----------------------------------------------------------------------------
(***************************************************************************)
(* The clients: what they watch                                            *)
(***************************************************************************)

\* What a step leaves of a request for those who watch.
SeenSo(q) ==
    /\ N!Noticed(q) \subseteq N!Noticed(q)'
    /\ pc[q] = "push" => pc'[q] = "push" /\ held'[q] = held[q]
    /\ \A u \in Clients : rows'[<<q, u>>] \in {"unread", "read"} =>
          rows[<<q, u>>] \in {"unread", "read"} \/ (pc'[q] = "push" /\ held'[q].now = u)
    /\ q \in stored => call'[q] = call[q]
    /\ q \in stored' => q \in stored \/ pc'[q] # "done"
    /\ q \in stored /\ pc'[q] = "done" /\ answer'[q] = "ok" => pc[q] = "done" /\ answer[q] = "ok"

LEMMA RoomsSame ==
    ASSUME NEW q, call'[q] = call[q]
    PROVE  N!RoomsOf(q)' = N!RoomsOf(q)
BY SameCall DEF N!RoomsOf, N!Subject, N!UserRoom

LEMMA WatchersSame ==
    ASSUME Watchers, UNCHANGED N!sockets, \A q \in Requests : SeenSo(q), stored' \subseteq Requests
    PROVE  Watchers'
<1>0. joined' = joined /\ known' = known /\ watching' = watching
  BY DEF N!sockets
<1>1. SocketsTyped'
  BY <1>0 DEF Watchers, SocketsTyped
<1>2. \A u \in Clients : watching'[u] \subseteq joined'[u] /\ joined'[u] \subseteq N!Joinable(u)
  BY <1>0 DEF Watchers
<1>3. ASSUME NEW u \in Clients, NEW r \in Requests, <<N!UserRoom(u), r, "row">> \in known'[u]
      PROVE  u \in N!Noticed(r)'
  BY <1>0, <1>3 DEF Watchers, SeenSo
<1>4. RowsSeen'
  <2>1. ASSUME NEW u \in Clients, NEW r \in Requests, N!UserRoom(u) \in watching[u],
               rows'[<<r, u>>] \in {"unread", "read"}
        PROVE  <<N!UserRoom(u), r, "row">> \in known[u] \/ (pc'[r] = "push" /\ held'[r].now = u)
    <3>1. SeenSo(r)
      OBVIOUS
    <3>2. CASE pc'[r] = "push" /\ held'[r].now = u
      BY <3>2
    <3>3. CASE rows[<<r, u>>] \in {"unread", "read"}
      BY <2>1, <3>1, <3>3 DEF Watchers, RowsSeen, SeenSo
    <3> QED BY <2>1, <3>1, <3>2, <3>3 DEF SeenSo
  <2> QED BY <1>0, <2>1 DEF RowsSeen, N!UserRoom
<1>5. DeedsSeen'
  <2>1. ASSUME NEW u \in Clients, NEW r \in stored', NEW room \in watching[u],
               room.type # "user", room \in N!RoomsOf(r)'
        PROVE  <<room, r, "deed">> \in known[u] \/ pc'[r] # "done" \/ answer'[r] # "ok"
    <3>1. SeenSo(r)
      OBVIOUS
    <3>2. CASE r \in stored
      <4>1. room \in N!RoomsOf(r)
        BY <2>1, <3>1, <3>2, RoomsSame DEF SeenSo
      <4> QED BY <2>1, <3>1, <3>2, <4>1 DEF Watchers, DeedsSeen, SeenSo
    <3> QED BY <3>1, <3>2 DEF SeenSo
  <2> QED BY <1>0, <2>1 DEF DeedsSeen
<1>6. \A u \in Clients, r \in Requests : <<N!UserRoom(u)', r, "row">> \in known'[u] => u \in N!Noticed(r)'
  BY <1>3 DEF N!UserRoom
<1> QED BY <1>1, <1>2, <1>4, <1>5, <1>6 DEF Watchers, N!Joinable, N!UserRoom

\* A step of one request that changes no socket.
LEMMA WatchersMoved ==
    ASSUME Watchers, NoticeInv, NoticeInv', UNCHANGED N!sockets, NEW r \in Requests, Moves(r), SeenSo(r),
           \A q \in Requests \ {r} : /\ \A u \in Clients : rows'[<<q, u>>] = rows[<<q, u>>]
                                     /\ N!Noticed(q) \subseteq N!Noticed(q)' /\ (q \in stored' => q \in stored)
    PROVE  Watchers'
<1>1. \A q \in Requests \ {r} : SeenSo(q)
  BY DEF SeenSo, Moves
<1>2. stored' \subseteq Requests
  BY DEF NoticeInv, TablesTyped
<1> QED BY <1>1, <1>2, WatchersSame

LEMMA WatchersCalm ==
    ASSUME Watchers, NoticeInv, NoticeInv', UNCHANGED N!sockets, NEW r \in Requests, Calm(r), pc[r] # "push",
           pc'[r] = "done" => answer'[r] # "ok"
    PROVE  Watchers'
<1>1. rows' = rows /\ stored' = stored /\ \A q \in Requests : N!Noticed(q)' = N!Noticed(q)
  BY NoticedSame DEF Calm
<1>2. SeenSo(r)
  BY <1>1 DEF Calm, Moves, SeenSo
<1> QED BY <1>1, <1>2, WatchersMoved DEF Calm

LEMMA WatchersInsert ==
    ASSUME Watchers, NoticeInv, NoticeInv', NEW r \in Requests, N!Insert(r)
    PROVE  Watchers'
<1>0. Framed /\ TablesTyped /\ pc[r] = "insert" /\ PlacedNotice(r) /\ UNCHANGED <<stored, N!sockets>>
  BY DEF N!Insert, NoticeInv, RequestInv
<1>1. CASE N!Fails(r) /\ UNCHANGED rows
  <2>1. Moves(r) /\ pc'[r] = "done" /\ answer'[r] = "error"
    BY <1>0, <1>1, NoticeFails
  <2>2. \A q \in Requests : N!Noticed(q)' = N!Noticed(q)
    BY <1>1, NoticedSame
  <2>3. SeenSo(r)
    BY <1>0, <1>1, <2>1, <2>2 DEF SeenSo, Moves
  <2> QED BY <1>0, <1>1, <2>1, <2>2, <2>3, WatchersMoved
<1>2. CASE ~(N!Fails(r) /\ UNCHANGED rows)
  <2>1. PICK u \in held[r].left :
           /\ rows' = [rows EXCEPT ![<<r, u>>] = IF @ = "none" THEN "unread" ELSE "twice"]
           /\ N!Continue(r, "push", [left |-> held[r].left \ {u}, now |-> u])
    BY <1>2 DEF N!Insert
  <2>2. Moves(r) /\ pc'[r] = "push" /\ held'[r] = [left |-> held[r].left \ {u}, now |-> u]
    BY <1>0, <2>1, NoticeContinues
  <2>3. u \in Users /\ rows \in [Requests \X Users -> N!RowStates] /\ Clients \subseteq Users
    BY <1>0, <2>1, NoticesGiven DEF PlacedNotice, Telling, Reading, TablesTyped, N!NoticesAssumption
  <2>4. \A q \in Requests, v \in Users :
           /\ q # r \/ v # u => rows'[<<q, v>>] = rows[<<q, v>>]
           /\ rows'[<<r, u>>] # "none"
    BY <2>1, <2>3
  <2>5. \A q \in Requests : N!Noticed(q) \subseteq N!Noticed(q)'
    BY <2>4 DEF N!Noticed
  <2>6. SeenSo(r)
    BY <1>0, <2>2, <2>3, <2>4, <2>5 DEF SeenSo, Moves
  <2> QED BY <1>0, <2>2, <2>3, <2>4, <2>5, <2>6, WatchersMoved
<1> QED BY <1>1, <1>2

LEMMA WatchersMail ==
    ASSUME Watchers, NoticeInv, NoticeInv', NEW r \in Requests, N!Mail(r)
    PROVE  Watchers'
<1>0. Framed /\ pc[r] = "mail" /\ PlacedNotice(r) /\ UNCHANGED <<N!tables, N!sockets>>
  BY DEF N!Mail, NoticeInv, RequestInv
<1>1. \A q \in Requests : N!Noticed(q)' = N!Noticed(q)
  BY <1>0, NoticedSame DEF N!tables
<1>2. Moves(r) /\ (pc'[r] = "done" => answer'[r] = "error")
  <2>1. CASE N!Fails(r)
    BY <1>0, <2>1, NoticeFails
  <2>2. CASE N!Goto(r, N!Onward(r))
    <3>1. N!Onward(r) \in {"emit", "insert"}
      BY DEF N!Onward
    <3> QED BY <1>0, <2>2, <3>1, NoticeGoes
  <2> QED BY <2>1, <2>2 DEF N!Mail
<1>3. SeenSo(r)
  BY <1>0, <1>1, <1>2 DEF SeenSo, Moves, N!tables
<1> QED BY <1>0, <1>1, <1>2, <1>3, WatchersMoved DEF N!tables

LEMMA WatchersStore ==
    ASSUME Watchers, NoticeInv, NoticeInv', NEW r \in Requests, N!Store(r)
    PROVE  Watchers'
<1>0. Framed /\ pc[r] = "store" /\ PlacedNotice(r) /\ UNCHANGED <<rows, N!sockets>>
  BY DEF N!Store, NoticeInv, RequestInv
<1>1. \A q \in Requests : N!Noticed(q)' = N!Noticed(q)
  BY <1>0, NoticedSame
<1>2. CASE N!Fails(r) /\ stored' = stored
  <2>1. Moves(r) /\ pc'[r] = "done" /\ answer'[r] = "error"
    BY <1>0, <1>2, NoticeFails
  <2>2. SeenSo(r)
    BY <1>0, <1>1, <1>2, <2>1 DEF SeenSo, Moves
  <2> QED BY <1>0, <1>1, <1>2, <2>1, <2>2, WatchersMoved
<1>3. CASE ~(N!Fails(r) /\ stored' = stored)
  <2>1. PICK label, told : /\ label \in {"mail", "emit", "gather"}
                           /\ stored' = stored \cup {r} /\ N!Continue(r, label, told)
    BY <1>3 DEF N!Store
  <2>2. Moves(r) /\ pc'[r] = label
    BY <1>0, <2>1, NoticeContinues
  <2>3. SeenSo(r)
    BY <1>0, <1>1, <2>1, <2>2 DEF SeenSo, Moves, PlacedNotice
  <2> QED BY <1>0, <1>1, <2>1, <2>2, <2>3, WatchersMoved
<1> QED BY <1>2, <1>3

LEMMA WatchersIdle ==
    ASSUME Watchers, NoticeInv, NoticeInv', NEW r \in Requests, Moves(r), r \notin stored, pc[r] # "push",
           UNCHANGED <<stored, rows, N!sockets>>
    PROVE  Watchers'
<1>1. \A q \in Requests : N!Noticed(q)' = N!Noticed(q)
  BY NoticedSame
<1>2. SeenSo(r)
  BY <1>1 DEF SeenSo
<1> QED BY <1>1, <1>2, WatchersMoved

LEMMA WatchersPush ==
    ASSUME Watchers, NoticeInv, NoticeInv', NEW r \in Requests, N!Push(r), Calm(r), pc'[r] # "done"
    PROVE  Watchers'
<1> DEFINE now == held[r].now
<1>0. /\ Framed /\ pc[r] = "push" /\ PlacedNotice(r) /\ RowsAndMails(r) /\ joined' = joined /\ watching' = watching
      /\ known' = [u \in Clients |-> known[u] \cup {<<room, r, "row">> : room \in {N!UserRoom(now)} \cap joined[u]}]
  BY DEF N!Push, N!Emitted, N!PushRoom, NoticeInv, RequestInv
<1>1. now \in N!Noticed(r)
  BY <1>0 DEF RowsAndMails
<1>2. rows' = rows /\ stored' = stored /\ \A q \in Requests : N!Noticed(q)' = N!Noticed(q)
  BY NoticedSame DEF Calm
<1>3. /\ joined \in [Clients -> SUBSET N!Rooms] /\ known \in [Clients -> SUBSET (N!Rooms \X Requests \X {"row", "deed"})]
      /\ \A u \in Clients : watching[u] \subseteq joined[u] /\ joined[u] \subseteq N!Joinable(u)
  BY DEF Watchers, SocketsTyped
<1>4. \A u \in Clients : known[u] \subseteq known'[u]
  BY <1>0
<1>5. ASSUME NEW u \in Clients
      PROVE  known'[u] \subseteq N!Rooms \X Requests \X {"row", "deed"}
  BY <1>0, <1>3
<1>6. known' \in [Clients -> SUBSET (N!Rooms \X Requests \X {"row", "deed"})]
  BY <1>0, <1>5
<1>7. SocketsTyped'
  BY <1>0, <1>6 DEF Watchers, SocketsTyped
<1>8. ASSUME NEW u \in Clients, NEW q \in Requests, <<N!UserRoom(u), q, "row">> \in known'[u]
      PROVE  u \in N!Noticed(q)
  <2>1. CASE <<N!UserRoom(u), q, "row">> \in known[u]
    BY <2>1 DEF Watchers
  <2>2. CASE <<N!UserRoom(u), q, "row">> \notin known[u]
    <3>1. q = r /\ N!UserRoom(u) = N!UserRoom(now)
      BY <1>0, <1>8, <2>2
    <3>2. u = now
      BY <3>1 DEF N!UserRoom
    <3> QED BY <1>1, <3>1, <3>2
  <2> QED BY <2>1, <2>2
<1>9. RowsSeen'
  <2>1. ASSUME NEW u \in Clients, NEW q \in Requests, N!UserRoom(u) \in watching[u], rows[<<q, u>>] \in {"unread", "read"}
        PROVE  <<N!UserRoom(u), q, "row">> \in known'[u] \/ (pc'[q] = "push" /\ held'[q].now = u)
    <3>1. CASE q = r /\ now = u
      <4>1. N!UserRoom(u) \in {N!UserRoom(now)} \cap joined[u]
        BY <1>3, <2>1, <3>1
      <4> QED BY <1>0, <3>1, <4>1
    <3>2. CASE q = r /\ now # u
      BY <1>4, <2>1, <3>2 DEF Watchers, RowsSeen
    <3>3. CASE q # r
      BY <1>4, <2>1, <3>3 DEF Watchers, RowsSeen, Calm, Moves
    <3> QED BY <3>1, <3>2, <3>3
  <2> QED BY <1>0, <1>2, <2>1 DEF RowsSeen, N!UserRoom
<1>10. DeedsSeen'
  <2>1. call' = call
    BY DEF Calm, Moves, Framed, NoticeInv
  <2>2. stored \subseteq Requests
    BY DEF NoticeInv, TablesTyped
  <2>3. ASSUME NEW u \in Clients, NEW q \in stored, NEW room \in watching[u], room.type # "user", room \in N!RoomsOf(q)
        PROVE  <<room, q, "deed">> \in known'[u] \/ pc'[q] # "done" \/ answer'[q] # "ok"
    <3>1. q \in Requests
      BY <2>2
    <3>2. CASE q = r
      BY <3>2
    <3>3. CASE q # r
      BY <1>4, <2>3, <3>1, <3>3 DEF Watchers, DeedsSeen, Calm, Moves
    <3> QED BY <3>2, <3>3
  <2>4. \A q : N!RoomsOf(q)' = N!RoomsOf(q)
    BY <2>1, RoomsSame
  <2> QED BY <1>0, <1>2, <2>3, <2>4 DEF DeedsSeen
<1>11. \A u \in Clients, q \in Requests : <<N!UserRoom(u)', q, "row">> \in known'[u] => u \in N!Noticed(q)'
  BY <1>2, <1>8 DEF N!UserRoom
<1> QED BY <1>0, <1>3, <1>7, <1>9, <1>10, <1>11 DEF Watchers, N!Joinable, N!UserRoom

LEMMA WatchersEmit ==
    ASSUME Watchers, NoticeInv, NoticeInv', NEW r \in Requests, N!Emit(r), Calm(r)
    PROVE  Watchers'
<1>0. Framed /\ pc[r] = "emit" /\ joined' = joined /\ watching' = watching /\ N!Reply(r, "ok")
  BY DEF N!Emit, NoticeInv
<1>1. rows' = rows /\ stored' = stored /\ \A q \in Requests : N!Noticed(q)' = N!Noticed(q)
  BY NoticedSame DEF Calm
<1>2. /\ joined \in [Clients -> SUBSET N!Rooms] /\ known \in [Clients -> SUBSET (N!Rooms \X Requests \X {"row", "deed"})]
      /\ \A u \in Clients : watching[u] \subseteq joined[u] /\ joined[u] \subseteq N!Joinable(u)
  BY DEF Watchers, SocketsTyped
<1>3. /\ known' \in [Clients -> SUBSET (N!Rooms \X Requests \X {"row", "deed"})]
      /\ \A u \in Clients : /\ known[u] \subseteq known'[u]
                            /\ \A x \in known'[u] : x \in known[u] \/ x[3] = "deed"
                            /\ \A room \in joined[u] : room \in N!RoomsOf(r) => <<room, r, "deed">> \in known'[u]
  <2>1. CASE N!Of(r).emits = {} /\ known' = known
    <3>1. N!RoomsOf(r) = {}
      BY <2>1 DEF N!RoomsOf
    <3> QED BY <1>2, <2>1, <3>1
  <2>2. CASE known' = [u \in Clients |-> known[u] \cup {<<room, r, "deed">> : room \in N!RoomsOf(r) \cap joined[u]}]
    <3>1. ASSUME NEW u \in Clients
          PROVE  {<<room, r, "deed">> : room \in N!RoomsOf(r) \cap joined[u]} \subseteq N!Rooms \X Requests \X {"row", "deed"}
      BY <1>2
    <3>2. known' \in [Clients -> SUBSET (N!Rooms \X Requests \X {"row", "deed"})]
      BY <1>2, <2>2, <3>1
    <3> QED BY <2>2, <3>2
  <2> QED BY <2>1, <2>2 DEF N!Emit, N!Emitted
<1>4. SocketsTyped'
  BY <1>0, <1>3 DEF Watchers, SocketsTyped
<1>5. ASSUME NEW u \in Clients, NEW q \in Requests, <<N!UserRoom(u), q, "row">> \in known'[u]
      PROVE  u \in N!Noticed(q)
  <2>1. <<N!UserRoom(u), q, "row">> \in known[u]
    BY <1>3, <1>5
  <2> QED BY <2>1 DEF Watchers
<1>6. \A q \in Requests \ {r} : pc'[q] = pc[q] /\ held'[q] = held[q]
  BY DEF Calm, Moves
<1>7. RowsSeen'
  <2>1. ASSUME NEW u \in Clients, NEW q \in Requests, N!UserRoom(u) \in watching[u], rows[<<q, u>>] \in {"unread", "read"}
        PROVE  <<N!UserRoom(u), q, "row">> \in known'[u] \/ (pc'[q] = "push" /\ held'[q].now = u)
    BY <1>0, <1>3, <1>6, <2>1 DEF Watchers, RowsSeen
  <2> QED BY <1>0, <1>1, <2>1 DEF RowsSeen, N!UserRoom
<1>8. DeedsSeen'
  <2>1. call' = call
    BY DEF Calm, Moves, Framed, NoticeInv
  <2>2. stored \subseteq Requests
    BY DEF NoticeInv, TablesTyped
  <2>3. ASSUME NEW u \in Clients, NEW q \in stored, NEW room \in watching[u], room.type # "user", room \in N!RoomsOf(q)
        PROVE  <<room, q, "deed">> \in known'[u] \/ pc'[q] # "done" \/ answer'[q] # "ok"
    <3>1. q \in Requests /\ room \in joined[u]
      BY <1>2, <2>2
    <3>2. CASE q = r
      BY <1>3, <2>3, <3>1, <3>2
    <3>3. CASE q # r
      BY <1>3, <2>3, <3>1, <3>3 DEF Watchers, DeedsSeen, Calm, Moves
    <3> QED BY <3>2, <3>3
  <2>4. \A q : N!RoomsOf(q)' = N!RoomsOf(q)
    BY <2>1, RoomsSame
  <2> QED BY <1>0, <1>1, <2>3, <2>4 DEF DeedsSeen
<1>9. \A u \in Clients, q \in Requests : <<N!UserRoom(u)', q, "row">> \in known'[u] => u \in N!Noticed(q)'
  BY <1>1, <1>5 DEF N!UserRoom
<1> QED BY <1>0, <1>2, <1>4, <1>7, <1>8, <1>9 DEF Watchers, N!Joinable, N!UserRoom

\* What is listed of a room.
LEMMA ListedOf ==
    ASSUME TablesTyped, NEW room \in ClientRooms
    PROVE  /\ N!Listed(room) \subseteq N!Rooms \X Requests \X {"row", "deed"}
           /\ \A u \in Users, r \in Requests :
                 /\ room = N!UserRoom(u) /\ rows[<<r, u>>] \in {"unread", "read"} => <<room, r, "row">> \in N!Listed(room)
                 /\ <<N!UserRoom(u), r, "row">> \in N!Listed(room) => u \in N!Noticed(r)
           /\ \A r \in stored : room.type # "user" /\ room \in N!RoomsOf(r) => <<room, r, "deed">> \in N!Listed(room)
<1>1. room \in N!Rooms /\ stored \subseteq Requests
  BY NoticesGiven DEF N!NoticesAssumption, TablesTyped
<1>2. N!Listed(room) \subseteq N!Rooms \X Requests \X {"row", "deed"}
  <2>1. CASE room.type = "user"
    <3>1. N!Listed(room) = {<<room, r, "row">> : r \in {q \in Requests : rows[<<q, room.of>>] \in {"unread", "read"}}}
      BY <2>1 DEF N!Listed
    <3>2. \A r \in Requests : <<room, r, "row">> \in N!Rooms \X Requests \X {"row", "deed"}
      BY <1>1
    <3> QED BY <3>1, <3>2
  <2>2. CASE room.type # "user"
    <3>1. N!Listed(room) = {<<room, r, "deed">> : r \in {q \in stored : room \in N!RoomsOf(q)}}
      BY <2>2 DEF N!Listed
    <3>2. \A r \in Requests : <<room, r, "deed">> \in N!Rooms \X Requests \X {"row", "deed"}
      BY <1>1
    <3> QED BY <1>1, <3>1, <3>2
  <2> QED BY <2>1, <2>2
<1>3. ASSUME NEW u \in Users, NEW r \in Requests, <<N!UserRoom(u), r, "row">> \in N!Listed(room)
      PROVE  u \in N!Noticed(r)
  <2>1. room.type = "user"
    BY <1>3 DEF N!Listed
  <2>2. room = N!UserRoom(u) /\ rows[<<r, room.of>>] \in {"unread", "read"}
    BY <1>3, <2>1 DEF N!Listed
  <2>3. room.of = u
    BY <2>2 DEF N!UserRoom
  <2> QED BY <2>2, <2>3 DEF N!Noticed
<1>4. ASSUME NEW u \in Users, NEW r \in Requests, room = N!UserRoom(u), rows[<<r, u>>] \in {"unread", "read"}
      PROVE  <<room, r, "row">> \in N!Listed(room)
  BY <1>4 DEF N!Listed, N!UserRoom
<1>5. ASSUME NEW r \in stored, room.type # "user", room \in N!RoomsOf(r)
      PROVE  <<room, r, "deed">> \in N!Listed(room)
  BY <1>5 DEF N!Listed
<1> QED BY <1>2, <1>3, <1>4, <1>5

\* Clients that leave rooms, or lose them, watch less.
LEMMA WatchersLess ==
    ASSUME Watchers, UNCHANGED <<N!handlers, rows, stored, known>>, SocketsTyped',
           \A u \in Clients : watching'[u] \subseteq watching[u] /\ watching'[u] \subseteq joined'[u]
                              /\ joined'[u] \subseteq N!Joinable(u)
    PROVE  Watchers'
<1>1. UNCHANGED <<pc, call, held, answer>>
  BY DEF N!handlers
<1>2. \A q : N!Noticed(q)' = N!Noticed(q) /\ N!RoomsOf(q)' = N!RoomsOf(q)
  BY <1>1, NoticedSame, RoomsSame
<1>3. RowsSeen'
  BY <1>1 DEF Watchers, RowsSeen, N!UserRoom
<1>4. DeedsSeen'
  BY <1>1, <1>2 DEF Watchers, DeedsSeen
<1>5. \A u \in Clients, q \in Requests : <<N!UserRoom(u)', q, "row">> \in known'[u] => u \in N!Noticed(q)'
  BY <1>2 DEF Watchers, N!UserRoom
<1> QED BY <1>3, <1>4, <1>5 DEF Watchers, N!Joinable, N!UserRoom

LEMMA WatchersLeave ==
    ASSUME Watchers, NEW u \in Clients, N!Join(u) \/ N!Leave(u) \/ N!Disconnect(u)
    PROVE  Watchers'
<1>0. UNCHANGED <<N!handlers, rows, stored, known>>
  BY DEF N!Join, N!Leave, N!Disconnect, N!tables
<1>1. /\ joined \in [Clients -> SUBSET N!Rooms] /\ watching \in [Clients -> SUBSET N!Rooms] /\ SocketsTyped
      /\ \A v \in Clients : watching[v] \subseteq joined[v] /\ joined[v] \subseteq N!Joinable(v)
      /\ N!Joinable(u) \subseteq N!Rooms
  BY NoticesGiven DEF Watchers, SocketsTyped, N!Joinable, N!NoticesAssumption
<1>2. CASE N!Join(u)
  <2>1. PICK room \in N!Joinable(u) : joined' = [joined EXCEPT ![u] = @ \cup {room}] /\ watching' = watching
    BY <1>2 DEF N!Join
  <2>2. SocketsTyped'
    BY <1>0, <1>1, <2>1 DEF SocketsTyped
  <2> QED BY <1>0, <1>1, <2>1, <2>2, WatchersLess
<1>3. CASE N!Leave(u)
  <2>1. PICK room : joined' = [joined EXCEPT ![u] = @ \ {room}] /\ watching' = [watching EXCEPT ![u] = @ \ {room}]
    BY <1>3 DEF N!Leave
  <2>2. SocketsTyped'
    BY <1>0, <1>1, <2>1 DEF SocketsTyped
  <2> QED BY <1>0, <1>1, <2>1, <2>2, WatchersLess
<1>4. CASE N!Disconnect(u)
  <2>1. joined' = [joined EXCEPT ![u] = {}] /\ watching' = [watching EXCEPT ![u] = {}]
    BY <1>4 DEF N!Disconnect
  <2>2. SocketsTyped'
    BY <1>0, <1>1, <2>1 DEF SocketsTyped
  <2> QED BY <1>0, <1>1, <2>1, <2>2, WatchersLess
<1> QED BY <1>2, <1>3, <1>4

LEMMA WatchersRead ==
    ASSUME Watchers, TablesTyped, NEW u \in Clients, N!Read(u)
    PROVE  Watchers'
<1>0. UNCHANGED <<pc, call, held, answer>> /\ rows' = rows /\ stored' = stored /\ joined' = joined
  BY DEF N!Read, N!handlers, N!tables
<1>1. PICK room \in N!Joinable(u) : /\ known' = [known EXCEPT ![u] = @ \cup N!Listed(room)]
                                    /\ watching' = [watching EXCEPT ![u] = @ \cup ({room} \cap joined[u])]
  BY DEF N!Read
<1>2. /\ joined \in [Clients -> SUBSET N!Rooms] /\ watching \in [Clients -> SUBSET N!Rooms]
      /\ known \in [Clients -> SUBSET (N!Rooms \X Requests \X {"row", "deed"})]
      /\ \A v \in Clients : watching[v] \subseteq joined[v] /\ joined[v] \subseteq N!Joinable(v)
  BY DEF Watchers, SocketsTyped
<1>3. room \in ClientRooms /\ room \in N!Rooms /\ Clients \subseteq Users
  BY NoticesGiven DEF N!Joinable, N!NoticesAssumption
<1>4. /\ N!Listed(room) \subseteq N!Rooms \X Requests \X {"row", "deed"}
      /\ \A v \in Users, r \in Requests :
            /\ room = N!UserRoom(v) /\ rows[<<r, v>>] \in {"unread", "read"} => <<room, r, "row">> \in N!Listed(room)
            /\ <<N!UserRoom(v), r, "row">> \in N!Listed(room) => v \in N!Noticed(r)
      /\ \A r \in stored : room.type # "user" /\ room \in N!RoomsOf(r) => <<room, r, "deed">> \in N!Listed(room)
  BY <1>3, ListedOf
<1>5. \A q : N!Noticed(q)' = N!Noticed(q) /\ N!RoomsOf(q)' = N!RoomsOf(q)
  BY <1>0, NoticedSame, RoomsSame
<1>6. SocketsTyped'
  <2>1. known' \in [Clients -> SUBSET (N!Rooms \X Requests \X {"row", "deed"})]
    BY <1>1, <1>2, <1>4
  <2>2. watching' \in [Clients -> SUBSET N!Rooms]
    BY <1>1, <1>2
  <2> QED BY <1>0, <1>2, <2>1, <2>2 DEF SocketsTyped
<1>7. \A v \in Clients : watching'[v] \subseteq joined[v]
  BY <1>1, <1>2
<1>8. ASSUME NEW v \in Clients, NEW x
      PROVE  /\ x \in known[v] => x \in known'[v]
             /\ v = u /\ x \in N!Listed(room) => x \in known'[v]
             /\ x \in known'[v] => x \in known[v] \/ x \in N!Listed(room)
             /\ x \in watching'[v] => x \in watching[v] \/ (v = u /\ x = room)
  BY <1>1, <1>2
<1>9. ASSUME NEW v \in Clients, NEW q \in Requests, <<N!UserRoom(v), q, "row">> \in known'[v]
      PROVE  v \in N!Noticed(q)
  <2>1. CASE <<N!UserRoom(v), q, "row">> \in known[v]
    BY <2>1 DEF Watchers
  <2>2. CASE <<N!UserRoom(v), q, "row">> \in N!Listed(room)
    BY <1>3, <1>4, <2>2
  <2> QED BY <1>8, <1>9, <2>1, <2>2
<1>10. RowsSeen'
  <2>1. ASSUME NEW v \in Clients, NEW q \in Requests, N!UserRoom(v) \in watching'[v], rows[<<q, v>>] \in {"unread", "read"}
        PROVE  <<N!UserRoom(v), q, "row">> \in known'[v] \/ (pc[q] = "push" /\ held[q].now = v)
    <3>1. CASE N!UserRoom(v) \in watching[v]
      BY <1>8, <2>1, <3>1 DEF Watchers, RowsSeen
    <3>2. CASE v = u /\ N!UserRoom(v) = room
      <4>1. <<N!UserRoom(v), q, "row">> \in N!Listed(room)
        BY <1>3, <1>4, <2>1, <3>2
      <4> QED BY <1>8, <3>2, <4>1
    <3> QED BY <1>8, <2>1, <3>1, <3>2
  <2> QED BY <1>0, <2>1 DEF RowsSeen, N!UserRoom
<1>11. DeedsSeen'
  <2>1. ASSUME NEW v \in Clients, NEW q \in stored, NEW place \in watching'[v], place.type # "user", place \in N!RoomsOf(q)
        PROVE  <<place, q, "deed">> \in known'[v] \/ pc[q] # "done" \/ answer[q] # "ok"
    <3>1. CASE place \in watching[v]
      BY <1>8, <2>1, <3>1 DEF Watchers, DeedsSeen
    <3>2. CASE v = u /\ place = room
      <4>1. <<place, q, "deed">> \in N!Listed(room)
        BY <1>4, <2>1, <3>2
      <4> QED BY <1>8, <3>2, <4>1
    <3> QED BY <1>8, <3>1, <3>2
  <2> QED BY <1>0, <1>5, <2>1 DEF DeedsSeen
<1>12. \A v \in Clients, q \in Requests : <<N!UserRoom(v)', q, "row">> \in known'[v] => v \in N!Noticed(q)'
  BY <1>5, <1>9 DEF N!UserRoom
<1> QED BY <1>0, <1>2, <1>6, <1>7, <1>10, <1>11, <1>12 DEF Watchers, N!Joinable, N!UserRoom

\* What was read or deleted had been stored, and was seen.
LEMMA WatchersMark ==
    ASSUME Watchers, NoticeInv, NoticeInv', NEW u \in Clients, N!MarkRead(u) \/ N!Delete(u),
           \A q \in Requests : N!Noticed(q)' = N!Noticed(q)
    PROVE  Watchers'
<1>0. /\ UNCHANGED <<pc, call, held, answer>> /\ stored' = stored /\ UNCHANGED N!sockets
      /\ rows \in [Requests \X Users -> N!RowStates] /\ Clients \subseteq Users
  BY NoticesGiven DEF N!MarkRead, N!Delete, N!handlers, NoticeInv, TablesTyped, N!NoticesAssumption
<1>1. \A x \in Requests \X Users : rows'[x] \in {"unread", "read"} => rows[x] \in {"unread", "read"}
  <2>1. CASE N!MarkRead(u)
    <3>1. PICK S : rows' = [x \in DOMAIN rows |-> IF x \in S /\ rows[x] = "unread" THEN "read" ELSE rows[x]]
      BY <2>1 DEF N!MarkRead
    <3> QED BY <1>0, <3>1
  <2>2. CASE N!Delete(u)
    <3>1. PICK x \in N!Shown(u) : rows' = [rows EXCEPT ![x] = "deleted"]
      BY <2>2 DEF N!Delete
    <3> QED BY <1>0, <3>1
  <2> QED BY <2>1, <2>2
<1>2. \A q \in Requests : SeenSo(q)
  BY <1>0, <1>1 DEF SeenSo
<1>3. stored' \subseteq Requests
  BY DEF NoticeInv, TablesTyped
<1> QED BY <1>0, <1>2, <1>3, WatchersSame

LEMMA WatchersCrash ==
    ASSUME Watchers, NoticeInv, NoticeInv', N!Crash
    PROVE  Watchers'
<1>0. /\ known' = known /\ rows' = rows /\ stored' = stored
      /\ joined' = [u \in Clients |-> {}] /\ watching' = [u \in Clients |-> {}]
  BY DEF N!Crash, N!tables
<1>1. SocketsTyped' /\ RowsSeen' /\ DeedsSeen'
  BY <1>0 DEF Watchers, SocketsTyped, RowsSeen, DeedsSeen
<1>2. \A q : N!Noticed(q)' = N!Noticed(q)
  BY <1>0, NoticedSame
<1>3. \A u \in Clients, q \in Requests : <<N!UserRoom(u)', q, "row">> \in known'[u] => u \in N!Noticed(q)'
  BY <1>0, <1>2 DEF Watchers, N!UserRoom
<1> QED BY <1>0, <1>1, <1>3 DEF Watchers, N!Joinable, N!UserRoom

\* Nothing changes for those who watch.
LEMMA WatchersStill ==
    ASSUME Watchers, NoticeInv, UNCHANGED <<N!handlers, N!tables, N!sockets>>
    PROVE  Watchers'
<1>1. UNCHANGED <<pc, call, held, answer>> /\ stored' = stored /\ rows' = rows /\ stored \subseteq Requests
  BY DEF N!handlers, N!tables, NoticeInv, TablesTyped
<1>2. \A q : N!Noticed(q)' = N!Noticed(q)
  BY <1>1, NoticedSame
<1>3. \A q \in Requests : SeenSo(q)
  BY <1>1, <1>2 DEF SeenSo
<1> QED BY <1>1, <1>3, WatchersSame

-----------------------------------------------------------------------------
(***************************************************************************)
(* The notices: the invariant holds                                        *)
(***************************************************************************)

LEMMA ServeStep ==
    ASSUME DeliveryInv, N!Serve
    PROVE  DeliveryInv'
<1>0. QueueInv /\ NoticeInv /\ Watchers
  BY DEF DeliveryInv
<1>1. PICK r \in Requests : N!Start(r) \/ N!Handle(r)
  BY DEF N!Serve
<1>2. CASE N!Start(r)
  <2>1. NoticeInv' /\ QueueInv' /\ Moves(r) /\ r \notin stored /\ pc[r] = "idle"
    BY <1>0, <1>2, NoticeStart
  <2>2. UNCHANGED <<stored, rows, N!sockets>>
    BY <1>2 DEF N!Start, N!tables
  <2> QED BY <1>0, <2>1, <2>2, WatchersIdle DEF DeliveryInv
<1>3. CASE N!Find(r)
  <2>1. NoticeInv' /\ QueueInv' /\ Calm(r) /\ UNCHANGED N!sockets /\ (pc'[r] = "done" => answer'[r] # "ok")
    BY <1>0, <1>3, NoticeFind
  <2> QED BY <1>0, <1>3, <2>1, WatchersCalm DEF DeliveryInv, N!Find
<1>4. CASE N!Store(r)
  BY <1>0, <1>4, NoticeStore, WatchersStore DEF DeliveryInv
<1>5. CASE N!Gather(r)
  <2>1. NoticeInv' /\ QueueInv' /\ Calm(r) /\ UNCHANGED N!sockets /\ pc'[r] # "done"
    BY <1>0, <1>5, NoticeGather
  <2> QED BY <1>0, <1>5, <2>1, WatchersCalm DEF DeliveryInv, N!Gather
<1>6. CASE N!Look(r)
  <2>1. NoticeInv' /\ QueueInv' /\ Calm(r) /\ UNCHANGED N!sockets /\ pc'[r] # "done"
    BY <1>0, <1>6, NoticeLook
  <2> QED BY <1>0, <1>6, <2>1, WatchersCalm DEF DeliveryInv, N!Look
<1>7. CASE N!Insert(r)
  BY <1>0, <1>7, NoticeInsert, WatchersInsert DEF DeliveryInv
<1>8. CASE N!Push(r)
  BY <1>0, <1>8, NoticePush, WatchersPush DEF DeliveryInv
<1>9. CASE N!Mail(r)
  BY <1>0, <1>9, NoticeMail, WatchersMail DEF DeliveryInv
<1>10. CASE N!Emit(r)
  BY <1>0, <1>10, NoticeEmit, WatchersEmit DEF DeliveryInv
<1>11. CASE N!Other(r)
  <2>1. NoticeInv' /\ QueueInv' /\ Moves(r) /\ r \notin stored
    BY <1>0, <1>11, NoticeOther
  <2>2. UNCHANGED <<stored, rows, N!sockets>> /\ pc[r] = "other"
    BY <1>11 DEF N!Other
  <2> QED BY <1>0, <2>1, <2>2, WatchersIdle DEF DeliveryInv
<1> QED BY <1>1, <1>2, <1>3, <1>4, <1>5, <1>6, <1>7, <1>8, <1>9, <1>10, <1>11 DEF N!Handle

LEMMA ClientStep ==
    ASSUME DeliveryInv, N!Client
    PROVE  DeliveryInv'
<1>0. QueueInv /\ NoticeInv /\ Watchers /\ TablesTyped
  BY DEF DeliveryInv, NoticeInv
<1>1. PICK u \in Clients : N!Join(u) \/ N!Leave(u) \/ N!Disconnect(u) \/ N!Read(u) \/ N!MarkRead(u) \/ N!Delete(u)
  BY DEF N!Client
<1>2. CASE N!Join(u) \/ N!Leave(u) \/ N!Disconnect(u) \/ N!Read(u)
  <2>1. UNCHANGED <<N!handlers, N!mailing, N!tables, N!history>>
    BY <1>2 DEF N!Join, N!Leave, N!Disconnect, N!Read
  <2>2. NoticeInv' /\ QueueInv'
    BY <1>0, <2>1, NoticeSame DEF N!handlers
  <2> QED BY <1>0, <1>2, <2>2, WatchersLeave, WatchersRead DEF DeliveryInv
<1>3. CASE N!MarkRead(u) \/ N!Delete(u)
  BY <1>0, <1>3, NoticeMarkRead, WatchersMark DEF DeliveryInv
<1> QED BY <1>1, <1>2, <1>3

LEMMA DeliverStep ==
    ASSUME DeliveryInv, N!Deliver \/ UNCHANGED <<N!handlers, N!mailing, N!tables, N!sockets, N!history>>
    PROVE  DeliveryInv'
<1>1. /\ N!Work \/ N!WorkAgain \/ UNCHANGED N!mailing
      /\ UNCHANGED <<N!handlers, N!tables, N!sockets, N!history>>
  BY DEF N!Deliver
<1>2. NoticeInv' /\ QueueInv'
  BY <1>1, NoticeSame DEF DeliveryInv, N!handlers
<1>3. Watchers'
  BY <1>1, WatchersStill DEF DeliveryInv
<1> QED BY <1>2, <1>3 DEF DeliveryInv

LEMMA CrashStep ==
    ASSUME DeliveryInv, N!Crash
    PROVE  DeliveryInv'
BY NoticeCrash, WatchersCrash DEF DeliveryInv

LEMMA DeliveryInit ==
    ASSUME N!Init
    PROVE  DeliveryInv
<1>1. QueueInv /\ jobs = <<>>
  BY NoticesGiven, QueueInvInit DEF N!Init, N!MailQueueInit
<1>2. JobIds = {} /\ QueueTyped
  BY <1>1, EmptySeq DEF JobIds, QueueInv
<1>3. /\ pc = [r \in Requests |-> "idle"] /\ call = [r \in Requests |-> N!NoCall]
      /\ held = [r \in Requests |-> None] /\ answer = [r \in Requests |-> "none"]
      /\ subjects = Subjects \ Fresh /\ followers = Followers /\ assignees = Assigned
      /\ stored = {} /\ rows = [x \in Requests \X Users |-> "none"]
      /\ joined = [u \in Clients |-> {}] /\ known = [u \in Clients |-> {}] /\ watching = [u \in Clients |-> {}]
      /\ steady = [r \in Requests |-> {}] /\ vanished = {}
  BY DEF N!Init, N!HandlersInit
<1>4. \A r \in Requests : N!Noticed(r) = {} /\ N!Mailed(r) = {}
  BY <1>2, <1>3, MailedTo DEF N!Noticed
<1>5. Framed /\ OneJob
  BY <1>2, <1>3 DEF Framed, OneJob
<1>6. TablesTyped
  BY <1>3, NoticesGiven DEF TablesTyped, N!RowStates, N!NoticesAssumption
<1>7. \A r \in Requests : call[r].kind = "none"
  BY <1>3 DEF N!NoCall
<1>8. SteadyStand /\ CreatedFirst
  <2>1. "none" \notin N!Creating
    BY DEF N!Creating
  <2> QED BY <1>3, <1>7, <2>1, NoticesGiven DEF SteadyStand, CreatedFirst, N!NoticesAssumption
<1>9. ASSUME NEW r \in Requests PROVE RequestInv(r)
  <2>1. /\ pc[r] = "idle" /\ call[r] = N!NoCall /\ answer[r] = "none" /\ steady[r] = {} /\ r \notin stored
        /\ call[r].kind = "none"
    BY <1>3, <1>7
  <2>2. Labelled(r) /\ PlacedNotice(r)
    BY <2>1 DEF Labelled, PlacedNotice, Telling
  <2>3. RowsAndMails(r) /\ FollowersAhead(r)
    BY <1>4, <2>1 DEF RowsAndMails, FollowersAhead, Over
  <2> QED BY <2>2, <2>3 DEF RequestInv
<1>10. Watchers
  BY <1>3 DEF Watchers, SocketsTyped, RowsSeen, DeedsSeen
<1> QED BY <1>1, <1>5, <1>6, <1>8, <1>9, <1>10 DEF DeliveryInv, NoticeInv

\* As many jobs as there are users who are mailed.
LEMMA JobsCounted ==
    ASSUME QueueTyped, OneJob, NEW r
    PROVE  N!Cardinality(N!JobsOf(r)) = N!Cardinality(N!Mailed(r))
<1> DEFINE f == [j \in N!JobsOf(r) |-> jobs[j].to]
<1>1. N!JobsOf(r) = {j \in JobIds : jobs[j].deed = r} /\ Len(jobs) \in Nat
  BY MailedTo, QueueSizes
<1>2. IsFiniteSet(N!JobsOf(r))
  <2>1. IsFiniteSet(JobIds)
    BY <1>1, FS_Interval DEF JobIds
  <2> QED BY <1>1, <2>1, FS_Subset
<1>3. f \in Bijection(N!JobsOf(r), N!Mailed(r))
  <2>1. \A j \in N!JobsOf(r) : f[j] \in N!Mailed(r)
    BY <1>1, MailedTo
  <2>2. \A u \in N!Mailed(r) : \E j \in N!JobsOf(r) : f[j] = u
    BY <1>1, MailedTo
  <2>3. \A i, j \in N!JobsOf(r) : f[i] = f[j] => i = j
    BY <1>1 DEF OneJob
  <2>4. f \in [N!JobsOf(r) -> N!Mailed(r)]
    BY <2>1
  <2> HIDE DEF f
  <2> QED BY <2>2, <2>3, <2>4 DEF Bijection, Injection, Surjection, IsInjective
<1>4. Cardinality(N!Mailed(r)) = Cardinality(N!JobsOf(r))
  BY <1>2, <1>3, FS_Bijection DEF ExistsBijection
<1> QED BY <1>4, SameCardinality

LEMMA ToldProperly ==
    ASSUME DeliveryInv
    PROVE  N!ToldOnce
<1>0. QueueTyped /\ OneJob
  BY DEF DeliveryInv, QueueInv, NoticeInv
<1>1. ASSUME NEW r \in Requests, N!Noticed(r) # {}, MailOf(r) # None
      PROVE  /\ N!Mailed(r) \subseteq N!Noticed(r)
             /\ N!Cardinality(N!Noticed(r) \ N!Mailed(r)) <= (IF answer[r] = "ok" THEN 0 ELSE 1)
  <2>1. Labelled(r) /\ PlacedNotice(r) /\ RowsAndMails(r)
    BY DEF DeliveryInv, NoticeInv, RequestInv
  <2>2. r \in stored /\ Who(r) # "mail" /\ pc[r] \in {"insert", "push", "mail", "emit", "done"}
    BY <1>1, <2>1 DEF RowsAndMails, PlacedNotice, Labelled, Telling
  <2>3. ASSUME N!Mailed(r) = N!Noticed(r)
        PROVE  N!Cardinality(N!Noticed(r) \ N!Mailed(r)) = 0
    <3>1. N!Noticed(r) \ N!Mailed(r) = {}
      BY <2>3
    <3> QED BY <3>1, FS_EmptySet, SameCardinality
  <2>4. ASSUME NEW u, N!Noticed(r) \ N!Mailed(r) \subseteq {u}
        PROVE  N!Cardinality(N!Noticed(r) \ N!Mailed(r)) <= 1
    <3>1. IsFiniteSet({u}) /\ Cardinality({u}) = 1
      BY FS_Singleton
    <3>2. Cardinality(N!Noticed(r) \ N!Mailed(r)) <= Cardinality({u})
      BY <2>4, <3>1, FS_Subset
    <3> QED BY <3>1, <3>2, SameCardinality
  <2>5. CASE answer[r] = "ok"
    <3>1. N!Mailed(r) = N!Noticed(r)
      BY <1>1, <2>1, <2>2, <2>5 DEF RowsAndMails, Over
    <3> QED BY <2>3, <2>5, <3>1
  <2>6. CASE answer[r] # "ok"
    <3>1. N!Mailed(r) \subseteq N!Noticed(r) /\ \E u : N!Noticed(r) \ N!Mailed(r) \subseteq {u}
      <4>1. CASE pc[r] \in {"insert", "emit"}
        <5>1. N!Mailed(r) = N!Noticed(r)
          BY <1>1, <2>1, <2>2, <4>1 DEF RowsAndMails, Over
        <5> QED BY <5>1
      <4>2. CASE pc[r] \in {"push", "mail"}
        <5>1. N!Mailed(r) = N!Noticed(r) \ {held[r].now}
          BY <1>1, <2>1, <2>2, <4>2 DEF RowsAndMails
        <5> QED BY <5>1
      <4>3. CASE pc[r] = "done"
        BY <1>1, <2>1, <2>2, <4>3 DEF RowsAndMails
      <4> QED BY <2>2, <4>1, <4>2, <4>3
    <3> QED BY <2>4, <2>6, <3>1
  <2> QED BY <2>5, <2>6
<1>2. ASSUME NEW r \in Requests
      PROVE  /\ N!Noticed(r) # {} \/ N!Mailed(r) # {} => r \in stored
             /\ answer[r] = "ok" /\ r \in stored /\ Who(r) = "mail" => N!Mailed(r) = call[r].to
  BY DEF DeliveryInv, NoticeInv, RequestInv, RowsAndMails, Over
<1>3. \A r \in Requests : N!Cardinality(N!JobsOf(r)) = N!Cardinality(N!Mailed(r))
  BY <1>0, JobsCounted
<1> QED BY <1>1, <1>2, <1>3 DEF N!ToldOnce, MailOf, Who

LEMMA FollowersTold ==
    ASSUME DeliveryInv
    PROVE  N!FollowersAreTold
<1>1. ASSUME NEW r \in Requests, answer[r] = "ok", r \in stored \ vanished,
             Who(r) \in {"early", "row"} \/ (Who(r) = "late" /\ call[r].subject \in subjects)
      PROVE  N!Told(r, steady[r]) \subseteq N!Noticed(r)
  <2>1. PlacedNotice(r) /\ FollowersAhead(r)
    BY DEF DeliveryInv, NoticeInv, RequestInv
  <2>2. Over(r) /\ Owing(r)
    BY <1>1, <2>1 DEF PlacedNotice, Over, Owing
  <2> QED BY <2>1, <2>2 DEF FollowersAhead
<1> QED BY <1>1 DEF N!FollowersAreTold, Who, N!Subject

LEMMA WatchersInformed ==
    ASSUME DeliveryInv
    PROVE  N!WatchersMissNothing
<1>0. Watchers /\ TablesTyped
  BY DEF DeliveryInv, NoticeInv
<1>1. ASSUME NEW u \in Clients, NEW room \in watching[u], NEW x \in N!Listed(room)
      PROVE  \/ x \in known[u]
             \/ IF x[3] = "row" THEN pc[x[2]] = "push" /\ held[x[2]].now = u
                ELSE pc[x[2]] # "done" \/ answer[x[2]] # "ok"
  <2>1. room \in N!Rooms /\ room \in N!Joinable(u)
    BY <1>0, <1>1, NoticesGiven DEF Watchers, N!Joinable, N!NoticesAssumption
  <2>2. CASE room.type = "user"
    <3>1. room = N!UserRoom(u)
      BY <2>1, <2>2 DEF N!Rooms, N!Joinable, N!UserRoom
    <3>2. PICK r \in Requests : x = <<room, r, "row">> /\ rows[<<r, room.of>>] \in {"unread", "read"}
      BY <2>2 DEF N!Listed
    <3>3. room.of = u /\ x[2] = r /\ x[3] = "row"
      BY <3>1, <3>2 DEF N!UserRoom
    <3> QED BY <1>0, <1>1, <3>1, <3>2, <3>3 DEF Watchers, RowsSeen
  <2>3. CASE room.type # "user"
    <3>1. PICK r \in stored : x = <<room, r, "deed">> /\ room \in N!RoomsOf(r)
      BY <2>3 DEF N!Listed
    <3> QED BY <1>0, <1>1, <2>3, <3>1 DEF Watchers, DeedsSeen
  <2> QED BY <2>2, <2>3
<1> QED BY <1>1 DEF N!WatchersMissNothing

LEMMA MailsMatched ==
    ASSUME QueueInv
    PROVE  N!MailsMatchJobs
<1>0. QueueTyped /\ MailsSent
  BY DEF QueueInv
<1>1. ASSUME NEW j \in JobIds
      PROVE  /\ N!Cardinality(N!MailsOf(j)) <= 1 + jobs[j].refusals + jobs[j].stalls
             /\ jobs[j].state = "completed" => N!MailsOf(j) # {}
  <2>1. Cardinality(N!MailsOf(j)) \in Nat /\ jobs[j].refusals \in Nat /\ jobs[j].stalls \in Nat
    BY <1>0, MailsCounted, QueueSizes, JobFields
  <2>2. Cardinality(N!MailsOf(j)) <= (IF Trying(j) THEN 1 ELSE 0) + jobs[j].refusals + jobs[j].stalls
    BY <1>0 DEF MailsSent
  <2>3. Cardinality(N!MailsOf(j)) <= 1 + jobs[j].refusals + jobs[j].stalls
    BY <2>1, <2>2
  <2> QED BY <1>0, <2>3, SameCardinality DEF MailsSent
<1> QED BY <1>0, <1>1, QueueSizes DEF N!MailsMatchJobs

LEMMA NoticesTyped ==
    ASSUME DeliveryInv
    PROVE  N!TypeOK
<1>1. /\ QueueTyped /\ Framed /\ TablesTyped /\ SocketsTyped /\ \A r \in Requests : Labelled(r)
  BY DEF DeliveryInv, QueueInv, NoticeInv, Watchers, RequestInv
<1>2. N!Handling({"find", "store", "gather", "look", "insert", "push", "mail", "emit", "other"}, Deeds, {"cut"})
  BY <1>1 DEF N!Handling, Framed, Labelled, Telling
<1>3. N!MailQueueTyped
  <2>1. /\ DOMAIN waiting = 1..Len(waiting) /\ DOMAIN mails = 1..Len(mails)
        /\ Len(jobs) <= MaxJobs /\ crashes \in 0..MaxCrashes
        /\ worker \in {None} \cup [job: JobIds, at: {"taken", "returned", "threw"}]
    BY <1>1, LenProperties DEF QueueTyped
  <2> QED BY <1>1, <2>1, QueueSizes DEF N!MailQueueTyped
<1> QED BY <1>1, <1>2, <1>3 DEF N!TypeOK, TablesTyped, SocketsTyped

-----------------------------------------------------------------------------
(***************************************************************************)
(* The composition: its theorems                                           *)
(***************************************************************************)

LEMMA NoticesInvariance == MCSpec => [](part # "files" => DeliveryInv)
<1>1. MCInit => DeliveryInv
  BY DeliveryInit DEF MCInit
<1>2. ASSUME part # "files" => DeliveryInv, [MCNext]_<<part, handlers, nVars, fVars>>
      PROVE  (part # "files" => DeliveryInv)'
  <2>1. CASE MCNext
    <3> SUFFICES ASSUME part # "files" PROVE DeliveryInv'
      BY <2>1 DEF MCNext
    <3>1. N!Serve \/ N!Client \/ N!Deliver \/ N!Crash
      BY <2>1 DEF MCNext
    <3> QED BY <1>2, <3>1, ServeStep, ClientStep, DeliverStep, CrashStep
  <2>2. CASE UNCHANGED <<part, handlers, nVars, fVars>>
    <3>1. part' = part /\ UNCHANGED <<N!handlers, N!mailing, N!tables, N!sockets, N!history>>
      BY <2>2 DEF handlers, nVars, N!handlers, N!mailing, N!tables, N!sockets, N!history
    <3> QED BY <1>2, <3>1, DeliverStep
  <2> QED BY <1>2, <2>1, <2>2
<1> QED BY <1>1, <1>2, PTL DEF MCSpec

\* Who followed an entity while a deed on it was done is told of it, once and
\* with one mail; who watches a room misses nothing; and the mails are those of
\* the jobs, in their order (notification-events.service.ts, pms.gateway.ts,
\* email.processor.ts).
THEOREM NoticesHolding == MCSpec => []NoticesHold
<1>1. (part # "files" => DeliveryInv) => NoticesHold
  <2>1. DeliveryInv => N!NoticesHold
    BY FollowersTold, ToldProperly, WatchersInformed, MailsMatched DEF N!NoticesHold, DeliveryInv, QueueInv
  <2> QED BY <2>1 DEF NoticesHold
<1> QED BY <1>1, NoticesInvariance, PTL

LEMMA FilesTyped == MCSpec => [](part = "files" => TypeOK /\ CallOK)
<1>0. FilesAssumption
  BY DeliveryAssumption
<1>1. MCInit => TypeOK /\ CallOK
  BY <1>0, IInvInit DEF MCInit, IInv
<1>2. ASSUME part = "files" => TypeOK /\ CallOK, [MCNext]_<<part, handlers, nVars, fVars>>
      PROVE  (part = "files" => TypeOK /\ CallOK)'
  <2>1. part' = part /\ (part = "files" => [Next]_vars)
    BY <1>2 DEF MCNext, handlers, fVars, tables, vars
  <2> QED BY <1>0, <1>2, <2>1, TypedStep
<1> QED BY <1>1, <1>2, PTL DEF MCSpec

\* The variables of the notices, of the queue and of the files keep their types.
THEOREM AllTyped == MCSpec => []Typed
<1>1. (part # "files" => DeliveryInv) /\ (part = "files" => TypeOK /\ CallOK) => Typed
  BY NoticesTyped DEF Typed
<1> QED BY <1>1, NoticesInvariance, FilesTyped, PTL

=============================================================================

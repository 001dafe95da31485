----------------------------- MODULE Submissions -----------------------------
(***************************************************************************)
(* Contacts and the forms through which they appear: contacts.service.ts,  *)
(* forms.service.ts and submissions.service.ts.  A submission finds or     *)
(* creates its contact, stores itself and its values, maps the values onto *)
(* the contact, is marked, counted and notified, in a statement each.  A   *)
(* contact is deleted by a mark, while the key on its address stays.       *)
(*                                                                         *)
(* Contacts and submissions have the names of the requests that create     *)
(* them; contacts that were there before have names of their own.  Of the  *)
(* mapped properties only the address matters to anything else.            *)
(***************************************************************************)
EXTENDS Handlers

CONSTANTS
    Emails, Forms, Columns,
    ColumnForm,       \* columns to their forms
    EmailColumns,     \* columns mapped to the property "email"
    SeedContacts,     \* contacts there are at first, with their addresses
    SubmissionCalls   \* the calls clients make

ContactNames == Requests \cup DOMAIN SeedContacts
\* The address an email column is answered with is "as".
SubmitCall == [kind: {"submit"}, form: Forms, email: Emails, columns: SUBSET Columns, as: Emails]
CreateContactCall == [kind: {"createContact"}, email: Emails]
UpdateContactCall == [kind: {"updateContact"}, contact: ContactNames, email: Emails]
RemoveContactCall == [kind: {"removeContact"}, contact: ContactNames]
UpdateFormCall == [kind: {"updateForm"}, form: Forms, status: {"draft", "published", "archived"}]
RemoveFormCall == [kind: {"removeForm"}, form: Forms]
ColumnCall == [kind: {"createColumn", "removeColumn"}, column: Columns]

Person == [email: Emails, isDeleted: BOOLEAN]
Form == [status: {"draft", "published", "archived"}, submissionCount: Nat]
Submission == [form: Forms, contact: ContactNames, status: {"pending", "processed"}]

SubmissionsAssumption ==
    /\ SubmissionCalls \subseteq
           SubmitCall \cup CreateContactCall \cup UpdateContactCall \cup RemoveContactCall
             \cup UpdateFormCall \cup RemoveFormCall \cup ColumnCall
    /\ IsFiniteSet(Requests)
    /\ ColumnForm \in [Columns -> Forms]
    /\ EmailColumns \subseteq Columns
    /\ DOMAIN SeedContacts \cap Requests = {}
    /\ \A c \in DOMAIN SeedContacts : SeedContacts[c] \in Emails
    /\ None \notin Person \cup Form \cup Submission

VARIABLES
    people,       \* contacts: None, or [email, isDeleted]
    forms,        \* None, or [status, submissionCount]
    columns,      \* the columns there are
    submissions,  \* None, or [form, contact, status]
    values,       \* pairs of a submission and a column
    overlooked    \* history: removals of a form since whose count it got a submission

tables == <<people, forms, columns, submissions, values>>
vars == <<handlers, tables, overlooked>>

\* The statements of a submission after it is stored and before it is counted.
Halfway == {"values", "process", "map", "mark", "count"}

TypeOK ==
    /\ Handling({"form", "submitter", "newSubmitter", "submission", "notify", "address",
                 "newContact", "contact", "writeContact", "dropContact", "formOf", "writeForm",
                 "countSubmissions", "deleteForm", "writeColumn"} \cup Halfway,
                SubmissionCalls, {"refused", "unnotified"})
    /\ people \in [ContactNames -> Person \cup {None}]
    /\ forms \in [Forms -> Form \cup {None}]
    /\ columns \in SUBSET Columns
    /\ submissions \in [Requests -> Submission \cup {None}]
    /\ values \in SUBSET (Requests \X Columns)
    /\ overlooked \in SUBSET Requests

Init ==
    /\ HandlersInit
    /\ people = [c \in ContactNames |->
           IF c \in DOMAIN SeedContacts
           THEN [email |-> SeedContacts[c], isDeleted |-> FALSE] ELSE None]
    /\ forms = [f \in Forms |-> [status |-> "published", submissionCount |-> 0]]
    /\ columns = Columns
    /\ submissions = [r \in Requests |-> None]
    /\ values = {}
    /\ overlooked = {}

StartWith(r, kind, label) ==
    /\ \E c \in {c \in SubmissionCalls : c.kind = kind} : Begin(r, c, label)
    /\ UNCHANGED <<tables, overlooked>>

Start(r) ==
    \/ StartWith(r, "submit", "form")
    \/ StartWith(r, "createContact", "address")
    \/ StartWith(r, "updateContact", "contact") \/ StartWith(r, "removeContact", "contact")
    \/ StartWith(r, "updateForm", "formOf") \/ StartWith(r, "removeForm", "formOf")
    \/ StartWith(r, "createColumn", "formOf") \/ StartWith(r, "removeColumn", "formOf")

ByEmail(e) == {c \in ContactNames : people[c] # None /\ people[c].email = e}
Taken(e, by) == ByEmail(e) \ {by} # {}
Standing(e) == {c \in ByEmail(e) : ~people[c].isDeleted}

-----------------------------------------------------------------------------
(***************************************************************************)
(* submissions.service.ts: create and processSubmission                    *)
(***************************************************************************)

FindForm(r) ==
    /\ pc[r] = "form"
    /\ LET f == forms[call[r].form]
       IN  IF f # None /\ f.status = "published" THEN Goto(r, "submitter")
           ELSE Reply(r, "notFound")
    /\ UNCHANGED <<tables, overlooked>>

\* The contact is what the handler keeps from here on.
FindSubmitter(r) ==
    /\ pc[r] = "submitter"
    /\ IF Standing(call[r].email) = {} THEN Goto(r, "newSubmitter")
       ELSE \E c \in Standing(call[r].email) : Continue(r, "submission", c)
    /\ UNCHANGED <<tables, overlooked>>

\* email @unique, deleted or not.
CreateSubmitter(r) ==
    /\ pc[r] = "newSubmitter"
    /\ IF Taken(call[r].email, r) THEN Reply(r, "refused") /\ UNCHANGED people
       ELSE /\ people' = [people EXCEPT ![r] = [email |-> call[r].email, isDeleted |-> FALSE]]
            /\ Continue(r, "submission", r)
    /\ UNCHANGED <<forms, columns, submissions, values, overlooked>>

CreateSubmission(r) ==
    /\ pc[r] = "submission"
    /\ IF forms[call[r].form] = None THEN Reply(r, "refused") /\ UNCHANGED <<submissions, overlooked>>
       ELSE /\ submissions' = [submissions EXCEPT ![r] =
                   [form |-> call[r].form, contact |-> held[r], status |-> "pending"]]
            /\ overlooked' = overlooked \cup {q \in At("deleteForm") : call[q].form = call[r].form}
            /\ Goto(r, "values")
    /\ UNCHANGED <<people, forms, columns, values>>

\* Promise.all: what can be stored is, also when one of them fails.
CreateValues(r) ==
    /\ pc[r] = "values"
    /\ LET stored == IF submissions[r] = None THEN {} ELSE call[r].columns \cap columns
       IN  /\ values' = values \cup ({r} \X stored)
           /\ IF stored = call[r].columns THEN Goto(r, "process") ELSE Fails(r)
    /\ UNCHANGED <<people, forms, columns, submissions, overlooked>>

\* A submission that is gone is not processed, and no error.
ReadSubmission(r) ==
    /\ pc[r] = "process"
    /\ IF submissions[r] = None THEN Goto(r, "count")
       ELSE Goto(r, IF \E c \in EmailColumns : <<r, c>> \in values THEN "map" ELSE "mark")
    /\ UNCHANGED <<tables, overlooked>>

MapToContact(r) ==
    /\ pc[r] = "map"
    /\ IF Taken(call[r].as, held[r]) THEN Fails(r) /\ UNCHANGED people
       ELSE people' = [people EXCEPT ![held[r]].email = call[r].as] /\ Goto(r, "mark")
    /\ UNCHANGED <<forms, columns, submissions, values, overlooked>>

MarkProcessed(r) ==
    /\ pc[r] = "mark"
    /\ IF submissions[r] = None THEN Fails(r) /\ UNCHANGED submissions
       ELSE /\ submissions' = [submissions EXCEPT ![r].status = "processed"]
            /\ Goto(r, "count")
    /\ UNCHANGED <<people, forms, columns, values, overlooked>>

\* Slip: the count is set, not incremented.
CountOfOne(f) == 1

Incremented(f) == forms[f].submissionCount + 1

CountSubmission(r) ==
    /\ pc[r] = "count"
    /\ LET f == call[r].form
       IN  IF forms[f] = None THEN Fails(r) /\ UNCHANGED forms
           ELSE /\ forms' = [forms EXCEPT ![f].submissionCount = Incremented(f)]
                /\ Goto(r, "notify")
    /\ UNCHANGED <<people, columns, submissions, values, overlooked>>

\* notifyFormSubmission may throw; the submission is complete.
NotifyCreator(r) ==
    /\ pc[r] = "notify"
    /\ Reply(r, "ok") \/ Reply(r, "unnotified")
    /\ UNCHANGED <<tables, overlooked>>

-----------------------------------------------------------------------------
(***************************************************************************)
(* contacts.service.ts: create, update, remove                             *)
(***************************************************************************)

\* The duplicate check of create and of update; company and owner may be
\* unknown.
FindAddress(r) ==
    /\ pc[r] = "address"
    /\ IF Standing(call[r].email) \ {IF Kind(r) = "updateContact" THEN call[r].contact ELSE None} # {}
       THEN Reply(r, "refused")
       ELSE \/ Reply(r, "notFound")
            \/ Goto(r, IF Kind(r) = "createContact" THEN "newContact" ELSE "writeContact")
    /\ UNCHANGED <<tables, overlooked>>

CreateContact(r) ==
    /\ pc[r] = "newContact"
    /\ IF Taken(call[r].email, r) THEN Reply(r, "refused") /\ UNCHANGED people
       ELSE /\ people' = [people EXCEPT ![r] = [email |-> call[r].email, isDeleted |-> FALSE]]
            /\ Reply(r, "ok")
    /\ UNCHANGED <<forms, columns, submissions, values, overlooked>>

FindContact(r) ==
    /\ pc[r] = "contact"
    /\ LET row == people[call[r].contact]
       IN  IF row = None \/ row.isDeleted THEN Reply(r, "notFound")
           ELSE IF Kind(r) = "removeContact" THEN Goto(r, "dropContact")
           ELSE Goto(r, IF row.email = call[r].email THEN "writeContact" ELSE "address")
    /\ UNCHANGED <<tables, overlooked>>

WriteContact(r) ==
    /\ pc[r] = "writeContact"
    /\ LET c == call[r].contact
       IN  IF Taken(call[r].email, c) THEN Reply(r, "refused") /\ UNCHANGED people
           ELSE people' = [people EXCEPT ![c].email = call[r].email] /\ Reply(r, "ok")
    /\ UNCHANGED <<forms, columns, submissions, values, overlooked>>

DropContact(r) ==
    /\ pc[r] = "dropContact"
    /\ people' = [people EXCEPT ![call[r].contact].isDeleted = TRUE]
    /\ Reply(r, "ok")
    /\ UNCHANGED <<forms, columns, submissions, values, overlooked>>

-----------------------------------------------------------------------------
(***************************************************************************)
(* forms.service.ts: update, remove, and the columns                       *)
(***************************************************************************)

FormOf(r) == IF Kind(r) \in {"createColumn", "removeColumn"} THEN ColumnForm[call[r].column]
             ELSE call[r].form

\* findOne, or the look-up of the column.
FindFormOf(r) ==
    /\ pc[r] = "formOf"
    /\ IF forms[FormOf(r)] = None \/ (Kind(r) = "removeColumn" /\ call[r].column \notin columns)
       THEN Reply(r, "notFound")
       ELSE Goto(r, CASE Kind(r) = "updateForm" -> "writeForm"
                      [] Kind(r) = "removeForm" -> "countSubmissions"
                      [] OTHER -> "writeColumn")
    /\ UNCHANGED <<tables, overlooked>>

WriteForm(r) ==
    /\ pc[r] = "writeForm"
    /\ IF forms[call[r].form] = None THEN Fails(r) /\ UNCHANGED forms
       ELSE forms' = [forms EXCEPT ![call[r].form].status = call[r].status] /\ Reply(r, "ok")
    /\ UNCHANGED <<people, columns, submissions, values, overlooked>>

Received(f) == {s \in Requests : submissions[s] # None /\ submissions[s].form = f}

\* Slip: only the submissions that were processed count.
AnyProcessed(f) == \E s \in Received(f) : submissions[s].status = "processed"

HasSubmissions(f) == Received(f) # {}

CountSubmissions(r) ==
    /\ pc[r] = "countSubmissions"
    /\ IF HasSubmissions(call[r].form) THEN Reply(r, "refused") ELSE Goto(r, "deleteForm")
    /\ UNCHANGED <<tables, overlooked>>

\* onDelete: Cascade, for columns, submissions and their values.
DeleteForm(r) ==
    /\ pc[r] = "deleteForm"
    /\ LET f == call[r].form
       IN  IF forms[f] = None THEN Fails(r) /\ UNCHANGED tables
           ELSE /\ forms' = [forms EXCEPT ![f] = None]
                /\ columns' = {c \in columns : ColumnForm[c] # f}
                /\ submissions' = [s \in Requests |-> IF s \in Received(f) THEN None ELSE submissions[s]]
                /\ values' = {v \in values : v[1] \notin Received(f)}
                /\ Reply(r, "ok")
                /\ UNCHANGED people
    /\ UNCHANGED overlooked

WriteColumn(r) ==
    /\ pc[r] = "writeColumn"
    /\ LET c == call[r].column
       IN  IF Kind(r) = "createColumn"
           THEN /\ IF forms[ColumnForm[c]] = None \/ c \in columns
                   THEN Fails(r) /\ UNCHANGED columns
                   ELSE columns' = columns \cup {c} /\ Reply(r, "ok")
                /\ UNCHANGED values
           ELSE IF c \in columns
           THEN /\ columns' = columns \ {c}
                /\ values' = {v \in values : v[2] # c}
                /\ Reply(r, "ok")
           ELSE Fails(r) /\ UNCHANGED <<columns, values>>
    /\ UNCHANGED <<people, forms, submissions, overlooked>>

Next ==
    \E r \in Requests :
        \/ Start(r)
        \/ FindForm(r) \/ FindSubmitter(r) \/ CreateSubmitter(r) \/ CreateSubmission(r)
        \/ CreateValues(r) \/ ReadSubmission(r) \/ MapToContact(r) \/ MarkProcessed(r)
        \/ CountSubmission(r) \/ NotifyCreator(r)
        \/ FindAddress(r) \/ CreateContact(r) \/ FindContact(r) \/ WriteContact(r) \/ DropContact(r)
        \/ FindFormOf(r) \/ WriteForm(r) \/ CountSubmissions(r) \/ DeleteForm(r) \/ WriteColumn(r)

Spec == Init /\ [][Next]_vars

-----------------------------------------------------------------------------
(***************************************************************************)
(* Properties                                                              *)
(***************************************************************************)

Uncounted(f) == {s \in Received(f) : pc[s] \in Halfway \/ answer[s] = "error"}

\* The count of a form is that of its submissions, less those on their way to
\* it and those whose handler stopped at a value or at the address it maps:
\* the client of these was told, but the submission is there.
CountsFollowSubmissions ==
    \A f \in Forms : forms[f] # None =>
        forms[f].submissionCount + Cardinality(Uncounted(f)) = Cardinality(Received(f))

\* "Cannot delete form with submissions": a submission goes with its form only
\* when it came after the removal had counted.
SubmissionsLostOnlyIfOverlooked ==
    [][\A r \in Requests :
          pc[r] = "deleteForm" /\ pc'[r] = "done" /\ r \notin overlooked =>
              submissions' = submissions]_vars

\* submissions.service.ts:45, "Find or create contact based on email": a
\* submission is not refused for its address when no other call is under way.
SubmittersAreFoundOrCreated ==
    [][\A r \in Requests :
          /\ pc[r] = "newSubmitter"
          /\ \A q \in Requests \ {r} : pc[q] \in {"idle", "done"}
          => answer'[r] # "refused"]_vars

=============================================================================

------------------------------ MODULE Companies ------------------------------
(***************************************************************************)
(* Companies, their hierarchy and what hangs on them: companies.service.ts *)
(* with the contacts that name a company (contacts.service.ts) and the     *)
(* activities about either or a deal (activities.service.ts).  Of a deal   *)
(* only its removal counts here, which takes its activities along.         *)
(*                                                                         *)
(* checkCircularReference walks up from the new parent with one query per  *)
(* company, and the parent is written afterwards by id; a removal counts   *)
(* contacts and subsidiaries in statements of their own.  An activity must *)
(* name something, which an update decides from the row it read; the deal  *)
(* it names is left to the foreign key.                                    *)
(***************************************************************************)
EXTENDS Handlers

CONSTANTS
    CompanyIds, ContactIds, ActivityIds,
    DealIds,         \* the deals there are at first
    CompanyCalls,    \* the calls clients make
    SeedParents      \* companies there are at first, with their parents

Keep == "keep"  \* undefined: a column the call does not set
CreateCompanyCall == [kind: {"createCompany"}, company: CompanyIds, parent: CompanyIds \cup {None}]
UpdateCompanyCall == [kind: {"updateCompany"}, company: CompanyIds,
                      parent: CompanyIds \cup {None, Keep}]
RemoveCompanyCall == [kind: {"removeCompany"}, company: CompanyIds]
LinkCall == [kind: {"linkContact"}, contact: ContactIds, company: CompanyIds \cup {None}]
LogCall == [kind: {"logActivity"}, activity: ActivityIds, contact: ContactIds \cup {None},
            company: CompanyIds \cup {None}, deal: DealIds \cup {None}]
RelogCall == [kind: {"updateActivity"}, activity: ActivityIds,
              contact: ContactIds \cup {None, Keep}, company: CompanyIds \cup {None, Keep},
              deal: DealIds \cup {None, Keep}]
UnlogCall == [kind: {"removeActivity"}, activity: ActivityIds]
RemoveDealCall == [kind: {"removeDeal"}, deal: DealIds]

Company == [parent: CompanyIds \cup {None}]
Activity == [contact: ContactIds \cup {None}, company: CompanyIds \cup {None},
             deal: DealIds \cup {None}]

\* Every set of companies has one whose parent is outside it.
Acyclic(parent) ==
    \A S \in (SUBSET DOMAIN parent) \ {{}} : \E c \in S : parent[c] \notin S

CompaniesAssumption ==
    /\ {None, Keep} \cap (CompanyIds \cup ContactIds \cup DealIds) = {} /\ None # Keep
    /\ None \notin Company \cup Activity
    /\ CompanyCalls \subseteq CreateCompanyCall \cup UpdateCompanyCall \cup RemoveCompanyCall
                     \cup LinkCall \cup LogCall \cup RelogCall \cup UnlogCall
                     \cup RemoveDealCall
    /\ DOMAIN SeedParents \subseteq CompanyIds
    /\ \A c \in DOMAIN SeedParents : SeedParents[c] \in DOMAIN SeedParents \cup {None}
    /\ Acyclic(SeedParents)

VARIABLES
    companies,   \* None, or [parent]
    contacts,    \* the company of each contact
    activities,  \* None, or [contact, company, deal]
    deals,       \* the deals there are
    moved,       \* history: updates under whose walk a parent was written
    misplaced,   \* history: companies whose parent a call in "moved" wrote
    aged,        \* history: removals since whose counts a row was linked
    blurred      \* history: activities written from a row that was outdated

tables == <<companies, contacts, activities, deals>>
history == <<moved, misplaced, aged, blurred>>
vars == <<handlers, tables, history>>

TypeOK ==
    /\ Handling({"parent", "walk", "company", "countContacts", "countSubsidiaries", "deleteCompany",
                 "linkTo", "link", "contactOf", "companyOf", "insertActivity", "activity",
                 "writeActivity", "deleteActivity", "insertCompany", "writeCompany",
                 "deal", "deleteDeal"},
                CompanyCalls, {"circular", "refused"})
    /\ companies \in [CompanyIds -> Company \cup {None}]
    /\ contacts \in [ContactIds -> CompanyIds \cup {None}]
    /\ activities \in [ActivityIds -> Activity \cup {None}]
    /\ deals \in SUBSET DealIds
    /\ moved \in SUBSET Requests /\ aged \in SUBSET Requests
    /\ misplaced \in SUBSET CompanyIds /\ blurred \in SUBSET ActivityIds

Init ==
    /\ HandlersInit
    /\ companies = [c \in CompanyIds |->
           IF c \in DOMAIN SeedParents THEN [parent |-> SeedParents[c]] ELSE None]
    /\ contacts = [p \in ContactIds |-> None]
    /\ activities = [a \in ActivityIds |-> None]
    /\ deals = DealIds
    /\ moved = {} /\ misplaced = {} /\ aged = {} /\ blurred = {}

Exists(c) == companies[c] # None
Live == {c \in CompanyIds : Exists(c)}
\* The id of a row to create was never used.
FreshId(c) ==
    /\ c.kind = "createCompany" =>
          /\ c.company \notin DOMAIN SeedParents
          /\ \A q \in Requests : Kind(q) = "createCompany" => call[q].company # c.company
    /\ c.kind = "logActivity" =>
          \A q \in Requests : Kind(q) = "logActivity" => call[q].activity # c.activity

StartWith(r, kind, label) ==
    /\ \E c \in {c \in CompanyCalls : c.kind = kind} : FreshId(c) /\ Begin(r, c, label)
    /\ UNCHANGED <<tables, history>>

Start(r) ==
    \/ StartWith(r, "createCompany", "parent") \/ StartWith(r, "updateCompany", "company")
    \/ StartWith(r, "removeCompany", "company") \/ StartWith(r, "linkContact", "linkTo")
    \/ StartWith(r, "logActivity", "contactOf") \/ StartWith(r, "updateActivity", "activity")
    \/ StartWith(r, "removeActivity", "activity") \/ StartWith(r, "removeDeal", "deal")

-----------------------------------------------------------------------------
(***************************************************************************)
(* create and update                                                       *)
(***************************************************************************)

\* findOne of update and remove; the domain may be another company's.
FindCompany(r) ==
    /\ pc[r] = "company"
    /\ IF ~Exists(call[r].company) THEN Reply(r, "notFound")
       ELSE IF Kind(r) = "removeCompany" THEN Goto(r, "countContacts")
       ELSE \/ Reply(r, "refused")
            \/ Goto(r, IF call[r].parent \in {None, Keep} THEN "writeCompany" ELSE "parent")
    /\ UNCHANGED <<tables, history>>

FindParent(r) ==
    /\ pc[r] = "parent"
    /\ LET c == call[r].company
           p == call[r].parent
       IN  IF p = None THEN Goto(r, "insertCompany")
           ELSE IF Kind(r) = "updateCompany" /\ p = c THEN Reply(r, "refused")
           ELSE IF ~Exists(p) THEN Reply(r, "notFound")
           ELSE IF Kind(r) = "createCompany" THEN Goto(r, "insertCompany")
           ELSE Continue(r, "walk", [at |-> p, visited |-> {}])
    /\ UNCHANGED <<tables, history>>

\* Slip: a company met is not compared with the one that is to be moved.
NeverCircular(next, c) == FALSE

Circular(next, c) == next = c

\* One round of checkCircularReference: read the company, look at its parent.
Walk(r) ==
    /\ pc[r] = "walk"
    /\ LET here == held[r].at
           visited == held[r].visited \cup {here}
           next == IF Exists(here) THEN companies[here].parent ELSE None
       IN  IF next # None /\ Circular(next, call[r].company) THEN Reply(r, "circular")
           ELSE IF next = None \/ next \in visited THEN Goto(r, "writeCompany")
           ELSE Continue(r, "walk", [at |-> next, visited |-> visited])
    /\ UNCHANGED <<tables, history>>

InsertCompany(r) ==
    /\ pc[r] = "insertCompany"
    /\ LET c == call[r].company
           p == call[r].parent
       IN  IF p # None /\ ~Exists(p)
           THEN Fails(r) /\ UNCHANGED <<companies, aged>>
           ELSE /\ companies' = [companies EXCEPT ![c] = [parent |-> p]]
                /\ aged' = aged \cup {q \in At("deleteCompany") : call[q].company = p}
                /\ Reply(r, "ok")
    /\ UNCHANGED <<contacts, activities, deals, moved, misplaced, blurred>>

Walking == At("walk") \cup {q \in At("writeCompany") : call[q].parent \notin {None, Keep}}

WriteCompany(r) ==
    /\ pc[r] = "writeCompany"
    /\ LET c == call[r].company
           p == call[r].parent
       IN  IF ~Exists(c) \/ (p \notin {None, Keep} /\ ~Exists(p))
           THEN Fails(r) /\ UNCHANGED <<companies, moved, misplaced, aged>>
           ELSE /\ companies' = IF p = Keep THEN companies
                                ELSE [companies EXCEPT ![c].parent = p]
                /\ moved' = IF p = Keep THEN moved ELSE moved \cup (Walking \ {r})
                /\ misplaced' = IF r \in moved THEN misplaced \cup {c} ELSE misplaced
                /\ aged' = aged \cup {q \in At("deleteCompany") : call[q].company = p}
                /\ Reply(r, "ok")
    /\ UNCHANGED <<contacts, activities, deals, blurred>>

-----------------------------------------------------------------------------
(***************************************************************************)
(* remove                                                                  *)
(***************************************************************************)

ContactsOf(c) == {p \in ContactIds : contacts[p] = c}
SubsidiariesOf(c) == {s \in Live : companies[s].parent = c}

CountContacts(r) ==
    /\ pc[r] = "countContacts"
    /\ IF ContactsOf(call[r].company) # {} THEN Reply(r, "refused")
       ELSE Goto(r, "countSubsidiaries")
    /\ UNCHANGED <<tables, history>>

CountSubsidiaries(r) ==
    /\ pc[r] = "countSubsidiaries"
    /\ IF SubsidiariesOf(call[r].company) # {} THEN Reply(r, "refused")
       ELSE Goto(r, "deleteCompany")
    /\ UNCHANGED <<tables, history>>

\* onDelete: SetNull for subsidiaries and contacts, Cascade for activities.
DeleteCompany(r) ==
    /\ pc[r] = "deleteCompany"
    /\ LET c == call[r].company
       IN  IF ~Exists(c) THEN Fails(r) /\ UNCHANGED tables
           ELSE /\ companies' = [o \in CompanyIds |->
                       IF o = c THEN None
                       ELSE IF o \in SubsidiariesOf(c) THEN [parent |-> None]
                       ELSE companies[o]]
                /\ contacts' = [p \in ContactIds |->
                       IF contacts[p] = c THEN None ELSE contacts[p]]
                /\ activities' = [a \in ActivityIds |->
                       IF activities[a] # None /\ activities[a].company = c THEN None
                       ELSE activities[a]]
                /\ UNCHANGED deals
                /\ Reply(r, "ok")
    /\ UNCHANGED history

-----------------------------------------------------------------------------
(***************************************************************************)
(* The company of a contact                                                *)
(***************************************************************************)

FindCompanyToLink(r) ==
    /\ pc[r] = "linkTo"
    /\ IF call[r].company = None \/ Exists(call[r].company) THEN Goto(r, "link")
       ELSE Reply(r, "notFound")
    /\ UNCHANGED <<tables, history>>

LinkContact(r) ==
    /\ pc[r] = "link"
    /\ LET c == call[r].company
       IN  IF c # None /\ ~Exists(c) THEN Fails(r) /\ UNCHANGED <<contacts, aged>>
           ELSE /\ contacts' = [contacts EXCEPT ![call[r].contact] = c]
                /\ aged' = aged \cup {q \in At("countSubsidiaries") \cup At("deleteCompany") :
                                         call[q].company = c}
                /\ Reply(r, "ok")
    /\ UNCHANGED <<companies, activities, deals, moved, misplaced, blurred>>

-----------------------------------------------------------------------------
(***************************************************************************)
(* Activities                                                              *)
(***************************************************************************)

\* The findOne of update and remove.
FindActivity(r) ==
    /\ pc[r] = "activity"
    /\ LET row == activities[call[r].activity]
       IN  IF row = None THEN Reply(r, "notFound")
           ELSE Continue(r, IF Kind(r) = "removeActivity" THEN "deleteActivity" ELSE "contactOf", row)
    /\ UNCHANGED <<tables, history>>

Named == {"contact", "company", "deal"}

\* The contact may have been deleted, softly.
FindContactOf(r) ==
    /\ pc[r] = "contactOf"
    /\ IF Kind(r) = "logActivity" /\ \A column \in Named : call[r][column] = None
       THEN Reply(r, "refused")
       ELSE \/ call[r].contact \notin {None, Keep} /\ Reply(r, "notFound")
            \/ Goto(r, "companyOf")
    /\ UNCHANGED <<tables, history>>

Final(r, column) == IF call[r][column] = Keep THEN held[r][column] ELSE call[r][column]

\* "Ensure at least one entity is still present", from the row as it was read.
StillNames(r) == \E column \in Named : Final(r, column) # None

\* The rows a written activity would name are there.
NamedExist(r) ==
    /\ call[r].company \in CompanyIds => Exists(call[r].company)
    /\ call[r].deal \in DealIds => call[r].deal \in deals

FindCompanyOf(r) ==
    /\ pc[r] = "companyOf"
    /\ IF call[r].company \in CompanyIds /\ ~Exists(call[r].company) THEN Reply(r, "notFound")
       ELSE IF Kind(r) = "logActivity" THEN Goto(r, "insertActivity")
       ELSE IF StillNames(r) THEN Goto(r, "writeActivity")
       ELSE Reply(r, "refused")
    /\ UNCHANGED <<tables, history>>

\* The insert, and the update of lastContacted of the contact.
InsertActivity(r) ==
    /\ pc[r] = "insertActivity"
    /\ IF ~NamedExist(r) THEN Fails(r) /\ UNCHANGED activities
       ELSE /\ activities' = [activities EXCEPT ![call[r].activity] =
                   [column \in Named |-> call[r][column]]]
            /\ Reply(r, "ok")
    /\ UNCHANGED <<companies, contacts, deals, history>>

WriteActivity(r) ==
    /\ pc[r] = "writeActivity"
    /\ LET a == call[r].activity
           old == activities[a]
           set == [column \in Named |->
                      IF call[r][column] = Keep THEN old[column] ELSE call[r][column]]
       IN  IF old = None \/ ~NamedExist(r)
           THEN Fails(r) /\ UNCHANGED <<activities, blurred>>
           ELSE /\ activities' = [activities EXCEPT ![a] = set]
                /\ blurred' = IF held[r] # old THEN blurred \cup {a} ELSE blurred
                /\ Reply(r, "ok")
    /\ UNCHANGED <<companies, contacts, deals, moved, misplaced, aged>>

DeleteActivity(r) ==
    /\ pc[r] = "deleteActivity"
    /\ LET a == call[r].activity
       IN  IF activities[a] = None THEN Fails(r) /\ UNCHANGED activities
           ELSE activities' = [activities EXCEPT ![a] = None] /\ Reply(r, "ok")
    /\ UNCHANGED <<companies, contacts, deals, history>>

-----------------------------------------------------------------------------
(***************************************************************************)
(* The removal of a deal                                                   *)
(***************************************************************************)

FindDeal(r) ==
    /\ pc[r] = "deal"
    /\ IF call[r].deal \in deals THEN Goto(r, "deleteDeal") ELSE Reply(r, "notFound")
    /\ UNCHANGED <<tables, history>>

\* onDelete: Cascade for activities.
DeleteDeal(r) ==
    /\ pc[r] = "deleteDeal"
    /\ LET d == call[r].deal
       IN  IF d \notin deals THEN Fails(r) /\ UNCHANGED <<activities, deals>>
           ELSE /\ deals' = deals \ {d}
                /\ activities' = [a \in ActivityIds |->
                       IF activities[a] # None /\ activities[a].deal = d THEN None
                       ELSE activities[a]]
                /\ Reply(r, "ok")
    /\ UNCHANGED <<companies, contacts, history>>

Next ==
    \E r \in Requests :
        \/ Start(r)
        \/ FindCompany(r) \/ FindParent(r) \/ Walk(r) \/ InsertCompany(r) \/ WriteCompany(r)
        \/ CountContacts(r) \/ CountSubsidiaries(r) \/ DeleteCompany(r)
        \/ FindCompanyToLink(r) \/ LinkContact(r)
        \/ FindActivity(r) \/ FindContactOf(r) \/ FindCompanyOf(r)
        \/ InsertActivity(r) \/ WriteActivity(r) \/ DeleteActivity(r)
        \/ FindDeal(r) \/ DeleteDeal(r)

Spec == Init /\ [][Next]_vars

-----------------------------------------------------------------------------
(***************************************************************************)
(* Properties                                                              *)
(***************************************************************************)

\* "This would create a circular reference": every set of companies has one
\* whose parent is outside it, unless the parent of one of them was written
\* by a call under whose walk another parent had been written.
HierarchyAcyclicUnlessMoved ==
    \A S \in (SUBSET Live) \ {{}} :
        (\A c \in S : companies[c].parent \in S) => S \cap misplaced # {}

\* A contact loses its company, and a subsidiary its parent, without being
\* updated itself only when it was linked after the removal of the company
\* had counted.
LinksLostOnlyToAgedCounts ==
    [][\A r \in Requests :
          pc[r] = "deleteCompany" /\ pc'[r] = "done" /\ r \notin aged =>
              contacts' = contacts /\ \A c \in Live : Exists(c)' => companies'[c] = companies[c]]_vars

\* Every activity names a contact, a company or a deal, unless two updates,
\* each of which left one, had read the same row.
ActivitiesNameSomething ==
    \A a \in ActivityIds :
        activities[a] # None =>
            (\E column \in Named : activities[a][column] # None) \/ a \in blurred

CompaniesHold == HierarchyAcyclicUnlessMoved /\ ActivitiesNameSomething

=============================================================================

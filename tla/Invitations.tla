----------------------------- MODULE Invitations -----------------------------
(***************************************************************************)
(* Invitations to a workspace: the handlers of                             *)
(* pms/workspaces/services/workspace-invitation.service.ts, and            *)
(* auth.service.register, which accepts an invitation on its own.          *)
(*                                                                         *)
(* Every handler reads the row, decides, and writes it by id some awaits   *)
(* later, without a condition on what it read; requests interleave at the  *)
(* awaits.  A request is one call: it starts once and stops when answered. *)
(* The id of an invitation, which stands for its token too (both are       *)
(* unique), is the request that created it.                                *)
(***************************************************************************)
EXTENDS Naturals, FiniteSets

CONSTANTS
    Requests,    \* one member per call
    Workspaces,
    Emails,      \* the address is the key of a user
    Calls,       \* the calls clients make
    Validity,    \* the 7 days until an invitation lapses, in ticks
    MaxTime,     \* bound on the clock
    MaxActive    \* bound on the calls served at the same time

InviteCall == [kind: {"invite"}, ws: Workspaces, email: Emails]
TokenCall == [kind: {"get", "cancel", "resend"}, id: Requests]
UserCall == [kind: {"accept", "register"}, id: Requests, email: Emails]
NoCall == [kind |-> "none"]

ASSUME InvitationAssumption ==
    /\ Calls \subseteq InviteCall \cup TokenCall \cup UserCall
    /\ Validity \in Nat \ {0}
    /\ MaxTime \in Nat
    /\ MaxActive \in Nat \ {0}

Statuses == {"pending", "accepted", "expired", "cancelled"}
NoRow == [status |-> "none"]
Row == [ws: Workspaces, email: Emails, status: Statuses, expiresAt: Nat,
        accepted: BOOLEAN]

VARIABLES
    now,         \* the clock the handlers read with new Date()
    workspaces,  \* workspaces that exist
    users,       \* addresses of registered users
    inv,         \* workspace_invitations: a row or NoRow for each id
    pc, call,    \* where each request is, and its arguments
    answer,      \* what the caller was told
    stale,       \* history: requests whose row was written since they read it
    blind,       \* history: requests for whose address a row was created or
                 \* prolonged since they looked for a pending one
    upset        \* history: rows written by a request in stale

vars == <<now, workspaces, users, inv, pc, call, answer, stale, blind, upset>>
tables == <<now, workspaces, users, inv>>
history == <<stale, blind, upset>>

Answers == {"none", "ok", "accepted", "notFound", "conflict", "alreadySent",
            "member", "notPending", "lapsed", "mismatch", "error"}
Labels == {"idle", "findPending", "findProjects", "create", "read", "findUser",
           "accept", "expire", "cancel", "extend", "createUser", "done"}

TypeOK ==
    /\ now \in Nat
    /\ workspaces \in SUBSET Workspaces
    /\ users \in SUBSET Emails
    /\ inv \in [Requests -> {NoRow} \cup Row]
    /\ pc \in [Requests -> Labels]
    /\ call \in [Requests -> {NoCall} \cup Calls]
    /\ answer \in [Requests -> Answers]
    /\ stale \in SUBSET Requests
    /\ blind \in SUBSET Requests
    /\ upset \in SUBSET Requests

Init ==
    /\ now = 0
    /\ workspaces = Workspaces
    /\ users \in SUBSET Emails
    /\ inv = [i \in Requests |-> NoRow]
    /\ pc = [r \in Requests |-> "idle"]
    /\ call = [r \in Requests |-> NoCall]
    /\ answer = [r \in Requests |-> "none"]
    /\ stale = {}
    /\ blind = {}
    /\ upset = {}

-----------------------------------------------------------------------------

Goto(r, label) == pc' = [pc EXCEPT ![r] = label] /\ UNCHANGED answer
Reply(r, what) ==
    /\ pc' = [pc EXCEPT ![r] = "done"]
    /\ answer' = [answer EXCEPT ![r] = what]

\* The rows of a removed workspace are gone (onDelete: Cascade).
Exists(i) == inv[i] # NoRow /\ inv[i].ws \in workspaces
Active == {r \in Requests : pc[r] \notin {"idle", "done"}}

\* Slip: the days are subtracted.
TermBefore == now - Validity

\* expiresAt.setDate(getDate() + 7).
NewTerm == now + Validity

\* Requests that have read the row of an invitation and will write it.
Holding(i) ==
    {r \in Requests : /\ pc[r] \in {"findUser", "accept", "expire", "cancel", "extend"}
                      /\ call[r].id = i}

\* Requests that found no pending invitation and are about to create one.
Creating(ws, email) ==
    {r \in Requests : /\ pc[r] \in {"findProjects", "create"}
                      /\ call[r].ws = ws /\ call[r].email = email}

\* update({ where: { id } }): the row is written whatever it holds by now.
WriteRow(r, row) ==
    LET i == call[r].id
    IN  /\ inv' = [inv EXCEPT ![i] = row]
        /\ stale' = stale \cup (Holding(i) \ {r})
        /\ upset' = IF r \in stale THEN upset \cup {i} ELSE upset
        /\ UNCHANGED <<now, workspaces, users>>

-----------------------------------------------------------------------------
(***************************************************************************)
(* A call arrives and makes its first read.                                *)
(***************************************************************************)

StartInvite(r, c) ==
    IF c.ws \in workspaces THEN Goto(r, "findPending") ELSE Reply(r, "notFound")

\* register: the check for the address, before the password is hashed.
StartRegister(r, c) ==
    IF c.email \in users THEN Reply(r, "conflict") ELSE Goto(r, "createUser")

Start(r) ==
    /\ pc[r] = "idle"
    /\ Cardinality(Active) < MaxActive
    /\ \E c \in Calls :
          /\ call' = [call EXCEPT ![r] = c]
          /\ CASE c.kind = "invite" -> StartInvite(r, c)
               [] c.kind = "register" -> StartRegister(r, c)
               [] OTHER -> Goto(r, "read")
    /\ UNCHANGED <<tables, history>>

-----------------------------------------------------------------------------
(***************************************************************************)
(* inviteUserToWorkspace                                                   *)
(***************************************************************************)

\* Pending, and expiresAt greater than now.
LivePending(i) == Exists(i) /\ inv[i].status = "pending" /\ inv[i].expiresAt > now

\* Slip: the comparison with the clock is turned round.
LapsedPending(i) == Exists(i) /\ inv[i].status = "pending" /\ inv[i].expiresAt < now

\* The invitations that findFirst looks for.
Blocks(i) == LivePending(i)

FindPending(r) ==
    /\ pc[r] = "findPending"
    /\ IF \E i \in Requests : /\ Blocks(i)
                              /\ inv[i].ws = call[r].ws /\ inv[i].email = call[r].email
       THEN Reply(r, "alreadySent")
       ELSE IF call[r].email \in users
            THEN Goto(r, "findProjects")
            ELSE Goto(r, "create")
    /\ UNCHANGED <<tables, call, history>>

\* A registered user may be a member of a project of the workspace by now
\* (memberships change outside this module).
FindProjects(r) ==
    /\ pc[r] = "findProjects"
    /\ Reply(r, "member") \/ Goto(r, "create")
    /\ UNCHANGED <<tables, call, history>>

\* The row is created and the mail queued; the queue may refuse the job.
CreateInvitation(r) ==
    /\ pc[r] = "create"
    /\ IF call[r].ws \in workspaces
       THEN /\ inv' = [inv EXCEPT ![r] =
                 [ws |-> call[r].ws, email |-> call[r].email, status |-> "pending",
                  expiresAt |-> NewTerm, accepted |-> FALSE]]
            /\ blind' = blind \cup (Creating(call[r].ws, call[r].email) \ {r})
            /\ Reply(r, "ok") \/ Reply(r, "error")
       ELSE Reply(r, "error") /\ UNCHANGED <<inv, blind>>
    /\ UNCHANGED <<now, workspaces, users, call, stale, upset>>

-----------------------------------------------------------------------------
(***************************************************************************)
(* The handlers of an existing invitation                                  *)
(***************************************************************************)

\* Slip: the comparison is turned round.
NotLapsed(i) == inv[i].expiresAt > now

Lapsed(i) == inv[i].expiresAt < now

\* Slip: cancelInvitation does not look at the status.
RefusedUnlessCancel(i, k) == inv[i].status # "pending" /\ k # "cancel"

Refused(i, k) == inv[i].status # "pending"

NextStep == [accept |-> "findUser", cancel |-> "cancel", resend |-> "extend"]

\* getInvitationByToken and acceptInvitation refuse a row that is no longer
\* pending and mark a lapsed one; cancel and resend look at the status alone.
ReadInvitation(r) ==
    /\ pc[r] = "read" /\ call[r].kind # "register"
    /\ LET i == call[r].id
           k == call[r].kind
       IN  CASE ~Exists(i) -> Reply(r, "notFound")
             [] Exists(i) /\ Refused(i, k) -> Reply(r, "notPending")
             [] OTHER ->
                  IF k \in {"get", "accept"} /\ Lapsed(i) THEN Goto(r, "expire")
                  ELSE IF k = "get" THEN Reply(r, "ok") ELSE Goto(r, NextStep[k])
    /\ UNCHANGED <<tables, call, history>>

\* After the update of a row: register goes on whatever happened to it.
Answered(r, what) == Reply(r, IF call[r].kind = "register" /\ what # "accepted"
                             THEN "ok" ELSE what)

RowGone(r) ==
    /\ ~Exists(call[r].id)
    /\ Answered(r, "error")
    /\ UNCHANGED <<tables, history>>

MarkExpired(r) ==
    /\ pc[r] = "expire"
    /\ \/ RowGone(r)
       \/ /\ Exists(call[r].id)
          /\ WriteRow(r, [inv[call[r].id] EXCEPT !.status = "expired"])
          /\ Answered(r, "lapsed")
          /\ UNCHANGED blind
    /\ UNCHANGED call

\* The address of the caller must be the invited one.  The row was read
\* before, and neither its address nor its workspace ever changes.
FindUser(r) ==
    /\ pc[r] = "findUser"
    /\ IF call[r].email \notin users THEN Reply(r, "notFound")
       ELSE IF inv[call[r].id].email # call[r].email THEN Reply(r, "mismatch")
       ELSE Goto(r, "accept")
    /\ UNCHANGED <<tables, call, history>>

Accept(r) ==
    /\ pc[r] = "accept"
    /\ \/ RowGone(r)
       \/ /\ Exists(call[r].id)
          /\ WriteRow(r, [inv[call[r].id] EXCEPT !.status = "accepted", !.accepted = TRUE])
          /\ Answered(r, "accepted")
          /\ UNCHANGED blind
    /\ UNCHANGED call

Cancel(r) ==
    /\ pc[r] = "cancel"
    /\ \/ RowGone(r)
       \/ /\ Exists(call[r].id)
          /\ WriteRow(r, [inv[call[r].id] EXCEPT !.status = "cancelled"])
          /\ Reply(r, "ok")
          /\ UNCHANGED blind
    /\ UNCHANGED call

\* resendInvitation: another 7 days from now, and the mail once more.
Extend(r) ==
    /\ pc[r] = "extend"
    /\ \/ RowGone(r)
       \/ LET row == inv[call[r].id]
          IN  /\ Exists(call[r].id)
              /\ WriteRow(r, [row EXCEPT !.expiresAt = NewTerm])
              /\ blind' = blind \cup Creating(row.ws, row.email)
              /\ Reply(r, "ok") \/ Reply(r, "error")
    /\ UNCHANGED call

-----------------------------------------------------------------------------
(***************************************************************************)
(* register                                                                *)
(***************************************************************************)

\* users.email is unique: the second of two registrations fails here.
CreateUser(r) ==
    /\ pc[r] = "createUser"
    /\ IF call[r].email \in users
       THEN Reply(r, "error") /\ UNCHANGED users
       ELSE Goto(r, "read") /\ users' = users \cup {call[r].email}
    /\ UNCHANGED <<now, workspaces, inv, call, history>>

\* Slip: the address of the invitation is not compared.
RedeemableByAnyone(r) == Exists(call[r].id) /\ inv[call[r].id].status = "pending"

Redeemable(r) ==
    LET i == call[r].id
    IN  Exists(i) /\ inv[i].status = "pending" /\ inv[i].email = call[r].email

\* The invitation named in the registration, if any: one that cannot be
\* accepted is passed over in silence.
ReadForRegister(r) ==
    /\ pc[r] = "read" /\ call[r].kind = "register"
    /\ IF ~Redeemable(r) THEN Reply(r, "ok")
       ELSE IF Lapsed(call[r].id) THEN Goto(r, "expire") ELSE Goto(r, "accept")
    /\ UNCHANGED <<tables, call, history>>

-----------------------------------------------------------------------------

\* workspaces.remove, and with it every invitation to the workspace.
RemoveWorkspace(w) ==
    /\ w \in workspaces
    /\ workspaces' = workspaces \ {w}
    /\ UNCHANGED <<now, users, inv, pc, call, answer, history>>

Tick ==
    /\ now < MaxTime
    /\ now' = now + 1
    /\ UNCHANGED <<workspaces, users, inv, pc, call, answer, history>>

Next ==
    \/ \E r \in Requests :
          \/ Start(r)
          \/ FindPending(r) \/ FindProjects(r) \/ CreateInvitation(r)
          \/ ReadInvitation(r) \/ MarkExpired(r) \/ FindUser(r) \/ Accept(r)
          \/ Cancel(r) \/ Extend(r)
          \/ CreateUser(r) \/ ReadForRegister(r)
    \/ \E w \in Workspaces : RemoveWorkspace(w)
    \/ Tick

Spec == Init /\ [][Next]_vars

-----------------------------------------------------------------------------
(***************************************************************************)
(* Properties                                                              *)
(***************************************************************************)

\* A row nobody overwrote on an outdated read says one thing: it is marked
\* expired only when its term is over, and holds an acceptance exactly when
\* its status is accepted.  The marking of a lapsed row, a resend that
\* prolongs it and an acceptance all write the same row by id.
RowsConsistent ==
    \A i \in Requests : Exists(i) /\ i \notin upset =>
        /\ inv[i].status = "expired" => inv[i].expiresAt < now
        /\ inv[i].accepted <=> inv[i].status = "accepted"

\* An invitation is accepted for a registered user with the invited address,
\* through the accept endpoint as through a registration.
AcceptedByInvitee ==
    \A i \in Requests : Exists(i) /\ inv[i].accepted => inv[i].email \in users

\* An invitation that was accepted, cancelled or marked expired keeps that
\* status, unless a request writes it that read it while it was pending.
SettledUnlessStale ==
    [][\A i \in Requests :
          /\ Exists(i) /\ inv[i].status # "pending"
          /\ inv'[i].status # inv[i].status
          => \E r \in Holding(i) \cap stale : pc'[r] = "done"]_vars

SamePlace(i, j) == inv[i].ws = inv[j].ws /\ inv[i].email = inv[j].email

\* Two invitations for one address and workspace are live at the same time.
Doubled ==
    \E i, j \in Requests :
        i # j /\ LivePending(i) /\ LivePending(j) /\ SamePlace(i, j)

\* The check for an invitation that is already there fails to keep a second
\* one away in two cases only: another row was created or prolonged since
\* the check, or a lapsed invitation is resent.
DoubledOnlyBlindly ==
    [][~Doubled /\ Doubled' =>
          \E r \in Requests :
              /\ pc[r] = "extend" \/ (pc[r] = "create" /\ r \in blind)
              /\ pc'[r] = "done"]_vars

\* What the refusal "Invitation already sent to this email" is there for.
OneLiveInvitation == ~Doubled

=============================================================================

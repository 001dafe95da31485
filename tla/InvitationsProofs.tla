--------------------------- MODULE InvitationsProofs ---------------------------
(***************************************************************************)
(* Theorems about Invitations, for any requests, workspaces, addresses,    *)
(* calls, validity and clock.                                              *)
(***************************************************************************)
EXTENDS Invitations, TLAPS

-----------------------------------------------------------------------------
(***************************************************************************)
(* The inductive invariant                                                 *)
(***************************************************************************)

Inviting(r) == pc[r] \in {"findProjects", "create"}
Held(r) == pc[r] \in {"findUser", "accept", "expire", "cancel", "extend"}

\* Where a request is says which kind of call it carries.
CallOK ==
    \A r \in Requests :
        /\ pc[r] \in {"findPending", "findProjects", "create"} => call[r] \in InviteCall
        /\ pc[r] = "read" \/ Held(r) => call[r] \in TokenCall \cup UserCall
        /\ pc[r] \in {"createUser", "findUser", "accept"} => call[r] \in UserCall

Typed == TypeOK /\ CallOK

\* A request that has not created its row owns none, and a request that is
\* about to write a row has read it.  The tables forget no row: those of a
\* removed workspace stay, out of reach.
RowsRead ==
    \A r \in Requests :
        /\ pc[r] \in {"idle", "findPending", "findProjects", "create"} => inv[r] = NoRow
        /\ Held(r) => inv[call[r].id] # NoRow

\* What a request decided on its read still stands, but for the stale ones.
ReadStands ==
    \A r \in Requests : Held(r) /\ r \notin stale =>
        /\ inv[call[r].id].status = "pending"
        /\ pc[r] = "expire" => inv[call[r].id].expiresAt < now

\* A request about to accept speaks for a registered user with the address
\* of the row, which nothing changes; a registration that goes on to read the
\* invitation has created the user.
Entitled ==
    \A r \in Requests :
        /\ pc[r] = "accept" =>
              inv[call[r].id].email = call[r].email /\ call[r].email \in users
        /\ pc[r] = "read" /\ call[r].kind = "register" => call[r].email \in users

\* Nothing blocks a request that found nothing to block it, but for the blind.
StillFree ==
    \A r \in Requests : Inviting(r) /\ r \notin blind =>
        ~ \E i \in Requests : /\ LivePending(i)
                              /\ inv[i].ws = call[r].ws /\ inv[i].email = call[r].email

IInv ==
    /\ Typed
    /\ RowsRead
    /\ ReadStands
    /\ Entitled
    /\ StillFree
    /\ RowsConsistent
    /\ AcceptedByInvitee

-----------------------------------------------------------------------------
(***************************************************************************)
(* Initially                                                               *)
(***************************************************************************)

LEMMA IInvInit == ASSUME InvitationAssumption PROVE Init => IInv
<1> SUFFICES ASSUME Init PROVE IInv
  OBVIOUS
<1>1. TypeOK
  BY DEF Init, TypeOK, Labels, Answers
<1>2. CallOK /\ RowsRead /\ ReadStands /\ Entitled /\ StillFree
  BY DEF Init, CallOK, RowsRead, ReadStands, Entitled, StillFree, Held, Inviting
<1>3. RowsConsistent /\ AcceptedByInvitee
  BY DEF Init, RowsConsistent, AcceptedByInvitee, Exists
<1> QED BY <1>1, <1>2, <1>3 DEF IInv, Typed

-----------------------------------------------------------------------------
(***************************************************************************)
(* Types                                                                   *)
(***************************************************************************)

LEMMA CallTypes ==
    /\ \A c \in InviteCall : c.kind = "invite" /\ c.ws \in Workspaces /\ c.email \in Emails
    /\ \A c \in TokenCall : c.kind \in {"get", "cancel", "resend"} /\ c.id \in Requests
    /\ \A c \in UserCall :
          c.kind \in {"accept", "register"} /\ c.id \in Requests /\ c.email \in Emails
BY DEF InviteCall, TokenCall, UserCall

LEMMA TableTyped ==
    ASSUME TypeOK, NEW i \in Requests, NEW row \in Row
    PROVE  [inv EXCEPT ![i] = row] \in [Requests -> {NoRow} \cup Row]
BY DEF TypeOK

-----------------------------------------------------------------------------
(***************************************************************************)
(* What a step does to the rows                                            *)
(***************************************************************************)

LEMMA RowIsThere == \A row \in Row : row # NoRow
BY DEF Row, NoRow, Statuses

\* The row of r appears, pending, and the others about to create one like it
\* are blind.
Creates(r, row) ==
    /\ pc[r] = "create" /\ pc' = [pc EXCEPT ![r] = "done"]
    /\ row.ws = call[r].ws /\ row.email = call[r].email
    /\ row.status = "pending" /\ ~row.accepted
    /\ inv' = [inv EXCEPT ![r] = row]
    /\ blind' = blind \cup (Creating(row.ws, row.email) \ {r})
    /\ UNCHANGED <<now, workspaces, users, call, stale, upset>>

\* r writes the row i, which is there, and the others that hold it are stale.
Overwrites(r, i, row) ==
    /\ Held(r) /\ i = call[r].id /\ Exists(i) /\ pc' = [pc EXCEPT ![r] = "done"]
    /\ row.ws = inv[i].ws /\ row.email = inv[i].email
    /\ inv' = [inv EXCEPT ![i] = row]
    /\ stale' = stale \cup (Holding(i) \ {r})
    /\ upset' = IF r \in stale THEN upset \cup {i} ELSE upset
    /\ UNCHANGED <<now, workspaces, users, call>>
    /\ \/ /\ pc[r] \in {"expire", "accept", "cancel"}
          /\ row.expiresAt = inv[i].expiresAt /\ blind' = blind
          /\ \/ pc[r] = "accept" /\ row.status = "accepted" /\ row.accepted
             \/ pc[r] = "expire" /\ row.status = "expired" /\ row.accepted = inv[i].accepted
             \/ pc[r] = "cancel" /\ row.status = "cancelled" /\ row.accepted = inv[i].accepted
       \/ /\ pc[r] = "extend"
          /\ row.status = inv[i].status /\ row.accepted = inv[i].accepted
          /\ blind' = blind \cup Creating(row.ws, row.email)

\* r stops and the tables stay as they are.
Stops(r) ==
    /\ pc' = [pc EXCEPT ![r] = "done"]
    /\ UNCHANGED <<tables, call, history>>

LEMMA Creation ==
    ASSUME InvitationAssumption, Typed, NEW r \in Requests, CreateInvitation(r)
    PROVE  (\E row \in Row : Creates(r, row)) \/ Stops(r)
<1> DEFINE row == [ws |-> call[r].ws, email |-> call[r].email, status |-> "pending",
                   expiresAt |-> NewTerm, accepted |-> FALSE]
<1>1. pc[r] = "create" /\ call[r].ws \in Workspaces /\ call[r].email \in Emails
  BY CallTypes DEF CreateInvitation, Typed, CallOK
<1>2. row \in Row
  BY <1>1 DEF Row, Statuses, NewTerm, InvitationAssumption, Typed, TypeOK
<1>3. CASE call[r].ws \in workspaces
  <2>1. Creates(r, row)
    BY <1>1, <1>3 DEF CreateInvitation, Creates, Reply
  <2> QED BY <1>2, <2>1
<1>4. CASE call[r].ws \notin workspaces
  BY <1>1, <1>4 DEF CreateInvitation, Stops, Reply, tables, history
<1> QED BY <1>3, <1>4

LEMMA Writing ==
    ASSUME InvitationAssumption, Typed, RowsRead, NEW r \in Requests,
           MarkExpired(r) \/ Accept(r) \/ Cancel(r) \/ Extend(r)
    PROVE  /\ call[r].id \in Requests
           /\ \/ \E row \in Row : Overwrites(r, call[r].id, row)
              \/ Stops(r)
<1> DEFINE i == call[r].id
<1>1. Held(r) /\ i \in Requests
  BY CallTypes DEF MarkExpired, Accept, Cancel, Extend, Typed, CallOK, Held
<1>2. inv[i] \in Row
  BY <1>1 DEF RowsRead, Typed, TypeOK
<1>3. CASE RowGone(r)
  BY <1>1, <1>3 DEF MarkExpired, Accept, Cancel, Extend, RowGone, Answered, Reply, Stops,
                    Typed, TypeOK, tables, history, Exists, WriteRow
<1>4. CASE MarkExpired(r) /\ ~RowGone(r)
  <2> DEFINE row == [inv[i] EXCEPT !.status = "expired"]
  <2>1. row \in Row /\ row.ws = inv[i].ws /\ row.email = inv[i].email
        /\ row.status = "expired" /\ row.accepted = inv[i].accepted
        /\ row.expiresAt = inv[i].expiresAt
    BY <1>2 DEF Row, Statuses
  <2>2. Overwrites(r, i, row)
    BY <1>1, <1>4, <2>1 DEF MarkExpired, Overwrites, WriteRow, Answered, Reply
  <2> QED BY <1>1, <2>1, <2>2
<1>5. CASE Accept(r) /\ ~RowGone(r)
  <2> DEFINE row == [inv[i] EXCEPT !.status = "accepted", !.accepted = TRUE]
  <2>1. row \in Row /\ row.ws = inv[i].ws /\ row.email = inv[i].email
        /\ row.status = "accepted" /\ row.accepted = TRUE
        /\ row.expiresAt = inv[i].expiresAt
    BY <1>2 DEF Row, Statuses
  <2>2. Overwrites(r, i, row)
    BY <1>1, <1>5, <2>1 DEF Accept, Overwrites, WriteRow, Answered, Reply
  <2> QED BY <1>1, <2>1, <2>2
<1>6. CASE Cancel(r) /\ ~RowGone(r)
  <2> DEFINE row == [inv[i] EXCEPT !.status = "cancelled"]
  <2>1. row \in Row /\ row.ws = inv[i].ws /\ row.email = inv[i].email
        /\ row.status = "cancelled" /\ row.accepted = inv[i].accepted
        /\ row.expiresAt = inv[i].expiresAt
    BY <1>2 DEF Row, Statuses
  <2>2. Overwrites(r, i, row)
    BY <1>1, <1>6, <2>1 DEF Cancel, Overwrites, WriteRow, Reply
  <2> QED BY <1>1, <2>1, <2>2
<1>7. CASE Extend(r) /\ ~RowGone(r)
  <2> DEFINE row == [inv[i] EXCEPT !.expiresAt = NewTerm]
  <2>1. row \in Row /\ row.ws = inv[i].ws /\ row.email = inv[i].email
        /\ row.status = inv[i].status /\ row.accepted = inv[i].accepted
    BY <1>2 DEF Row, Typed, TypeOK, NewTerm, InvitationAssumption
  <2>2. Overwrites(r, i, row)
    BY <1>1, <1>7, <2>1 DEF Extend, Overwrites, WriteRow, Reply
  <2> QED BY <1>1, <2>1, <2>2
<1> QED BY <1>3, <1>4, <1>5, <1>6, <1>7

LEMMA TypedStep ==
    ASSUME InvitationAssumption, Typed, RowsRead, [Next]_vars
    PROVE  Typed'
<1> USE CallTypes DEF Typed, TypeOK, Labels, Answers, Goto, Reply, tables, history
<1>1. ASSUME NEW r \in Requests, Start(r) PROVE Typed'
  <2>1. PICK c \in Calls :
            /\ call' = [call EXCEPT ![r] = c]
            /\ CASE c.kind = "invite" -> StartInvite(r, c)
                 [] c.kind = "register" -> StartRegister(r, c)
                 [] OTHER -> Goto(r, "read")
    BY <1>1 DEF Start
  <2>2. c \in InviteCall \cup TokenCall \cup UserCall
    BY DEF InvitationAssumption
  <2>3. TypeOK'
    BY <1>1, <2>1 DEF Start, StartInvite, StartRegister
  <2>4. CallOK'
    BY <1>1, <2>1, <2>2 DEF Start, StartInvite, StartRegister, CallOK, Held
  <2> QED BY <2>3, <2>4
<1>2. ASSUME NEW r \in Requests, FindPending(r) \/ FindProjects(r) PROVE Typed'
  BY <1>2 DEF FindPending, FindProjects, CallOK, Held
<1>3. ASSUME NEW r \in Requests, CreateInvitation(r) PROVE Typed'
  <2>1. (\E row \in Row : Creates(r, row)) \/ Stops(r)
    BY <1>3, Creation
  <2>2. inv' \in [Requests -> {NoRow} \cup Row]
    BY <2>1, TableTyped DEF Creates, Stops
  <2>3. TypeOK'
    BY <1>3, <2>2 DEF CreateInvitation, Creating
  <2>4. CallOK'
    BY <1>3 DEF CreateInvitation, CallOK, Held
  <2> QED BY <2>3, <2>4
<1>4. ASSUME NEW r \in Requests, ReadInvitation(r) PROVE Typed'
  <2>1. TypeOK'
    BY <1>4 DEF ReadInvitation, NextStep, CallOK
  <2>2. CallOK'
    BY <1>4 DEF ReadInvitation, NextStep, CallOK, Held
  <2> QED BY <2>1, <2>2
<1>5. ASSUME NEW r \in Requests, FindUser(r) \/ CreateUser(r) \/ ReadForRegister(r)
      PROVE  Typed'
  <2>1. TypeOK'
    BY <1>5 DEF FindUser, CreateUser, ReadForRegister, CallOK
  <2>2. CallOK'
    BY <1>5 DEF FindUser, CreateUser, ReadForRegister, CallOK, Held
  <2> QED BY <2>1, <2>2
<1>6. ASSUME NEW r \in Requests, MarkExpired(r) \/ Accept(r) \/ Cancel(r) \/ Extend(r)
      PROVE  Typed'
  <2>1. \/ \E row \in Row : Overwrites(r, call[r].id, row)
        \/ Stops(r)
    BY <1>6, Writing
  <2>2. call[r].id \in Requests /\ pc' = [pc EXCEPT ![r] = "done"] /\ call' = call
    BY <1>6, Writing DEF Overwrites, Stops
  <2>3. inv' \in [Requests -> {NoRow} \cup Row]
    BY <2>1, <2>2, TableTyped DEF Overwrites, Stops
  <2>4. /\ stale' \in SUBSET Requests /\ upset' \in SUBSET Requests
        /\ blind' \in SUBSET Requests
    BY <2>1, <2>2 DEF Overwrites, Stops, Holding, Creating
  <2>5. answer' \in [Requests -> Answers]
    BY <1>6 DEF MarkExpired, Accept, Cancel, Extend, RowGone, Answered
  <2>6. TypeOK'
    BY <2>1, <2>2, <2>3, <2>4, <2>5 DEF Overwrites, Stops
  <2>7. CallOK'
    BY <2>2 DEF CallOK, Held
  <2> QED BY <2>6, <2>7
<1>7. ASSUME NEW w \in Workspaces, RemoveWorkspace(w) PROVE Typed'
  BY <1>7 DEF RemoveWorkspace, CallOK, Held
<1>8. CASE Tick
  BY <1>8 DEF Tick, CallOK, Held
<1>9. CASE UNCHANGED vars
  BY <1>9 DEF vars, CallOK, Held
<1> QED BY <1>1, <1>2, <1>3, <1>4, <1>5, <1>6, <1>7, <1>8, <1>9 DEF Next


-----------------------------------------------------------------------------
(***************************************************************************)
(* The parts of the invariant, step by step                                *)
(***************************************************************************)

LEMMA RowsReadStep ==
    ASSUME InvitationAssumption, Typed, RowsRead, [Next]_vars
    PROVE  RowsRead'
<1> USE DEF Typed, TypeOK, Goto, Reply, tables, history, RowsRead, Held
<1>1. ASSUME NEW r \in Requests, Start(r) PROVE RowsRead'
  <2>1. PICK c \in Calls : call' = [call EXCEPT ![r] = c]
    BY <1>1 DEF Start
  <2>2. /\ inv' = inv
        /\ \E l \in {"findPending", "createUser", "read", "done"} : pc' = [pc EXCEPT ![r] = l]
    BY <1>1 DEF Start, StartInvite, StartRegister
  <2>3. pc[r] = "idle"
    BY <1>1 DEF Start
  <2> QED BY <2>1, <2>2, <2>3
<1>2. ASSUME NEW r \in Requests, FindPending(r) \/ FindProjects(r) PROVE RowsRead'
  BY <1>2 DEF FindPending, FindProjects
<1>3. ASSUME NEW r \in Requests, CreateInvitation(r) PROVE RowsRead'
  <2>1. CASE Stops(r)
    BY <2>1 DEF Stops
  <2>2. ASSUME NEW row \in Row, Creates(r, row) PROVE RowsRead'
    BY <2>2, RowIsThere DEF Creates, RowsRead, Held
  <2> QED BY <1>3, <2>1, <2>2, Creation
<1>4. ASSUME NEW r \in Requests, ReadInvitation(r) \/ ReadForRegister(r) PROVE RowsRead'
  <2>1. /\ inv' = inv /\ call' = call
        /\ \E l \in Labels : pc' = [pc EXCEPT ![r] = l] /\ (l # "done" => inv[call[r].id] # NoRow)
        /\ pc'[r] \notin {"idle", "findPending", "findProjects", "create"}
    <3>1. CASE ReadInvitation(r)
      BY <3>1, CallTypes DEF ReadInvitation, NextStep, Exists, Labels, CallOK
    <3>2. CASE ReadForRegister(r)
      BY <3>2 DEF ReadForRegister, Redeemable, Exists, Labels
    <3> QED BY <1>4, <3>1, <3>2
  <2> QED BY <2>1
<1>5. ASSUME NEW r \in Requests, FindUser(r) \/ CreateUser(r) PROVE RowsRead'
  BY <1>5 DEF FindUser, CreateUser
<1>6. ASSUME NEW r \in Requests, MarkExpired(r) \/ Accept(r) \/ Cancel(r) \/ Extend(r)
      PROVE  RowsRead'
  <2>1. CASE Stops(r)
    BY <2>1 DEF Stops
  <2>2. ASSUME NEW row \in Row, Overwrites(r, call[r].id, row) PROVE RowsRead'
    BY <2>2, <1>6, Writing, RowIsThere DEF Overwrites
  <2> QED BY <1>6, <2>1, <2>2, Writing
<1>7. ASSUME NEW w \in Workspaces, RemoveWorkspace(w) PROVE RowsRead'
  BY <1>7 DEF RemoveWorkspace
<1>8. CASE Tick \/ UNCHANGED vars
  BY <1>8 DEF Tick, vars
<1> QED BY <1>1, <1>2, <1>3, <1>4, <1>5, <1>6, <1>7, <1>8 DEF Next

\* A request that writes a row leaves every other that holds it stale.
LEMMA ReadStandsStep ==
    ASSUME InvitationAssumption, Typed, RowsRead, ReadStands, [Next]_vars
    PROVE  ReadStands'
<1> USE DEF Typed, TypeOK, Goto, Reply, tables, history, ReadStands, Held
<1>1. ASSUME NEW r \in Requests, Start(r) PROVE ReadStands'
  <2>1. PICK c \in Calls : call' = [call EXCEPT ![r] = c]
    BY <1>1 DEF Start
  <2>2. /\ inv' = inv /\ stale' = stale /\ now' = now
        /\ \E l \in {"findPending", "createUser", "read", "done"} : pc' = [pc EXCEPT ![r] = l]
    BY <1>1 DEF Start, StartInvite, StartRegister
  <2> QED BY <2>1, <2>2
<1>2. ASSUME NEW r \in Requests, FindPending(r) \/ FindProjects(r) PROVE ReadStands'
  BY <1>2 DEF FindPending, FindProjects
<1>3. ASSUME NEW r \in Requests, CreateInvitation(r) PROVE ReadStands'
  <2>1. CASE Stops(r)
    BY <2>1 DEF Stops
  <2>2. ASSUME NEW row \in Row, Creates(r, row) PROVE ReadStands'
    BY <2>2, RowIsThere DEF Creates, RowsRead, Held
  <2> QED BY <1>3, <2>1, <2>2, Creation
<1>4. ASSUME NEW r \in Requests, ReadInvitation(r) \/ ReadForRegister(r) PROVE ReadStands'
  BY <1>4, CallTypes
     DEF ReadInvitation, ReadForRegister, NextStep, Exists, Redeemable, Refused, Lapsed, CallOK
<1>5. ASSUME NEW r \in Requests, FindUser(r) \/ CreateUser(r) PROVE ReadStands'
  BY <1>5 DEF FindUser, CreateUser
<1>6. ASSUME NEW r \in Requests, MarkExpired(r) \/ Accept(r) \/ Cancel(r) \/ Extend(r)
      PROVE  ReadStands'
  <2>1. CASE Stops(r)
    BY <2>1 DEF Stops
  <2>2. ASSUME NEW row \in Row, Overwrites(r, call[r].id, row) PROVE ReadStands'
    BY <2>2, <1>6, Writing, RowIsThere DEF Overwrites, Holding
  <2> QED BY <1>6, <2>1, <2>2, Writing
<1>7. ASSUME NEW w \in Workspaces, RemoveWorkspace(w) PROVE ReadStands'
  BY <1>7 DEF RemoveWorkspace
<1>8. CASE Tick
  <2>1. \A r \in Requests : Held(r) => call[r].id \in Requests /\ inv[call[r].id] \in Row
    BY CallTypes DEF CallOK, RowsRead
  <2>2. \A row \in Row : row.expiresAt \in Nat
    BY DEF Row
  <2> QED BY <1>8, <2>1, <2>2 DEF Tick
<1>9. CASE UNCHANGED vars
  BY <1>9 DEF vars
<1> QED BY <1>1, <1>2, <1>3, <1>4, <1>5, <1>6, <1>7, <1>8, <1>9 DEF Next

\* The address of a row never changes, and no user goes.
LEMMA EntitledStep ==
    ASSUME InvitationAssumption, Typed, RowsRead, Entitled, [Next]_vars
    PROVE  Entitled'
<1> USE DEF Typed, TypeOK, Goto, Reply, tables, history, Entitled
<1>1. ASSUME NEW r \in Requests, Start(r) PROVE Entitled'
  <2>1. PICK c \in Calls :
            /\ call' = [call EXCEPT ![r] = c]
            /\ CASE c.kind = "invite" -> StartInvite(r, c)
                 [] c.kind = "register" -> StartRegister(r, c)
                 [] OTHER -> Goto(r, "read")
    BY <1>1 DEF Start
  <2>2. /\ inv' = inv /\ users' = users
        /\ \/ c.kind # "register" /\ pc' = [pc EXCEPT ![r] = "read"]
           \/ \E l \in {"findPending", "createUser", "done"} : pc' = [pc EXCEPT ![r] = l]
    BY <1>1, <2>1 DEF Start, StartInvite, StartRegister
  <2> QED BY <2>1, <2>2
<1>2. ASSUME NEW r \in Requests, FindPending(r) \/ FindProjects(r) PROVE Entitled'
  BY <1>2 DEF FindPending, FindProjects
<1>3. ASSUME NEW r \in Requests, CreateInvitation(r) PROVE Entitled'
  <2>1. CASE Stops(r)
    BY <2>1 DEF Stops
  <2>2. ASSUME NEW row \in Row, Creates(r, row) PROVE Entitled'
    BY <2>2, RowIsThere DEF Creates, RowsRead, Held
  <2> QED BY <1>3, <2>1, <2>2, Creation
<1>4. ASSUME NEW r \in Requests, ReadInvitation(r) PROVE Entitled'
  BY <1>4, CallTypes DEF ReadInvitation, NextStep, CallOK, Held
<1>5. ASSUME NEW r \in Requests, ReadForRegister(r) PROVE Entitled'
  BY <1>5 DEF ReadForRegister, Redeemable
<1>6. ASSUME NEW r \in Requests, FindUser(r) \/ CreateUser(r) PROVE Entitled'
  BY <1>6 DEF FindUser, CreateUser
<1>7. ASSUME NEW r \in Requests, MarkExpired(r) \/ Accept(r) \/ Cancel(r) \/ Extend(r)
      PROVE  Entitled'
  <2>1. CASE Stops(r)
    BY <2>1 DEF Stops
  <2>2. ASSUME NEW row \in Row, Overwrites(r, call[r].id, row) PROVE Entitled'
    BY <2>2, <1>7, Writing, RowIsThere DEF Overwrites
  <2> QED BY <1>7, <2>1, <2>2, Writing
<1>8. ASSUME NEW w \in Workspaces, RemoveWorkspace(w) PROVE Entitled'
  BY <1>8 DEF RemoveWorkspace
<1>9. CASE Tick \/ UNCHANGED vars
  BY <1>9 DEF Tick, vars
<1> QED BY <1>1, <1>2, <1>3, <1>4, <1>5, <1>6, <1>7, <1>8, <1>9 DEF Next


\* The steps that change no row, but may move a request, a user, the clock or
\* a workspace.
Quiet ==
    /\ inv' = inv /\ workspaces' \subseteq workspaces /\ users \subseteq users'
    /\ now' \in Nat /\ now =< now'
    /\ UNCHANGED history

LEMMA Effects ==
    ASSUME InvitationAssumption, Typed, RowsRead, [Next]_vars
    PROVE  \/ Quiet
           \/ \E r \in Requests, row \in Row : Creates(r, row)
           \/ \E r \in Requests, row \in Row :
                 call[r].id \in Requests /\ Overwrites(r, call[r].id, row)
<1> USE DEF Typed, TypeOK, Quiet, tables, history
<1>1. ASSUME NEW r \in Requests, Start(r) PROVE Quiet
  BY <1>1 DEF Start
<1>2. ASSUME NEW r \in Requests, FindPending(r) \/ FindProjects(r) PROVE Quiet
  BY <1>2 DEF FindPending, FindProjects
<1>3. ASSUME NEW r \in Requests, CreateInvitation(r)
      PROVE  Quiet \/ \E row \in Row : Creates(r, row)
  BY <1>3, Creation DEF Stops
<1>4. ASSUME NEW r \in Requests, ReadInvitation(r) \/ ReadForRegister(r) PROVE Quiet
  BY <1>4 DEF ReadInvitation, ReadForRegister
<1>5. ASSUME NEW r \in Requests, FindUser(r) \/ CreateUser(r) PROVE Quiet
  BY <1>5 DEF FindUser, CreateUser
<1>6. ASSUME NEW r \in Requests, MarkExpired(r) \/ Accept(r) \/ Cancel(r) \/ Extend(r)
      PROVE  \/ Quiet
             \/ \E row \in Row : call[r].id \in Requests /\ Overwrites(r, call[r].id, row)
  BY <1>6, Writing DEF Stops
<1>7. ASSUME NEW w \in Workspaces, RemoveWorkspace(w) PROVE Quiet
  BY <1>7 DEF RemoveWorkspace
<1>8. CASE Tick \/ UNCHANGED vars
  BY <1>8 DEF Tick, vars
<1> QED BY <1>1, <1>2, <1>3, <1>4, <1>5, <1>6, <1>7, <1>8 DEF Next

\* What is live after a quiet step was live before.
LEMMA LiveBefore ==
    ASSUME Typed, Quiet, NEW i \in Requests, LivePending(i)'
    PROVE  LivePending(i)
<1>1. inv[i] \in Row
  BY DEF LivePending, Exists, Quiet, Typed, TypeOK
<1>2. inv[i].expiresAt \in Nat
  BY <1>1 DEF Row
<1> QED BY <1>2 DEF LivePending, Exists, Quiet, Typed, TypeOK

\* A new or a prolonged row makes blind whoever is about to create its like.
LEMMA StillFreeStep ==
    ASSUME InvitationAssumption, Typed, RowsRead, StillFree, [Next]_vars
    PROVE  StillFree'
<1> SUFFICES ASSUME NEW q \in Requests, Inviting(q)', q \notin blind',
                    NEW i \in Requests, LivePending(i)',
                    inv'[i].ws = call'[q].ws /\ inv'[i].email = call'[q].email
             PROVE  FALSE
  BY DEF StillFree
<1>1. CASE Quiet
  <2>1. LivePending(i)
    BY <1>1, LiveBefore
  <2>2. /\ ~Inviting(q) \/ call'[q] # call[q]
        /\ q \notin blind /\ inv[i].ws = call'[q].ws /\ inv[i].email = call'[q].email
    BY <1>1, <2>1 DEF StillFree, Quiet, history
  <2>3. \E r \in Requests : FindPending(r) /\ r = q
    <3> USE <2>2 DEF Inviting, Goto, Reply, Typed, TypeOK
    <3>1. ASSUME NEW r \in Requests, Start(r) PROVE FALSE
      BY <3>1 DEF Start, StartInvite, StartRegister
    <3>2. ASSUME NEW r \in Requests, FindPending(r) \/ FindProjects(r)
          PROVE  FindPending(r) /\ r = q
      BY <3>2 DEF FindPending, FindProjects
    <3>3. ASSUME NEW r \in Requests, CreateInvitation(r) PROVE FALSE
      BY <3>3 DEF CreateInvitation
    <3>4. ASSUME NEW r \in Requests, ReadInvitation(r) \/ ReadForRegister(r) PROVE FALSE
      BY <3>4, CallTypes DEF ReadInvitation, ReadForRegister, NextStep, CallOK
    <3>5. ASSUME NEW r \in Requests, FindUser(r) \/ CreateUser(r) PROVE FALSE
      BY <3>5 DEF FindUser, CreateUser
    <3>6. ASSUME NEW r \in Requests, MarkExpired(r) \/ Accept(r) \/ Cancel(r) \/ Extend(r)
          PROVE  FALSE
      BY <3>6 DEF MarkExpired, Accept, Cancel, Extend, RowGone, Answered
    <3>7. ASSUME NEW w \in Workspaces, RemoveWorkspace(w) PROVE FALSE
      BY <3>7 DEF RemoveWorkspace
    <3>8. CASE Tick \/ UNCHANGED vars
      BY <3>8 DEF Tick, vars
    <3> QED BY <3>1, <3>2, <3>3, <3>4, <3>5, <3>6, <3>7, <3>8 DEF Next
  <2>4. PICK r \in Requests : FindPending(r) /\ r = q
    BY <2>3
  <2> QED BY <2>1, <2>2, <2>4 DEF FindPending, Blocks, Inviting, Reply, Typed, TypeOK
<1>2. ASSUME NEW r \in Requests, NEW row \in Row, Creates(r, row) PROVE FALSE
  <2>1. r # q /\ Inviting(q) /\ call'[q] = call[q] /\ q \notin blind
    BY <1>2 DEF Creates, Inviting, Typed, TypeOK
  <2>2. CASE i = r
    BY <1>2, <2>1, <2>2 DEF Creates, Creating, Inviting, Typed, TypeOK
  <2>3. CASE i # r
    BY <1>2, <2>1, <2>3 DEF Creates, StillFree, LivePending, Exists, Typed, TypeOK
  <2> QED BY <2>2, <2>3
<1>3. ASSUME NEW r \in Requests, NEW row \in Row, call[r].id \in Requests,
             Overwrites(r, call[r].id, row)
      PROVE  FALSE
  <2>1. r # q /\ Inviting(q) /\ call'[q] = call[q] /\ q \notin blind
    BY <1>3 DEF Overwrites, Inviting, Held, Typed, TypeOK
  <2>2. CASE i = call[r].id /\ pc[r] = "extend"
    BY <1>3, <2>1, <2>2 DEF Overwrites, Creating, Inviting, Typed, TypeOK
  <2>3. CASE i = call[r].id /\ pc[r] # "extend"
    BY <1>3, <2>3 DEF Overwrites, LivePending, Typed, TypeOK
  <2>4. CASE i # call[r].id
    BY <1>3, <2>1, <2>4 DEF Overwrites, StillFree, LivePending, Exists, Typed, TypeOK
  <2> QED BY <2>2, <2>3, <2>4
<1> QED BY <1>1, <1>2, <1>3, Effects

\* Rows change as the request that writes them read them, but for the upset.
LEMMA RowsConsistentStep ==
    ASSUME InvitationAssumption, Typed, RowsRead, ReadStands, RowsConsistent, [Next]_vars
    PROVE  RowsConsistent'
<1> USE DEF RowsConsistent, Typed, TypeOK
<1>1. CASE Quiet
  <2>1. \A i \in Requests : Exists(i)' => Exists(i) /\ inv[i].expiresAt \in Nat
    BY <1>1 DEF Quiet, Exists, Row
  <2> QED BY <1>1, <2>1 DEF Quiet, history
<1>2. ASSUME NEW r \in Requests, NEW row \in Row, Creates(r, row) PROVE RowsConsistent'
  BY <1>2 DEF Creates, Exists, Row
<1>3. ASSUME NEW r \in Requests, NEW row \in Row, call[r].id \in Requests,
             Overwrites(r, call[r].id, row)
      PROVE  RowsConsistent'
  <2> DEFINE i == call[r].id
  <2>1. ASSUME i \notin upset'
        PROVE  /\ row.status = "expired" => row.expiresAt < now
               /\ row.accepted <=> row.status = "accepted"
    BY <1>3, <2>1 DEF Overwrites, ReadStands, Held
  <2>2. ASSUME NEW j \in Requests, j # i, Exists(j)', j \notin upset'
        PROVE  Exists(j) /\ j \notin upset /\ inv'[j] = inv[j] /\ now' = now
    BY <1>3, <2>2 DEF Overwrites, Exists
  <2> QED BY <1>3, <2>1, <2>2 DEF Overwrites
<1> QED BY <1>1, <1>2, <1>3, Effects

LEMMA AcceptedStep ==
    ASSUME InvitationAssumption, Typed, RowsRead, Entitled, AcceptedByInvitee, [Next]_vars
    PROVE  AcceptedByInvitee'
<1> USE DEF AcceptedByInvitee, Typed, TypeOK
<1>1. CASE Quiet
  BY <1>1 DEF Quiet, Exists
<1>2. ASSUME NEW r \in Requests, NEW row \in Row, Creates(r, row) PROVE AcceptedByInvitee'
  BY <1>2 DEF Creates, Exists
<1>3. ASSUME NEW r \in Requests, NEW row \in Row, call[r].id \in Requests,
             Overwrites(r, call[r].id, row)
      PROVE  AcceptedByInvitee'
  BY <1>3 DEF Overwrites, Entitled, Exists
<1> QED BY <1>1, <1>2, <1>3, Effects

LEMMA IInvStep == ASSUME InvitationAssumption PROVE IInv /\ [Next]_vars => IInv'
BY TypedStep, RowsReadStep, ReadStandsStep, EntitledStep, StillFreeStep, RowsConsistentStep,
   AcceptedStep
   DEF IInv

-----------------------------------------------------------------------------
(***************************************************************************)
(* The theorems                                                            *)
(***************************************************************************)

LEMMA Invariance == ASSUME InvitationAssumption PROVE Spec => []IInv
BY IInvInit, IInvStep, InvitationAssumption, PTL DEF Spec

\* The variables keep their types.
THEOREM TypeCorrect == ASSUME InvitationAssumption PROVE Spec => []TypeOK
<1>1. IInv => TypeOK
  BY DEF IInv, Typed
<1> QED BY <1>1, Invariance, InvitationAssumption, PTL

\* A row that no outdated write upset says one thing
\* (workspace-invitation.service.ts).
THEOREM RowsStayConsistent == ASSUME InvitationAssumption PROVE Spec => []RowsConsistent
<1>1. IInv => RowsConsistent
  BY DEF IInv
<1> QED BY <1>1, Invariance, InvitationAssumption, PTL

\* Only the invited address, a registered user's, accepts an invitation
\* (workspace-invitation.service.ts, auth.service.ts).
THEOREM InviteeAccepts == ASSUME InvitationAssumption PROVE Spec => []AcceptedByInvitee
<1>1. IInv => AcceptedByInvitee
  BY DEF IInv
<1> QED BY <1>1, Invariance, InvitationAssumption, PTL

\* An invitation leaves a status other than pending only through a request
\* that read it while it was pending (workspace-invitation.service.ts).
THEOREM StaysSettled == ASSUME InvitationAssumption PROVE Spec => SettledUnlessStale
<1>1. ASSUME IInv, [Next]_vars, NEW i \in Requests,
             Exists(i) /\ inv[i].status # "pending", inv'[i].status # inv[i].status
      PROVE  \E r \in Holding(i) \cap stale : pc'[r] = "done"
  <2> USE <1>1 DEF IInv, Typed, TypeOK
  <2>1. ~Quiet
    BY DEF Quiet
  <2>2. ASSUME NEW r \in Requests, NEW row \in Row, Creates(r, row) PROVE FALSE
    BY <2>2 DEF Creates, Exists, RowsRead
  <2>3. ASSUME NEW r \in Requests, NEW row \in Row, call[r].id \in Requests,
               Overwrites(r, call[r].id, row)
        PROVE  r \in Holding(i) \cap stale /\ pc'[r] = "done"
    BY <2>3 DEF Overwrites, ReadStands, Held, Holding
  <2> QED BY <2>1, <2>2, <2>3, Effects
<1>2. IInv /\ [Next]_vars =>
          [\A i \in Requests :
              /\ Exists(i) /\ inv[i].status # "pending"
              /\ inv'[i].status # inv[i].status
              => \E r \in Holding(i) \cap stale : pc'[r] = "done"]_vars
  BY <1>1
<1> QED BY <1>2, Invariance, InvitationAssumption, PTL DEF Spec, SettledUnlessStale

\* A second live invitation for one address comes from a creation that was
\* blind to another or from a resend (workspace-invitation.service.ts).
THEOREM DoublesAreBlind == ASSUME InvitationAssumption PROVE Spec => DoubledOnlyBlindly
<1>1. ASSUME IInv, [Next]_vars, ~Doubled, Doubled'
      PROVE  \E r \in Requests :
                 /\ pc[r] = "extend" \/ (pc[r] = "create" /\ r \in blind)
                 /\ pc'[r] = "done"
  <2> USE <1>1 DEF IInv, Typed, TypeOK
  <2>1. PICK i, j \in Requests : /\ i # j /\ LivePending(i)' /\ LivePending(j)'
                                 /\ inv'[i].ws = inv'[j].ws /\ inv'[i].email = inv'[j].email
    BY DEF Doubled, SamePlace
  <2>2. ~Quiet
    <3> SUFFICES ASSUME Quiet PROVE FALSE
      OBVIOUS
    <3>1. LivePending(i) /\ LivePending(j)
      BY <2>1, LiveBefore
    <3> QED BY <2>1, <3>1 DEF Doubled, SamePlace, Quiet
  <2>3. ASSUME NEW r \in Requests, NEW row \in Row, Creates(r, row)
        PROVE  pc[r] = "create" /\ r \in blind /\ pc'[r] = "done"
    <3>1. pc[r] = "create" /\ pc'[r] = "done"
      BY <2>3 DEF Creates
    <3>2. \A k \in Requests : k # r => inv'[k] = inv[k] /\ (LivePending(k)' => LivePending(k))
      BY <2>3 DEF Creates, LivePending, Exists
    <3>3. i = r \/ j = r
      BY <2>1, <3>2 DEF Doubled, SamePlace
    <3>4. PICK k \in {i, j} : k # r /\ LivePending(k) /\ inv[k].ws = row.ws /\ inv[k].email = row.email
      BY <2>1, <2>3, <3>2, <3>3 DEF Creates
    <3> QED BY <2>3, <3>1, <3>4 DEF Creates, StillFree, Inviting
  <2>4. ASSUME NEW r \in Requests, NEW row \in Row, call[r].id \in Requests,
               Overwrites(r, call[r].id, row)
        PROVE  pc[r] = "extend" /\ pc'[r] = "done"
    <3>1. pc'[r] = "done"
      BY <2>4 DEF Overwrites
    <3>2. ASSUME pc[r] # "extend" PROVE FALSE
      <4>1. \A k \in Requests : LivePending(k)' => k # call[r].id /\ LivePending(k) /\ inv'[k] = inv[k]
        BY <2>4, <3>2 DEF Overwrites, LivePending, Exists
      <4> QED BY <2>1, <4>1 DEF Doubled, SamePlace
    <3> QED BY <3>1, <3>2
  <2> QED BY <2>2, <2>3, <2>4, Effects
<1>2. IInv /\ [Next]_vars =>
          [~Doubled /\ Doubled' =>
              \E r \in Requests :
                  /\ pc[r] = "extend" \/ (pc[r] = "create" /\ r \in blind)
                  /\ pc'[r] = "done"]_vars
  BY <1>1
<1> QED BY <1>2, Invariance, InvitationAssumption, PTL DEF Spec, DoubledOnlyBlindly


=============================================================================

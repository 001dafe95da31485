------------------------------- MODULE Sessions -------------------------------
(***************************************************************************)
(* Sessions and the bearer tokens that name them: the login handlers of    *)
(* auth.service.ts, the check JwtStrategy runs before every guarded        *)
(* request (validateJwtPayload and isValidSession), and the routes that    *)
(* end sessions: logout, revoke one, revoke all.                           *)
(*                                                                         *)
(* A request is one call; a login names the session it opens (its jti).    *)
(* The user row is not written by these operations, so reading it is no    *)
(* step of its own; no handler deletes a session row.                      *)
(***************************************************************************)
EXTENDS Naturals, FiniteSets

CONSTANTS
    Users,
    SecondFactor,  \* users with is2FAEnabled
    Requests,      \* one member per call
    Kinds,         \* the operations clients call
    Lifetime,      \* the 24 hours of a session and of a token, in ticks
    MaxTime,       \* bound on the clock
    None           \* null

Openings == {"login", "second", "passkey"}
Guarded == {"use", "logout", "revoke", "revokeAll"}

ASSUME SessionAssumption ==
    /\ SecondFactor \subseteq Users
    /\ Kinds \subseteq Openings \cup Guarded
    /\ Lifetime \in Nat
    /\ MaxTime \in Nat
    /\ None \notin Requests \cup Users

VARIABLES
    now,
    session,   \* sessions: the row each login created
    token,     \* the expiry signed into the token each login returned
    pc,
    call,      \* operation, the user or the session it is called with, argument
    due,       \* expiresAt of the session a login is about to create
    answer,
    ended,     \* history: sessions a revocation was acknowledged for
    owed,      \* history: sessions a revocation has to end
    late       \* history: requests made with a session in "ended"

vars == <<now, session, token, pc, call, due, answer, ended, owed, late>>
history == <<ended, owed, late>>

NoSession == [user |-> None, expires |-> 0, revoked |-> FALSE]
Session == [user: Users, expires: Nat, revoked: BOOLEAN]
NoCall == [kind |-> "none", by |-> None, arg |-> None]
Call == [kind: Openings \cup Guarded, by: Users \cup Requests, arg: Requests \cup {None}]
Labels == {"idle", "credentials", "create", "sign", "session", "touch", "handle",
           "find", "revoke", "done"}
Answers == {"none", "ok", "twoFactor", "unauthorized", "notFound"}

TypeOK ==
    /\ now \in Nat
    /\ session \in [Requests -> {NoSession} \cup Session]
    /\ token \in [Requests -> Nat]
    /\ pc \in [Requests -> Labels]
    /\ call \in [Requests -> {NoCall} \cup Call]
    /\ due \in [Requests -> Nat]
    /\ answer \in [Requests -> Answers]
    /\ ended \in SUBSET Requests
    /\ owed \in [Requests -> SUBSET Requests]
    /\ late \in SUBSET Requests

Init ==
    /\ now = 0
    /\ session = [r \in Requests |-> NoSession]
    /\ token = [r \in Requests |-> 0]
    /\ pc = [r \in Requests |-> "idle"]
    /\ call = [r \in Requests |-> NoCall]
    /\ due = [r \in Requests |-> 0]
    /\ answer = [r \in Requests |-> "none"]
    /\ ended = {}
    /\ owed = [r \in Requests |-> {}]
    /\ late = {}

-----------------------------------------------------------------------------

Kind(r) == call[r].kind
Bearer(r) == call[r].by
Caller(r) == session[Bearer(r)].user
Issued == {j \in Requests : Kind(j) \in Openings /\ answer[j] = "ok"}
SessionsOf(u) == {j \in Requests : session[j].user = u}

Goto(r, label) == pc' = [pc EXCEPT ![r] = label] /\ UNCHANGED answer
Reply(r, what) ==
    /\ pc' = [pc EXCEPT ![r] = "done"]
    /\ answer' = [answer EXCEPT ![r] = what]

\* The token must not have expired by the clock (passport-jwt's
\* ignoreExpiration: false).
Fresh(j) == now < token[j]

-----------------------------------------------------------------------------
(***************************************************************************)
(* login, verify2FAAndLogin and generateTokenForUser                       *)
(***************************************************************************)

StartLogin(r) ==
    /\ pc[r] = "idle"
    /\ \E k \in Kinds \cap Openings, u \in Users :
          call' = [call EXCEPT ![r] = [kind |-> k, by |-> u, arg |-> None]]
    /\ Goto(r, "credentials")
    /\ UNCHANGED <<now, session, token, due, history>>

\* Slip: the hours are taken off.
TermBehind == now - Lifetime

Term == now + Lifetime

\* Right or wrong: password, second factor or passkey, verified address.
CheckCredentials(r) ==
    /\ pc[r] = "credentials"
    /\ \/ Reply(r, "unauthorized") /\ UNCHANGED due
       \/ /\ Kind(r) = "login" /\ call[r].by \in SecondFactor
          /\ Reply(r, "twoFactor")
          /\ UNCHANGED due
       \/ /\ Kind(r) = "login" => call[r].by \notin SecondFactor
          /\ Kind(r) = "second" => call[r].by \in SecondFactor
          /\ due' = [due EXCEPT ![r] = Term]
          /\ Goto(r, "create")
    /\ UNCHANGED <<now, session, token, call, history>>

CreateSession(r) ==
    /\ pc[r] = "create"
    /\ session' = [session EXCEPT ![r] =
                     [user |-> call[r].by, expires |-> due[r], revoked |-> FALSE]]
    /\ Goto(r, "sign")
    /\ UNCHANGED <<now, token, call, due, history>>

\* expiresIn counts from the signature, expiresAt from before the insert.
SignToken(r) ==
    /\ pc[r] = "sign"
    /\ token' = [token EXCEPT ![r] = Term]
    /\ Reply(r, "ok")
    /\ UNCHANGED <<now, session, call, due, history>>

-----------------------------------------------------------------------------
(***************************************************************************)
(* The guard of every other request                                        *)
(***************************************************************************)

StartGuarded(r) ==
    /\ pc[r] = "idle"
    /\ \E k \in Kinds \cap Guarded, j \in Issued :
       \E a \in IF k = "revoke" THEN Issued ELSE {None} :
          /\ call' = [call EXCEPT ![r] = [kind |-> k, by |-> j, arg |-> a]]
          /\ owed' = [owed EXCEPT ![r] =
                        IF k = "revoke" THEN {a}
                        ELSE IF k = "revokeAll" THEN SessionsOf(session[j].user) \cap Issued
                        ELSE {}]
          /\ late' = IF j \in ended THEN late \cup {r} ELSE late
          /\ IF Fresh(j) THEN Goto(r, "session") ELSE Reply(r, "unauthorized")
    /\ UNCHANGED <<now, session, token, due, ended>>

\* Slip: revokedAt is not looked at.
StandsIfRevoked(j) == session[j].user # None /\ ~(session[j].expires < now)

\* isValidSession.
Stands(j) ==
    /\ session[j].user # None
    /\ ~session[j].revoked
    /\ ~(session[j].expires < now)

FindSession(r) ==
    /\ pc[r] = "session"
    /\ IF Stands(Bearer(r)) THEN Goto(r, "touch") ELSE Reply(r, "unauthorized")
    /\ UNCHANGED <<now, session, token, call, due, history>>

\* updateLastUsed; lastUsedAt is read by no handler.
UpdateLastUsed(r) ==
    /\ pc[r] = "touch"
    /\ Goto(r, "handle")
    /\ UNCHANGED <<now, session, token, call, due, history>>

-----------------------------------------------------------------------------
(***************************************************************************)
(* The routes, once the guard has let the request in                       *)
(***************************************************************************)

\* req.user.jti: the guard answers with the user row, which has no such column.
CurrentJti(r) == None

Use(r) ==
    /\ pc[r] = "handle" /\ Kind(r) = "use"
    /\ Reply(r, "ok")
    /\ UNCHANGED <<now, session, token, call, due, history>>

Logout(r) ==
    /\ pc[r] = "handle" /\ Kind(r) = "logout"
    /\ IF CurrentJti(r) = None THEN Reply(r, "ok") ELSE Goto(r, "find")
    /\ UNCHANGED <<now, session, token, call, due, history>>

\* Slip: any session that exists.
AnyonesSession(r, j) == session[j].user # None

OwnSession(r, j) == session[j].user # None /\ session[j].user = Caller(r)

FindOwn(r) ==
    /\ pc[r] = "handle" /\ Kind(r) = "revoke"
    /\ IF OwnSession(r, call[r].arg) THEN Goto(r, "find") ELSE Reply(r, "notFound")
    /\ UNCHANGED <<now, session, token, call, due, history>>

Target(r) == IF Kind(r) = "logout" THEN CurrentJti(r) ELSE call[r].arg

\* revokeSession of the session service looks the row up (again, for revoke).
FindTarget(r) ==
    /\ pc[r] = "find"
    /\ IF session[Target(r)].user # None THEN Goto(r, "revoke") ELSE Reply(r, "notFound")
    /\ UNCHANGED <<now, session, token, call, due, history>>

Revoked(js) == [j \in Requests |-> IF j \in js THEN [session[j] EXCEPT !.revoked = TRUE]
                                   ELSE session[j]]

RevokeOne(r) ==
    /\ pc[r] = "revoke"
    /\ session' = Revoked({Target(r)})
    /\ ended' = ended \cup owed[r]
    /\ Reply(r, "ok")
    /\ UNCHANGED <<now, token, call, due, owed, late>>

\* Slip: the sessions of everyone but the caller.
AllButCallers(r) == Requests \ SessionsOf(Caller(r))

\* revokeAllUserSessions(user, exceptJti), with the exceptJti the route has.
RevokedWithAll(r) == SessionsOf(Caller(r)) \ {CurrentJti(r)}

RevokeAll(r) ==
    /\ pc[r] = "handle" /\ Kind(r) = "revokeAll"
    /\ session' = Revoked(RevokedWithAll(r))
    /\ ended' = ended \cup owed[r]
    /\ Reply(r, "ok")
    /\ UNCHANGED <<now, token, call, due, owed, late>>

-----------------------------------------------------------------------------

Tick ==
    /\ now < MaxTime
    /\ now' = now + 1
    /\ UNCHANGED <<session, token, pc, call, due, answer, history>>

Next ==
    \/ \E r \in Requests :
          \/ StartLogin(r) \/ CheckCredentials(r) \/ CreateSession(r) \/ SignToken(r)
          \/ StartGuarded(r) \/ FindSession(r) \/ UpdateLastUsed(r)
          \/ Use(r) \/ Logout(r)
          \/ FindOwn(r) \/ FindTarget(r) \/ RevokeOne(r) \/ RevokeAll(r)
    \/ Tick

Spec == Init /\ [][Next]_vars

-----------------------------------------------------------------------------
(***************************************************************************)
(* Properties                                                              *)
(***************************************************************************)

\* Requests the guard let in.
Admitted == {r \in Requests :
                \/ pc[r] \in {"touch", "handle", "find", "revoke"}
                \/ Kind(r) \in Guarded /\ answer[r] \in {"ok", "notFound"}}

\* Once the client of revoke, or of revoke-all, has its answer, the sessions
\* it named, or all that had been handed to its user when it was sent, let no
\* later request in, whatever logins and revocations run beside it.
RevocationHolds == late \cap Admitted = {}

Ending(r) == Kind(r) \in {"logout", "revoke", "revokeAll"} /\ answer[r] # answer'[r]

\* Sessions are ended by requests of their own user only, and for good.
EndedByOwnUser ==
    [][\A j \in Requests :
          session[j].user # None =>
              /\ session'[j].revoked # session[j].revoked =>
                     \E r \in Requests : Ending(r) /\ Caller(r) = session[j].user
              /\ session[j].revoked => session'[j].revoked]_vars

\* auth.controller.ts:94, "Logout user (revoke current session)": the session
\* a logout was made with is revoked once it answers.
LogoutRevokes ==
    \A r \in Requests :
        Kind(r) = "logout" /\ answer[r] = "ok" => session[Bearer(r)].revoked

=============================================================================

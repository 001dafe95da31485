------------------------------ MODULE AuthProofs ------------------------------
(***************************************************************************)
(* Theorems about Sessions and Accounts, for any users, requests, lifetime *)
(* and clock, and about the composition that is model-checked.  What is    *)
(* proved of TwoFactor and Passkeys holds there too: a behaviour of MCAuth *)
(* is one of each component, whose steps are the component's own or leave  *)
(* its variables alone.                                                    *)
(***************************************************************************)
EXTENDS MCAuth, TLAPS

-----------------------------------------------------------------------------
(***************************************************************************)
(* Type correctness                                                        *)
(***************************************************************************)

\* Where a request is says which kind of call it carries, and only a request
\* that is done has an answer.
CallOK ==
    \A r \in Requests :
        /\ pc[r] = "idle" => call[r] = NoCall
        /\ pc[r] # "idle" => call[r] \in Call
        /\ pc[r] \in {"credentials", "create", "sign"} => Kind(r) \in Openings
        /\ pc[r] \in {"session", "touch", "handle"} => Kind(r) \in Guarded
        /\ pc[r] \in {"find", "revoke"} => Kind(r) = "revoke"
        /\ Kind(r) \in Openings => Bearer(r) \in Users
        /\ Kind(r) \in Guarded => Bearer(r) \in Requests
        /\ Kind(r) = "revoke" => call[r].arg \in Requests
        /\ pc[r] # "done" => answer[r] = "none"

\* A token that was handed out names a session that was created, and no
\* session is there before its login creates it; guarded
\* requests carry such tokens and revoke such sessions, their own user's.
Placed ==
    /\ \A j \in Requests :
          /\ pc[j] = "sign" \/ j \in Issued => session[j] \in Session
          /\ pc[j] \in {"idle", "credentials", "create"} => session[j] = NoSession
    /\ \A r \in Requests :
          /\ Kind(r) \in Guarded => Bearer(r) \in Issued
          /\ Kind(r) = "revoke" => call[r].arg \in Issued
          /\ pc[r] \in {"find", "revoke"} => session[call[r].arg].user = Caller(r)

WellTyped == TypeOK /\ CallOK

LEMMA TypedInit == Init => WellTyped
BY DEF Init, WellTyped, TypeOK, CallOK, Labels, Answers, NoCall, Kind, Openings, Guarded

LEMMA PlacedInit == Init => Placed
BY DEF Init, Placed, Issued, NoCall, Kind, Openings, Guarded

\* Marking sessions that exist keeps their type and their users.
LEMMA RevokedTyped ==
    ASSUME session \in [Requests -> {NoSession} \cup Session],
           NEW js, \A j \in js \cap Requests : session[j] \in Session
    PROVE  Revoked(js) \in [Requests -> {NoSession} \cup Session]
BY DEF Revoked, Session

LEMMA CallerKnown ==
    ASSUME WellTyped, Placed, NEW r \in Requests, Kind(r) \in Guarded
    PROVE  /\ Caller(r) \in Users
           /\ \A j \in SessionsOf(Caller(r)) : session[j] \in Session
<1>1. session[Bearer(r)] \in Session
  BY DEF Placed, WellTyped, TypeOK, Issued
<1>2. Caller(r) \in Users
  BY <1>1 DEF Caller, Session
<1>3. ASSUME NEW j \in SessionsOf(Caller(r)) PROVE session[j] \in Session
  BY <1>2, <1>3, SessionAssumption DEF SessionsOf, WellTyped, TypeOK, NoSession
<1> QED BY <1>2, <1>3

LEMMA TypedStep == WellTyped /\ Placed /\ [Next]_vars => WellTyped'
<1> SUFFICES ASSUME WellTyped, Placed, [Next]_vars PROVE WellTyped'
  OBVIOUS
<1> USE SessionAssumption DEF WellTyped, TypeOK, CallOK, Labels, Answers, Goto, Reply,
        Kind, Bearer, history, Openings, Guarded, Call, NoCall
<1>1. ASSUME NEW r \in Requests, StartLogin(r) PROVE WellTyped'
  BY <1>1 DEF StartLogin
<1>2. ASSUME NEW r \in Requests, CheckCredentials(r) PROVE WellTyped'
  BY <1>2 DEF CheckCredentials, Term
<1>3. ASSUME NEW r \in Requests, CreateSession(r) PROVE WellTyped'
  BY <1>3 DEF CreateSession, Session
<1>4. ASSUME NEW r \in Requests, SignToken(r) PROVE WellTyped'
  BY <1>4 DEF SignToken, Term
<1>5. ASSUME NEW r \in Requests, StartGuarded(r) PROVE WellTyped'
  BY <1>5 DEF StartGuarded, Issued, SessionsOf
<1>6. ASSUME NEW r \in Requests, FindSession(r) PROVE WellTyped'
  BY <1>6 DEF FindSession
<1>7. ASSUME NEW r \in Requests, UpdateLastUsed(r) PROVE WellTyped'
  BY <1>7 DEF UpdateLastUsed
<1>8. ASSUME NEW r \in Requests, Use(r) PROVE WellTyped'
  BY <1>8 DEF Use
<1>9. ASSUME NEW r \in Requests, Logout(r) PROVE WellTyped'
  BY <1>9 DEF Logout, CurrentJti
<1>10. ASSUME NEW r \in Requests, FindOwn(r) PROVE WellTyped'
  BY <1>10 DEF FindOwn
<1>11. ASSUME NEW r \in Requests, FindTarget(r) PROVE WellTyped'
  BY <1>11 DEF FindTarget
<1>12. ASSUME NEW r \in Requests, RevokeOne(r) PROVE WellTyped'
  <2>1. call[r].arg \in Requests /\ session[call[r].arg] \in Session
    BY <1>12 DEF RevokeOne, Placed, Issued
  <2>2. session' \in [Requests -> {NoSession} \cup Session]
    BY <1>12, <2>1, RevokedTyped DEF RevokeOne, Target
  <2> QED BY <1>12, <2>2 DEF RevokeOne
<1>13. ASSUME NEW r \in Requests, RevokeAll(r) PROVE WellTyped'
  <2>1. \A j \in RevokedWithAll(r) : session[j] \in Session
    BY <1>13, CallerKnown DEF RevokeAll, RevokedWithAll
  <2>2. session' \in [Requests -> {NoSession} \cup Session]
    BY <1>13, <2>1, RevokedTyped DEF RevokeAll
  <2> QED BY <1>13, <2>2 DEF RevokeAll
<1>14. CASE Tick
  BY <1>14 DEF Tick
<1>15. CASE UNCHANGED vars
  BY <1>15 DEF vars
<1> QED
  BY <1>1, <1>2, <1>3, <1>4, <1>5, <1>6, <1>7, <1>8, <1>9, <1>10, <1>11, <1>12,
     <1>13, <1>14, <1>15 DEF Next

-----------------------------------------------------------------------------
(***************************************************************************)
(* What is handed out stays                                                *)
(***************************************************************************)

\* A session that was handed out stays, keeps its user, and once revoked
\* remains so; calls are made once.
Standing ==
    /\ \A r \in Requests : pc[r] # "idle" => call'[r] = call[r]
    /\ \A r \in Requests : answer[r] # "none" => answer'[r] = answer[r]
    /\ \A j \in Requests :
          session[j] \in Session =>
              /\ pc[j] # "create" => session'[j] \in Session
              /\ pc[j] # "create" => session'[j].user = session[j].user
              /\ pc[j] # "create" /\ session[j].revoked => session'[j].revoked

\* Only the two last steps of a revocation mark a session.
LEMMA StandingStep == WellTyped /\ Placed /\ [Next]_vars => Standing
<1> SUFFICES ASSUME WellTyped, Placed, [Next]_vars PROVE Standing
  OBVIOUS
<1> USE DEF WellTyped, TypeOK, CallOK, Goto, Reply, Standing
<1>1. ASSUME NEW r \in Requests, StartLogin(r) PROVE Standing
  BY <1>1 DEF StartLogin
<1>2. ASSUME NEW r \in Requests, CheckCredentials(r) PROVE Standing
  BY <1>2 DEF CheckCredentials
<1>3. ASSUME NEW r \in Requests, CreateSession(r) PROVE Standing
  BY <1>3 DEF CreateSession
<1>4. ASSUME NEW r \in Requests, SignToken(r) PROVE Standing
  BY <1>4 DEF SignToken
<1>5. ASSUME NEW r \in Requests, StartGuarded(r) PROVE Standing
  BY <1>5 DEF StartGuarded
<1>6. ASSUME NEW r \in Requests, FindSession(r) \/ UpdateLastUsed(r) PROVE Standing
  BY <1>6 DEF FindSession, UpdateLastUsed
<1>7. ASSUME NEW r \in Requests, Use(r) \/ Logout(r) PROVE Standing
  BY <1>7 DEF Use, Logout
<1>8. ASSUME NEW r \in Requests, FindOwn(r) \/ FindTarget(r) PROVE Standing
  BY <1>8 DEF FindOwn, FindTarget
<1>9. ASSUME NEW r \in Requests, RevokeOne(r) PROVE Standing
  BY <1>9 DEF RevokeOne, Revoked, Session
<1>10. ASSUME NEW r \in Requests, RevokeAll(r) PROVE Standing
  <2>1. Caller(r) \in Users
    BY <1>10, CallerKnown DEF RevokeAll, Guarded
  <2> QED BY <1>10, <2>1 DEF RevokeAll, Revoked, Session
<1>11. CASE Tick
  BY <1>11 DEF Tick
<1>12. CASE UNCHANGED vars
  BY <1>12 DEF vars
<1> QED
  BY <1>1, <1>2, <1>3, <1>4, <1>5, <1>6, <1>7, <1>8, <1>9, <1>10, <1>11, <1>12 DEF Next

\* The steps of one request.
Step(r) ==
    \/ StartLogin(r) \/ CheckCredentials(r) \/ CreateSession(r) \/ SignToken(r)
    \/ StartGuarded(r) \/ FindSession(r) \/ UpdateLastUsed(r)
    \/ Use(r) \/ Logout(r)
    \/ FindOwn(r) \/ FindTarget(r) \/ RevokeOne(r) \/ RevokeAll(r)

\* A request moves by its own steps only.
Rests(r) ==
    /\ pc'[r] = pc[r] /\ answer'[r] = answer[r]
    /\ call'[r] = call[r] /\ owed'[r] = owed[r]
    /\ r \in late' <=> r \in late

LEMMA OneMoves ==
    ASSUME WellTyped, [Next]_vars, NEW r \in Requests
    PROVE  Step(r) \/ Rests(r)
<1> SUFFICES ASSUME NEW s \in Requests, s # r, Step(s) PROVE Rests(r)
  <2>1. CASE UNCHANGED vars
    BY <2>1 DEF Rests, vars
  <2>2. CASE Tick
    BY <2>2 DEF Rests, Tick, history
  <2> QED BY <2>1, <2>2 DEF Next, Step
<1> USE DEF Rests, WellTyped, TypeOK, Goto, Reply, history
<1>1. CASE StartLogin(s) \/ CheckCredentials(s) \/ CreateSession(s) \/ SignToken(s)
  BY <1>1 DEF StartLogin, CheckCredentials, CreateSession, SignToken
<1>2. CASE StartGuarded(s)
  BY <1>2 DEF StartGuarded
<1>3. CASE FindSession(s) \/ UpdateLastUsed(s) \/ Use(s) \/ Logout(s)
  BY <1>3 DEF FindSession, UpdateLastUsed, Use, Logout
<1>4. CASE FindOwn(s) \/ FindTarget(s) \/ RevokeOne(s) \/ RevokeAll(s)
  BY <1>4 DEF FindOwn, FindTarget, RevokeOne, RevokeAll
<1> QED BY <1>1, <1>2, <1>3, <1>4 DEF Step

LEMMA NoSessionIsNone == NoSession \notin Session
BY SessionAssumption DEF NoSession, Session

\* A session is marked only if there is one.
LEMMA AbsentStays ==
    ASSUME WellTyped, Placed, [Next]_vars, NEW j \in Requests,
           session[j] = NoSession, ~CreateSession(j)
    PROVE  session'[j] = NoSession
<1> USE DEF WellTyped, TypeOK, CallOK
<1>1. CASE UNCHANGED session
  BY <1>1
<1>2. ASSUME NEW r \in Requests, CreateSession(r) PROVE session'[j] = NoSession
  BY <1>2 DEF CreateSession
<1>3. ASSUME NEW r \in Requests, RevokeOne(r) PROVE session'[j] = NoSession
  <2>1. call[r].arg \in Issued /\ Kind(r) = "revoke"
    BY <1>3 DEF RevokeOne, Placed
  <2>2. call[r].arg # j
    BY <2>1, NoSessionIsNone DEF Placed, Issued
  <2> QED BY <1>3, <2>1, <2>2 DEF RevokeOne, Target, Revoked
<1>4. ASSUME NEW r \in Requests, RevokeAll(r) PROVE session'[j] = NoSession
  <2>1. j \notin SessionsOf(Caller(r))
    BY <1>4, CallerKnown, NoSessionIsNone DEF RevokeAll, Guarded
  <2> QED BY <1>4, <2>1 DEF RevokeAll, RevokedWithAll, Revoked
<1> QED
  BY <1>1, <1>2, <1>3, <1>4 DEF Next, vars, Tick, StartLogin, CheckCredentials, SignToken,
     StartGuarded, FindSession, UpdateLastUsed, Use, Logout, FindOwn, FindTarget

LEMMA IssuedStays == WellTyped /\ Standing => Issued \subseteq Issued'
BY DEF Issued, Standing, Kind, WellTyped, CallOK

LEMMA PlacedStep == WellTyped /\ Placed /\ [Next]_vars => Placed'
<1> SUFFICES ASSUME WellTyped, Placed, [Next]_vars PROVE Placed'
  OBVIOUS
<1>1. Standing /\ WellTyped' /\ Issued \subseteq Issued'
  BY StandingStep, TypedStep, IssuedStays
<1> USE DEF WellTyped, TypeOK, CallOK, Goto, Reply, Kind, Bearer, Openings, Guarded
<1>2. ASSUME NEW j \in Requests, pc'[j] = "sign" \/ j \in Issued' PROVE session'[j] \in Session
  <2>1. CASE pc[j] = "sign" \/ j \in Issued
    BY <1>1, <2>1 DEF Standing, Issued, Placed
  <2>2. CASE ~(pc[j] = "sign" \/ j \in Issued)
    <3>1. CreateSession(j)
      <4>1. Step(j) \/ Rests(j)
        BY OneMoves
      <4>2. ~Rests(j)
        BY <1>2, <2>2 DEF Rests, Issued
      <4> QED
        BY <4>1, <4>2, <1>2, <2>2, SessionAssumption
        DEF Step, StartLogin, CheckCredentials, CreateSession, SignToken, StartGuarded,
            FindSession, UpdateLastUsed, Use, Logout, CurrentJti, FindOwn, FindTarget,
            RevokeOne, RevokeAll, Issued
    <3> QED BY <3>1, <1>1 DEF CreateSession, Session, Call
  <2> QED BY <2>1, <2>2
<1>5. ASSUME NEW j \in Requests, pc'[j] \in {"idle", "credentials", "create"}
      PROVE  session'[j] = NoSession
  <2>1. Step(j) \/ Rests(j)
    BY OneMoves
  <2>2. pc[j] \in {"idle", "credentials", "create"} /\ ~CreateSession(j)
    BY <1>5, <2>1, SessionAssumption
    DEF Step, Rests, StartLogin, CheckCredentials, CreateSession, SignToken, StartGuarded,
        FindSession, UpdateLastUsed, Use, Logout, FindOwn, FindTarget, RevokeOne, RevokeAll
  <2>3. session[j] = NoSession
    BY <2>2 DEF Placed
  <2> QED BY <2>2, <2>3, AbsentStays
<1>3. ASSUME NEW r \in Requests
      PROVE  /\ Kind(r)' \in Guarded => Bearer(r)' \in Issued'
             /\ Kind(r)' = "revoke" => call'[r].arg \in Issued'
  <2>1. CASE pc[r] # "idle"
    BY <1>1, <2>1 DEF Standing, Placed
  <2>2. CASE pc[r] = "idle" /\ call'[r] # call[r] /\ Kind(r)' \in Guarded
    <3>1. StartGuarded(r)
      <4>1. Step(r) \/ Rests(r)
        BY OneMoves
      <4>2. ~Rests(r)
        BY <2>2 DEF Rests, Issued
      <4> QED
        BY <4>1, <4>2, <2>2, SessionAssumption
        DEF Step, StartLogin, CheckCredentials, CreateSession, SignToken, StartGuarded,
            FindSession, UpdateLastUsed, Use, Logout, CurrentJti, FindOwn, FindTarget,
            RevokeOne, RevokeAll, Issued
    <3> QED BY <3>1, <1>1 DEF StartGuarded, Issued
  <2>3. CASE pc[r] = "idle" /\ call'[r] = call[r]
    BY <2>3, <1>1 DEF Placed
  <2> QED BY <2>1, <2>2, <2>3
<1>4. ASSUME NEW r \in Requests, pc'[r] \in {"find", "revoke"}
      PROVE  session'[call'[r].arg].user = Caller(r)'
  <2>1. CASE pc[r] \in {"find", "revoke"}
    BY <1>1, <2>1 DEF Placed, Standing, Caller, Issued
  <2>2. CASE pc[r] \notin {"find", "revoke"}
    <3>1. FindOwn(r)
      <4>1. Step(r) \/ Rests(r)
        BY OneMoves
      <4>2. ~Rests(r)
        BY <1>4, <2>2 DEF Rests, Issued
      <4> QED
        BY <4>1, <4>2, <1>4, <2>2, SessionAssumption
        DEF Step, StartLogin, CheckCredentials, CreateSession, SignToken, StartGuarded,
            FindSession, UpdateLastUsed, Use, Logout, CurrentJti, FindOwn, FindTarget,
            RevokeOne, RevokeAll, Issued
    <3> QED BY <1>4, <3>1 DEF FindOwn, OwnSession, Caller
  <2> QED BY <2>1, <2>2
<1> QED BY <1>2, <1>3, <1>4, <1>5 DEF Placed

\* Every variable keeps its type.
THEOREM SessionsTyped == Spec => []TypeOK
<1>1. Spec => [](WellTyped /\ Placed)
  BY TypedInit, PlacedInit, TypedStep, PlacedStep, PTL DEF Spec
<1> QED BY <1>1, PTL DEF WellTyped

-----------------------------------------------------------------------------
(***************************************************************************)
(* Revocation                                                              *)
(***************************************************************************)

\* RevocationHolds is not inductive: a late request is refused because the
\* session it carries is marked, which is so because the acknowledgement came
\* after the mark, which rests on a revocation owing only sessions it marks.
Promised ==
    /\ \A j \in ended : j \in Issued /\ session[j].revoked
    /\ \A r \in Requests :
          /\ Kind(r) = "revoke" => owed[r] = {call[r].arg}
          /\ Kind(r) = "revokeAll" => owed[r] \subseteq SessionsOf(Caller(r)) \cap Issued
    /\ \A r \in late : Kind(r) \in Guarded /\ Bearer(r) \in ended
    /\ RevocationHolds

LEMMA PromisedInit == Init => Promised
BY DEF Init, Promised, RevocationHolds, NoCall, Kind

LEMMA AcknowledgedAreMarked ==
    ASSUME WellTyped, Placed, Promised, [Next]_vars, NEW j \in ended'
    PROVE  j \in Issued' /\ session'[j].revoked
<1>1. Standing /\ Issued \subseteq Issued'
  BY StandingStep, IssuedStays
<1> USE DEF WellTyped, TypeOK, CallOK
<1>2. CASE j \in ended
  <2>1. j \in Requests /\ j \in Issued /\ session[j].revoked /\ session[j] \in Session
    BY <1>2 DEF Promised, Placed, Issued
  <2> QED BY <2>1, <1>1 DEF Standing, Issued
<1>3. CASE j \notin ended
  <2>1. PICK r \in Requests : RevokeOne(r) \/ RevokeAll(r)
    BY <1>3 DEF Next, vars, history, Tick, StartLogin, CheckCredentials, CreateSession,
       SignToken, StartGuarded, FindSession, UpdateLastUsed, Use, Logout, FindOwn, FindTarget
  <2>2. j \in owed[r]
    BY <1>3, <2>1 DEF RevokeOne, RevokeAll
  <2>3. CASE RevokeOne(r)
    <3>1. Kind(r) = "revoke" /\ j = call[r].arg /\ j \in Issued
      BY <2>2, <2>3 DEF RevokeOne, Promised, Placed
    <3>2. session'[j].revoked
      BY <2>3, <3>1 DEF RevokeOne, Target, Revoked, Issued, Placed, Session
    <3> QED BY <1>1, <3>1, <3>2
  <2>4. CASE RevokeAll(r)
    <3>1. j \in SessionsOf(Caller(r)) \cap Issued
      BY <2>2, <2>4 DEF RevokeAll, Promised
    <3>2. j # None
      BY <3>1, SessionAssumption DEF Issued
    <3>3. session'[j].revoked
      BY <2>4, <3>1, <3>2
      DEF RevokeAll, RevokedWithAll, CurrentJti, Revoked, Issued, Placed, Session
    <3> QED BY <1>1, <3>1, <3>3
  <2> QED BY <2>1, <2>3, <2>4
<1> QED BY <1>2, <1>3

LEMMA EndedGrows == [Next]_vars => ended \subseteq ended'
BY DEF Next, vars, history, Tick, StartLogin, CheckCredentials, CreateSession, SignToken,
   StartGuarded, FindSession, UpdateLastUsed, Use, Logout, FindOwn, FindTarget,
   RevokeOne, RevokeAll

LEMMA PromisedStep == WellTyped /\ Placed /\ Promised /\ [Next]_vars => Promised'
<1> SUFFICES ASSUME WellTyped, Placed, Promised, [Next]_vars PROVE Promised'
  OBVIOUS
<1>1. Standing /\ WellTyped' /\ Issued \subseteq Issued' /\ ended \subseteq ended'
  BY StandingStep, TypedStep, IssuedStays, EndedGrows
<1>2. \A j \in ended' : j \in Issued' /\ session'[j].revoked
  BY AcknowledgedAreMarked
<1> USE DEF WellTyped, TypeOK, CallOK, Kind, Bearer, Openings, Guarded
<1>3. ASSUME NEW r \in Requests
      PROVE  /\ Kind(r)' = "revoke" => owed'[r] = {call'[r].arg}
             /\ Kind(r)' = "revokeAll" => owed'[r] \subseteq (SessionsOf(Caller(r)) \cap Issued)'
  <2>1. Step(r) \/ Rests(r)
    BY OneMoves
  <2>2. CASE StartGuarded(r)
    <3>1. PICK j \in Issued : Bearer(r)' = j
      BY <2>2 DEF StartGuarded
    <3>2. session' = session
      BY <2>2 DEF StartGuarded
    <3> QED BY <2>2, <3>1, <3>2, <1>1 DEF StartGuarded, Caller, SessionsOf
  <2>3. CASE StartLogin(r)
    BY <2>3 DEF StartLogin
  <2>4. CASE ~StartGuarded(r) /\ ~StartLogin(r)
    <3>1. call'[r] = call[r] /\ owed'[r] = owed[r]
      BY <2>1, <2>4 DEF Step, Rests, history, CheckCredentials, CreateSession, SignToken,
         FindSession, UpdateLastUsed, Use, Logout, FindOwn, FindTarget, RevokeOne, RevokeAll
    <3>2. \A j \in Issued : j \in Requests /\ session[j] \in Session
                            /\ session'[j].user = session[j].user
      BY <1>1 DEF Standing, Issued, Placed
    <3>3. Kind(r) \in Guarded => Bearer(r) \in Issued
      BY DEF Placed
    <3> QED BY <3>1, <3>2, <3>3, <1>1 DEF Promised, SessionsOf, Caller
  <2> QED BY <2>2, <2>3, <2>4
<1>4. ASSUME NEW r \in late'
      PROVE  Kind(r)' \in Guarded /\ Bearer(r)' \in ended' /\ r \notin Admitted'
  <2>1. r \in Requests
    BY <1>1
  <2>2. Step(r) \/ Rests(r)
    BY <2>1, OneMoves
  <2>3. CASE StartGuarded(r)
    <3>1. r \notin late
      BY <2>1, <2>3 DEF StartGuarded, Promised, NoCall
    <3>2. Kind(r)' \in Guarded /\ Bearer(r)' \in ended
      BY <2>1, <2>3, <3>1, <1>4 DEF StartGuarded
    <3>3. pc'[r] = "session" \/ (pc'[r] = "done" /\ answer'[r] = "unauthorized")
      BY <2>1, <2>3 DEF StartGuarded, Goto, Reply
    <3>4. pc'[r] = "session" => answer'[r] = "none"
      BY <1>1, <2>1
    <3> QED BY <3>2, <3>3, <3>4, <1>1 DEF Admitted
  <2>4. CASE ~StartGuarded(r)
    <3>1. r \in late
      BY <2>2, <2>4 DEF Step, Rests, history, StartLogin, CheckCredentials, CreateSession,
         SignToken, FindSession, UpdateLastUsed, Use, Logout, FindOwn, FindTarget,
         RevokeOne, RevokeAll
    <3>2. /\ Kind(r) \in Guarded /\ Bearer(r) \in ended /\ r \notin Admitted
          /\ session[Bearer(r)].revoked
      BY <3>1 DEF Promised, RevocationHolds
    <3>3. Rests(r) \/ FindSession(r)
      BY <2>1, <2>2, <2>4, <3>2 DEF Step, Admitted, StartLogin, CheckCredentials,
         CreateSession, SignToken, UpdateLastUsed, Use, Logout, FindOwn, FindTarget,
         RevokeOne, RevokeAll, NoCall
    <3>4. CASE Rests(r)
      BY <2>1, <3>2, <3>4, <1>1 DEF Rests, Admitted
    <3>5. CASE FindSession(r)
      BY <2>1, <3>2, <3>5, <1>1 DEF FindSession, Stands, Admitted, Goto, Reply
    <3> QED BY <3>3, <3>4, <3>5
  <2> QED BY <2>3, <2>4
<1> QED BY <1>2, <1>3, <1>4 DEF Promised, RevocationHolds

\* An acknowledged revocation lets no later request in.
THEOREM RevocationsHold == Spec => []RevocationHolds
<1>1. Spec => [](WellTyped /\ Placed /\ Promised)
  BY TypedInit, PlacedInit, PromisedInit, TypedStep, PlacedStep, PromisedStep, PTL DEF Spec
<1> QED BY <1>1, PTL DEF Promised

LEMMA OwnStep ==
    ASSUME WellTyped, Placed, [Next]_vars, NEW j \in Requests, session[j].user # None
    PROVE  /\ session'[j].revoked # session[j].revoked =>
                  \E r \in Requests : Ending(r) /\ Caller(r) = session[j].user
           /\ session[j].revoked => session'[j].revoked
<1> USE DEF WellTyped, TypeOK, CallOK
<1>1. session[j] \in Session /\ pc[j] # "create"
  BY DEF NoSession, Placed
<1>2. session[j].revoked => session'[j].revoked
  BY <1>1, StandingStep DEF Standing
<1>3. ASSUME session'[j].revoked # session[j].revoked
      PROVE  \E r \in Requests : Ending(r) /\ Caller(r) = session[j].user
  <2>1. PICK r \in Requests : RevokeOne(r) \/ RevokeAll(r)
    BY <1>1, <1>3 DEF Next, vars, Tick, StartLogin, CheckCredentials, CreateSession, SignToken,
       StartGuarded, FindSession, UpdateLastUsed, Use, Logout, FindOwn, FindTarget
  <2>2. CASE RevokeOne(r)
    <3>1. Kind(r) = "revoke" /\ session[call[r].arg].user = Caller(r)
      BY <2>2 DEF RevokeOne, Placed
    <3>2. j = call[r].arg
      BY <1>3, <2>2, <3>1 DEF RevokeOne, Target, Revoked
    <3>3. Ending(r)
      BY <2>2, <3>1 DEF RevokeOne, Ending, Reply
    <3> QED BY <3>1, <3>2, <3>3
  <2>3. CASE RevokeAll(r)
    <3>1. Caller(r) = session[j].user
      BY <1>3, <2>3 DEF RevokeAll, Revoked, RevokedWithAll, SessionsOf
    <3>2. Ending(r)
      BY <2>3 DEF RevokeAll, Ending, Reply
    <3> QED BY <3>1, <3>2
  <2> QED BY <2>1, <2>2, <2>3
<1> QED BY <1>2, <1>3

\* Sessions are ended by requests of their own user only, and for good.
THEOREM OwnUserEnds == Spec => EndedByOwnUser
<1>1. Spec => [](WellTyped /\ Placed)
  BY TypedInit, PlacedInit, TypedStep, PlacedStep, PTL DEF Spec
<1>2. WellTyped /\ Placed /\ [Next]_vars =>
        [\A j \in Requests :
          session[j].user # None =>
              /\ session'[j].revoked # session[j].revoked =>
                     \E r \in Requests : Ending(r) /\ Caller(r) = session[j].user
              /\ session[j].revoked => session'[j].revoked]_vars
  BY OwnStep
<1> QED BY <1>1, <1>2, PTL DEF Spec, EndedByOwnUser

-----------------------------------------------------------------------------
(***************************************************************************)
(* Accounts, for any users, requests, term of a reset token and bound on   *)
(* the clock                                                               *)
(***************************************************************************)

\* Where a request is says which kind of call it carries and whether it has
\* read a user and answered.
AccountCallOK ==
    \A r \in Requests :
        /\ aPc[r] = "idle" => aCall[r] = A!NoCall
        /\ aPc[r] # "idle" => aCall[r] \in A!Call
        /\ aCall[r].kind \in {"resend", "forgot"} => A!Arg(r) \in Users
        /\ aPc[r] # "done" => aAnswer[r] = "none"
        /\ aPc[r] \in A!Labels \ {"idle", "read", "done"} => user[r] \in Users
        /\ aPc[r] = "storeReset" => aCall[r].kind = "forgot"
        /\ aPc[r] = "storePassword" => aCall[r].kind = "reset"

AccountTyped == A!TypeOK /\ AccountCallOK

LEMMA AccountTypedInit == A!AccountAssumption /\ A!Init => AccountTyped
BY DEF A!AccountAssumption, A!Init, AccountTyped, A!TypeOK, AccountCallOK, A!Account, A!Token, A!NoCall, A!Labels, A!Answers

LEMMA ConfirmedTyped ==
    ASSUME NEW a \in A!Account
    PROVE  [a EXCEPT !.verified = TRUE, !.verificationToken = None] \in A!Account
BY DEF A!Account

LEMMA AccountTypedStep == A!AccountAssumption /\ AccountTyped /\ [A!Next]_(A!vars) => AccountTyped'
<1> SUFFICES ASSUME A!AccountAssumption, AccountTyped, [A!Next]_(A!vars) PROVE AccountTyped'
  OBVIOUS
<1> USE A!AccountAssumption
    DEF A!AccountAssumption, AccountTyped, A!TypeOK, AccountCallOK, A!Labels, A!Answers, A!Token, A!Goto, A!Reply, A!Refuse,
        A!Continue, A!mail, A!history
<1>1. ASSUME NEW r \in Requests, A!Start(r) PROVE AccountTyped'
  <2>1. PICK k \in A!Operations, a \in A!Token :
          /\ k \in {"resend", "forgot"} => a \in Users
          /\ aCall' = [aCall EXCEPT ![r] = [kind |-> k, arg |-> a]]
    BY <1>1 DEF A!Start
  <2>2. [kind |-> k, arg |-> a] \in A!Call
    BY <2>1 DEF A!Call
  <2> QED BY <1>1, <2>1, <2>2 DEF A!Start, A!Arg
<1>2. ASSUME NEW r \in Requests, A!ReadForResend(r) PROVE AccountTyped'
  BY <1>2 DEF A!ReadForResend, A!Arg
<1>3. ASSUME NEW r \in Requests, A!StoreVerification(r) PROVE AccountTyped'
  BY <1>3 DEF A!StoreVerification, A!Account, A!Arg
<1>4. ASSUME NEW r \in Requests, A!ReadForForgot(r) PROVE AccountTyped'
  BY <1>4 DEF A!ReadForForgot, A!ResetTerm, A!Arg
<1>5. ASSUME NEW r \in Requests, A!StoreReset(r) PROVE AccountTyped'
  BY <1>5 DEF A!StoreReset, A!Account, A!Arg
<1>6. ASSUME NEW r \in Requests, A!MailToken(r) PROVE AccountTyped'
  BY <1>6 DEF A!MailToken, A!TokenOf, A!Arg
<1>7. ASSUME NEW r \in Requests, A!ReadForVerify(r) PROVE AccountTyped'
  BY <1>7 DEF A!ReadForVerify, A!FindByVerification, A!Arg
<1>8. ASSUME NEW r \in Requests, A!SetVerified(r) PROVE AccountTyped'
  <2>1. user[r] \in Users
    BY <1>8 DEF A!SetVerified
  <2>2. [acct[user[r]] EXCEPT !.verified = TRUE, !.verificationToken = None] \in A!Account
    BY <2>1, ConfirmedTyped
  <2>3. acct' \in [Users -> A!Account]
    BY <1>8, <2>1, <2>2 DEF A!SetVerified
  <2> QED BY <1>8, <2>3 DEF A!SetVerified, A!Arg
<1>9. ASSUME NEW r \in Requests, A!ReadForReset(r) PROVE AccountTyped'
  BY <1>9 DEF A!ReadForReset, A!FindByReset, A!Arg
<1>10. ASSUME NEW r \in Requests, A!StorePassword(r) PROVE AccountTyped'
  BY <1>10 DEF A!StorePassword, A!Account, A!Cleared, A!Redeeming, A!Call, A!Arg
<1>11. CASE A!Tick
  BY <1>11 DEF A!Tick, A!Arg
<1>12. CASE UNCHANGED A!vars
  BY <1>12 DEF A!vars, A!Arg
<1> QED
  BY <1>1, <1>2, <1>3, <1>4, <1>5, <1>6, <1>7, <1>8, <1>9, <1>10, <1>11, <1>12 DEF A!Next

\* The forgotPassword that made token t has stored it.
Stored(t) == aCall[t].kind = "forgot" /\ aPc[t] \in {"mailToken", "done"}

\* A row holds a reset token of its own user, with the term that was computed
\* for it.
Holds(u, t) ==
    t \in Requests /\ Stored(t) /\ user[t] = u /\ acct[u].resetExpires = aDue[t]
HeldByItsUser ==
    \A u \in Users : acct[u].resetToken # None => Holds(u, acct[u].resetToken)

\* A request that changes a password presents a token of the user it has read;
\* one that presents a spent token had read it before.
RedeemedByItsUser ==
    \A r \in Requests : aPc[r] = "storePassword" =>
        /\ A!Arg(r) \in Requests /\ Stored(A!Arg(r)) /\ user[A!Arg(r)] = user[r]
        /\ A!Arg(r) \in spent => r \in twins

\* No row holds a spent token, or will.
SpentIsGone ==
    \A t \in spent :
        /\ t \in Requests /\ Stored(t)
        /\ \A u \in Users : acct[u].resetToken # t

AccountInv == AccountTyped /\ HeldByItsUser /\ RedeemedByItsUser /\ SpentIsGone /\ A!TokensReachClients

LEMMA AccountInvInit == A!AccountAssumption /\ A!Init => AccountInv
BY AccountTypedInit DEF A!Init, AccountInv, HeldByItsUser, RedeemedByItsUser, SpentIsGone,
       A!TokensReachClients, A!Mailing

\* A token that was stored stays the token of the same user and term; only
\* storing a token, confirming an address and changing a password touch a row.
LEMMA AccountLasting ==
    ASSUME A!AccountAssumption, AccountTyped, [A!Next]_(A!vars)
    PROVE  /\ \A r \in Requests :
                 /\ aPc[r] # "idle" => aPc'[r] # "idle" /\ aCall'[r] = aCall[r]
                 /\ aPc[r] # "read" => user'[r] = user[r] /\ aDue'[r] = aDue[r]
                 /\ Stored(r) => Stored(r)'
           /\ \/ UNCHANGED <<acct, spent>>
              \/ \E r \in Requests : A!StoreVerification(r) \/ A!StoreReset(r)
                                       \/ A!SetVerified(r) \/ A!StorePassword(r)
<1> USE A!AccountAssumption
    DEF AccountTyped, A!TypeOK, AccountCallOK, A!Goto, A!Reply, A!Refuse, A!Continue, A!mail, A!history, Stored
<1>1. ASSUME NEW r \in Requests,
             A!Start(r) \/ A!ReadForResend(r) \/ A!ReadForForgot(r) \/ A!ReadForVerify(r)
               \/ A!ReadForReset(r)
      PROVE  /\ \A q \in Requests :
                 /\ aPc[q] # "idle" => aPc'[q] # "idle" /\ aCall'[q] = aCall[q]
                 /\ aPc[q] # "read" => user'[q] = user[q] /\ aDue'[q] = aDue[q]
                 /\ Stored(q) => Stored(q)'
             /\ UNCHANGED <<acct, spent>>
  <2>1. CASE A!Start(r)
    BY <2>1 DEF A!Start
  <2>2. CASE A!ReadForResend(r)
    BY <2>2 DEF A!ReadForResend
  <2>3. CASE A!ReadForForgot(r)
    BY <2>3 DEF A!ReadForForgot
  <2>4. CASE A!ReadForVerify(r)
    BY <2>4 DEF A!ReadForVerify
  <2>5. CASE A!ReadForReset(r)
    BY <2>5 DEF A!ReadForReset
  <2> QED BY <1>1, <2>1, <2>2, <2>3, <2>4, <2>5
<1>2. ASSUME NEW r \in Requests, A!MailToken(r)
      PROVE  /\ \A q \in Requests :
                 /\ aPc[q] # "idle" => aPc'[q] # "idle" /\ aCall'[q] = aCall[q]
                 /\ aPc[q] # "read" => user'[q] = user[q] /\ aDue'[q] = aDue[q]
                 /\ Stored(q) => Stored(q)'
             /\ UNCHANGED <<acct, spent>>
  BY <1>2 DEF A!MailToken
<1>3. ASSUME NEW r \in Requests,
             A!StoreVerification(r) \/ A!StoreReset(r) \/ A!SetVerified(r) \/ A!StorePassword(r)
      PROVE  \A q \in Requests :
                 /\ aPc[q] # "idle" => aPc'[q] # "idle" /\ aCall'[q] = aCall[q]
                 /\ aPc[q] # "read" => user'[q] = user[q] /\ aDue'[q] = aDue[q]
                 /\ Stored(q) => Stored(q)'
  <2>1. UNCHANGED <<aCall, user, aDue>> /\ aPc[r] \notin {"mailToken", "done"}
    BY <1>3 DEF A!StoreVerification, A!StoreReset, A!SetVerified, A!StorePassword
  <2>2. aPc' = [aPc EXCEPT ![r] = "mailToken"] \/ aPc' = [aPc EXCEPT ![r] = "done"]
    BY <1>3 DEF A!StoreVerification, A!StoreReset, A!SetVerified, A!StorePassword
  <2> QED BY <2>1, <2>2
<1>4. CASE A!Tick \/ UNCHANGED A!vars
  BY <1>4 DEF A!Tick, A!vars
<1> QED BY <1>1, <1>2, <1>3, <1>4 DEF A!Next

\* What each write to the rows leaves in them.
LEMMA AccountRowsWritten ==
    ASSUME AccountTyped, NEW r \in Requests
    PROVE  /\ A!StoreVerification(r) =>
                 /\ \A u \in Users : /\ acct'[u].resetToken = acct[u].resetToken
                                     /\ acct'[u].resetExpires = acct[u].resetExpires
                                     /\ acct'[u].verified = acct[u].verified
                                     /\ acct'[u].verificationToken \in {acct[u].verificationToken, r}
           /\ A!StoreReset(r) =>
                 /\ \A u \in Users : /\ acct'[u].verified = acct[u].verified
                                     /\ acct'[u].verificationToken = acct[u].verificationToken
                                     /\ u # user[r] => acct'[u] = acct[u]
                 /\ acct'[user[r]].resetToken = r /\ acct'[user[r]].resetExpires = aDue[r]
           /\ A!SetVerified(r) =>
                 /\ \A u \in Users : /\ acct'[u].resetToken = acct[u].resetToken
                                     /\ acct'[u].resetExpires = acct[u].resetExpires
                                     /\ u # user[r] => acct'[u] = acct[u]
                 /\ acct'[user[r]].verified
           /\ A!StorePassword(r) =>
                 /\ \A u \in Users : /\ acct'[u].verified = acct[u].verified
                                     /\ acct'[u].verificationToken = acct[u].verificationToken
                                     /\ u # user[r] => acct'[u] = acct[u]
                 /\ acct'[user[r]].resetToken = None
<1> USE DEF AccountTyped, A!TypeOK, AccountCallOK, A!Labels, A!Account
<1>1. A!StoreVerification(r) =>
        \A u \in Users : /\ acct'[u].resetToken = acct[u].resetToken
                         /\ acct'[u].resetExpires = acct[u].resetExpires
                         /\ acct'[u].verified = acct[u].verified
                         /\ acct'[u].verificationToken \in {acct[u].verificationToken, r}
  BY DEF A!StoreVerification
<1>2. A!StoreReset(r) =>
        /\ \A u \in Users : /\ acct'[u].verified = acct[u].verified
                            /\ acct'[u].verificationToken = acct[u].verificationToken
                            /\ u # user[r] => acct'[u] = acct[u]
        /\ acct'[user[r]].resetToken = r /\ acct'[user[r]].resetExpires = aDue[r]
  BY DEF A!StoreReset
<1>3. A!SetVerified(r) =>
        /\ \A u \in Users : /\ acct'[u].resetToken = acct[u].resetToken
                            /\ acct'[u].resetExpires = acct[u].resetExpires
                            /\ u # user[r] => acct'[u] = acct[u]
        /\ acct'[user[r]].verified
  BY DEF A!SetVerified
<1>4. A!StorePassword(r) =>
        /\ \A u \in Users : /\ acct'[u].verified = acct[u].verified
                            /\ acct'[u].verificationToken = acct[u].verificationToken
                            /\ u # user[r] => acct'[u] = acct[u]
        /\ acct'[user[r]].resetToken = None
  BY DEF A!StorePassword, A!Cleared
<1> QED BY <1>1, <1>2, <1>3, <1>4


LEMMA HeldByItsUserStep ==
    ASSUME A!AccountAssumption, AccountInv, [A!Next]_(A!vars)
    PROVE  HeldByItsUser'
<1> USE A!AccountAssumption DEF AccountInv
<1>1. ASSUME NEW u \in Users, NEW t, t # None, acct[u].resetToken = t,
             acct'[u].resetExpires = acct[u].resetExpires
      PROVE  Holds(u, t)'
  <2>1. t \in Requests /\ Stored(t) /\ user[t] = u /\ acct[u].resetExpires = aDue[t]
    BY <1>1 DEF HeldByItsUser, Holds
  <2>2. Stored(t)' /\ user'[t] = user[t] /\ aDue'[t] = aDue[t]
    BY <2>1, AccountLasting DEF Stored
  <2> QED BY <1>1, <2>1, <2>2 DEF Holds
<1>2. CASE UNCHANGED acct
  BY <1>1, <1>2 DEF HeldByItsUser
<1>3. ASSUME NEW r \in Requests, A!StoreVerification(r) \/ A!SetVerified(r) PROVE HeldByItsUser'
  BY <1>1, <1>3, AccountRowsWritten DEF HeldByItsUser
<1>4. ASSUME NEW r \in Requests, A!StoreReset(r) PROVE HeldByItsUser'
  <2>1. /\ user[r] \in Users /\ aCall[r].kind = "forgot" /\ aPc' = [aPc EXCEPT ![r] = "mailToken"]
        /\ UNCHANGED <<aCall, user, aDue>>
    BY <1>4 DEF A!StoreReset, A!Goto, AccountTyped, AccountCallOK, A!Labels
  <2>2. Stored(r)'
    BY <2>1 DEF Stored, AccountTyped, A!TypeOK
  <2>3. \A u \in Users : u # user[r] => acct'[u] = acct[u]
    BY <1>4, AccountRowsWritten
  <2>4. acct'[user[r]].resetToken = r /\ acct'[user[r]].resetExpires = aDue[r]
    BY <1>4, AccountRowsWritten
  <2>5. Holds(user[r], r)'
    BY <2>1, <2>2, <2>4 DEF Holds
  <2>6. ASSUME NEW u \in Users, acct'[u].resetToken # None
        PROVE  Holds(u, acct[u].resetToken)'
    <3>1. CASE u = user[r]
      BY <2>1, <2>4, <2>5, <3>1
    <3>2. CASE u # user[r]
      BY <1>1, <2>3, <2>6, <3>2
    <3> QED BY <3>1, <3>2
  <2> QED BY <2>6 DEF HeldByItsUser
<1>5. ASSUME NEW r \in Requests, A!StorePassword(r) PROVE HeldByItsUser'
  <2>1. \A u \in Users : u # user[r] => acct'[u] = acct[u]
    BY <1>5, AccountRowsWritten
  <2>2. acct'[user[r]].resetToken = None
    BY <1>5, AccountRowsWritten
  <2> QED BY <1>1, <2>1, <2>2 DEF HeldByItsUser
<1> QED BY <1>2, <1>3, <1>4, <1>5, AccountLasting

\* A read that finds a reset token finds it with its own user, unspent and in
\* its own term.
LEMMA TokenFound ==
    ASSUME A!AccountAssumption, AccountInv, NEW r \in Requests, A!ReadForReset(r), aPc'[r] = "storePassword"
    PROVE  /\ A!Arg(r) \in Requests /\ Stored(A!Arg(r)) /\ user[A!Arg(r)] = user'[r]
           /\ A!Arg(r) \notin spent
           /\ aDue[A!Arg(r)] >= aNow
<1>1. A!Arg(r) \in A!Token
  BY DEF A!ReadForReset, AccountInv, AccountTyped, AccountCallOK, A!Call, A!Arg
<1>2. PICK u \in A!FindByReset(A!Arg(r)) : ~ A!TermOver(u) /\ user' = [user EXCEPT ![r] = u]
  BY DEF A!ReadForReset, A!Refuse, A!Reply, A!Continue, AccountInv, AccountTyped, A!TypeOK
<1>3. u \in Users /\ acct[u].resetToken = A!Arg(r) /\ A!Arg(r) # None
  BY <1>1, <1>2, A!AccountAssumption DEF A!FindByReset, A!AccountAssumption
<1>4. user'[r] = u
  BY <1>2 DEF AccountInv, AccountTyped, A!TypeOK
<1>5. /\ A!Arg(r) \in Requests /\ Stored(A!Arg(r)) /\ user[A!Arg(r)] = u
      /\ acct[u].resetExpires = aDue[A!Arg(r)]
  BY <1>3 DEF AccountInv, HeldByItsUser, Holds
<1>6. acct[u].resetExpires \in Nat /\ aNow \in Nat
  BY <1>3 DEF AccountInv, AccountTyped, A!TypeOK, A!Account
<1>7. aDue[A!Arg(r)] >= aNow
  BY <1>2, <1>5, <1>6 DEF A!TermOver
<1>8. A!Arg(r) \notin spent
  BY <1>3 DEF AccountInv, SpentIsGone
<1> QED BY <1>4, <1>5, <1>7, <1>8

\* Only a read of resetPassword leads to the change of a password, and only
\* that change spends a token.
LEMMA Redeemed ==
    ASSUME A!AccountAssumption, AccountInv, [A!Next]_(A!vars)
    PROVE  /\ \A r \in Requests : aPc'[r] = "storePassword" =>
                 /\ \/ aPc[r] = "storePassword"
                    \/ A!ReadForReset(r)
                 /\ aCall'[r] = aCall[r]
           /\ \/ UNCHANGED <<spent, twins>>
              \/ \E q \in Requests : A!StorePassword(q)
<1> USE A!AccountAssumption DEF AccountInv, AccountTyped, A!TypeOK, A!Goto, A!Reply, A!Refuse, A!Continue, A!mail, A!history
<1>1. ASSUME NEW q \in Requests,
             A!Start(q) \/ A!ReadForResend(q) \/ A!StoreVerification(q) \/ A!ReadForForgot(q)
               \/ A!StoreReset(q) \/ A!MailToken(q) \/ A!ReadForVerify(q) \/ A!SetVerified(q)
      PROVE  /\ UNCHANGED <<spent, twins>>
             /\ \A r \in Requests : aPc'[r] = "storePassword" => aPc[r] = "storePassword"
  <2>1. CASE A!Start(q)
    BY <2>1 DEF A!Start
  <2>2. CASE A!ReadForResend(q) \/ A!StoreVerification(q)
    BY <2>2 DEF A!ReadForResend, A!StoreVerification
  <2>3. CASE A!ReadForForgot(q) \/ A!StoreReset(q) \/ A!MailToken(q)
    BY <2>3 DEF A!ReadForForgot, A!StoreReset, A!MailToken
  <2>4. CASE A!ReadForVerify(q) \/ A!SetVerified(q)
    BY <2>4 DEF A!ReadForVerify, A!SetVerified
  <2> QED BY <1>1, <2>1, <2>2, <2>3, <2>4
<1>2. ASSUME NEW q \in Requests, A!ReadForReset(q)
      PROVE  /\ UNCHANGED <<spent, twins>>
             /\ \A r \in Requests \ {q} : aPc'[r] = "storePassword" => aPc[r] = "storePassword"
  BY <1>2 DEF A!ReadForReset
<1>3. ASSUME NEW q \in Requests, A!StorePassword(q)
      PROVE  \A r \in Requests : aPc'[r] = "storePassword" => aPc[r] = "storePassword"
  BY <1>3 DEF A!StorePassword
<1>4. CASE A!Tick \/ UNCHANGED A!vars
  BY <1>4 DEF A!Tick, A!vars
<1>5. \A r \in Requests : aPc'[r] = "storePassword" => aPc[r] = "storePassword" \/ A!ReadForReset(r)
  BY <1>1, <1>2, <1>3, <1>4 DEF A!Next
<1>6. \A r \in Requests : aPc[r] = "storePassword" \/ A!ReadForReset(r) => aCall'[r] = aCall[r]
  BY AccountLasting DEF A!ReadForReset
<1>7. UNCHANGED <<spent, twins>> \/ \E q \in Requests : A!StorePassword(q)
  BY <1>1, <1>2, <1>4 DEF A!Next
<1> QED BY <1>5, <1>6, <1>7

LEMMA RedeemedByItsUserStep ==
    ASSUME A!AccountAssumption, AccountInv, [A!Next]_(A!vars)
    PROVE  RedeemedByItsUser'
<1> SUFFICES ASSUME NEW r \in Requests, aPc'[r] = "storePassword"
             PROVE  /\ A!Arg(r) \in Requests /\ Stored(A!Arg(r))' /\ user'[A!Arg(r)] = user'[r]
                    /\ A!Arg(r) \in spent' => r \in twins'
  BY Redeemed DEF RedeemedByItsUser, A!Arg
<1>1. /\ A!Arg(r) \in Requests /\ Stored(A!Arg(r)) /\ user[A!Arg(r)] = user'[r]
      /\ A!Arg(r) \in spent => r \in twins
  <2>1. CASE aPc[r] = "storePassword"
    BY <2>1, AccountLasting DEF AccountInv, RedeemedByItsUser
  <2>2. CASE A!ReadForReset(r)
    BY <2>2, TokenFound
  <2> QED BY <2>1, <2>2, Redeemed
<1>2. Stored(A!Arg(r))' /\ user'[A!Arg(r)] = user[A!Arg(r)]
  <2>1. aPc[A!Arg(r)] # "read"
    BY <1>1 DEF Stored
  <2>2. \A q \in Requests : Stored(q) => Stored(q)'
    BY AccountLasting DEF AccountInv
  <2>3. \A q \in Requests : aPc[q] # "read" => user'[q] = user[q]
    BY AccountLasting DEF AccountInv
  <2>4. A!Arg(r)' = A!Arg(r)
    BY Redeemed DEF A!Arg
  <2> QED BY <1>1, <2>1, <2>2, <2>3, <2>4
<1>3. ASSUME NEW q \in Requests, A!StorePassword(q), A!Arg(r) \in spent'
      PROVE  r \in twins'
  <2>1. /\ aPc' = [aPc EXCEPT ![q] = "done"] /\ spent' = spent \cup {A!Arg(q)}
        /\ twins' = twins \cup (A!Redeeming(A!Arg(q)) \ {q})
    BY <1>3 DEF A!StorePassword, A!Reply
  <2>2. r # q /\ aPc[r] = "storePassword"
    BY <2>1 DEF AccountInv, AccountTyped, A!TypeOK
  <2> QED BY <1>1, <1>3, <2>1, <2>2 DEF A!Redeeming
<1> QED BY <1>1, <1>2, <1>3, Redeemed

LEMMA SpentIsGoneStep ==
    ASSUME A!AccountAssumption, AccountInv, [A!Next]_(A!vars)
    PROVE  SpentIsGone'
<1>1. ASSUME NEW t \in spent', t \in spent
      PROVE  t \in Requests /\ Stored(t)' /\ \A u \in Users : acct'[u].resetToken # t
  <2>1. t \in Requests /\ Stored(t) /\ \A u \in Users : acct[u].resetToken # t
    BY <1>1 DEF AccountInv, SpentIsGone
  <2>2. ASSUME NEW r \in Requests, A!StoreReset(r) PROVE r # t /\ user[r] \in Users
    BY <2>1, <2>2 DEF A!StoreReset, Stored, AccountInv, AccountTyped, AccountCallOK, A!Labels
  <2>3. ASSUME NEW r \in Requests, A!StorePassword(r) PROVE None # t /\ user[r] \in Users
    BY <2>1, <2>3, A!AccountAssumption
       DEF A!StorePassword, AccountInv, AccountTyped, AccountCallOK, A!Labels, A!AccountAssumption, A!Token
  <2>4. Stored(t)'
    BY <2>1, AccountLasting DEF AccountInv
  <2>5. ASSUME NEW u \in Users PROVE acct'[u].resetToken # t
    <3>1. CASE UNCHANGED acct
      BY <2>1, <3>1
    <3>2. ASSUME NEW r \in Requests, A!StoreVerification(r) \/ A!SetVerified(r)
          PROVE  acct'[u].resetToken # t
      BY <2>1, <3>2, AccountRowsWritten DEF AccountInv
    <3>3. ASSUME NEW r \in Requests, A!StoreReset(r) PROVE acct'[u].resetToken # t
      BY <2>1, <2>2, <3>3, AccountRowsWritten DEF AccountInv
    <3>4. ASSUME NEW r \in Requests, A!StorePassword(r) PROVE acct'[u].resetToken # t
      BY <2>1, <2>3, <3>4, AccountRowsWritten DEF AccountInv
    <3> QED BY <3>1, <3>2, <3>3, <3>4, AccountLasting DEF AccountInv
  <2> QED BY <2>1, <2>4, <2>5
<1>2. ASSUME NEW t \in spent', t \notin spent
      PROVE  t \in Requests /\ Stored(t)' /\ \A u \in Users : acct'[u].resetToken # t
  <2>1. PICK r \in Requests : A!StorePassword(r)
    BY <1>2, Redeemed
  <2>2. t = A!Arg(r) /\ aPc[r] = "storePassword"
    BY <1>2, <2>1 DEF A!StorePassword
  <2>3. t \in Requests /\ Stored(t) /\ user[t] = user[r]
    BY <2>2 DEF AccountInv, RedeemedByItsUser
  <2>4. ASSUME NEW u \in Users PROVE acct'[u].resetToken # t
    <3>1. CASE u = user[r]
      BY <2>1, <2>3, <3>1, AccountRowsWritten, A!AccountAssumption DEF AccountInv, A!AccountAssumption, A!Token
    <3>2. CASE u # user[r]
      <4>1. acct'[u] = acct[u]
        BY <2>1, <3>2, AccountRowsWritten DEF AccountInv
      <4>2. None # t
        BY <2>3, A!AccountAssumption DEF A!AccountAssumption, A!Token
      <4> QED BY <2>3, <3>2, <4>1, <4>2 DEF AccountInv, HeldByItsUser, Holds
    <3> QED BY <3>1, <3>2
  <2> QED BY <2>3, <2>4, AccountLasting DEF AccountInv
<1> QED BY <1>1, <1>2 DEF SpentIsGone

\* A token is with the clients, refused or about to be mailed, and stays so.
LEMMA KnownStays ==
    ASSUME A!AccountAssumption, AccountTyped, [A!Next]_(A!vars)
    PROVE  mailed \cup unsent \cup A!Mailing \subseteq mailed' \cup unsent' \cup A!Mailing'
<1> USE A!AccountAssumption DEF AccountTyped, A!TypeOK, A!Goto, A!Reply, A!Refuse, A!Continue, A!mail, A!history, A!Mailing
<1>1. ASSUME NEW r \in Requests, A!Start(r) \/ A!ReadForResend(r) \/ A!ReadForForgot(r)
      PROVE  mailed \cup unsent \cup A!Mailing \subseteq mailed' \cup unsent' \cup A!Mailing'
  BY <1>1 DEF A!Start, A!ReadForResend, A!ReadForForgot
<1>2. ASSUME NEW r \in Requests, A!StoreVerification(r) \/ A!StoreReset(r)
      PROVE  mailed \cup unsent \cup A!Mailing \subseteq mailed' \cup unsent' \cup A!Mailing'
  BY <1>2 DEF A!StoreVerification, A!StoreReset
<1>3. ASSUME NEW r \in Requests, A!MailToken(r)
      PROVE  mailed \cup unsent \cup A!Mailing \subseteq mailed' \cup unsent' \cup A!Mailing'
  BY <1>3 DEF A!MailToken, A!TokenOf
<1>4. ASSUME NEW r \in Requests, A!ReadForVerify(r) \/ A!ReadForReset(r)
      PROVE  mailed \cup unsent \cup A!Mailing \subseteq mailed' \cup unsent' \cup A!Mailing'
  BY <1>4 DEF A!ReadForVerify, A!ReadForReset
<1>5. ASSUME NEW r \in Requests, A!SetVerified(r) \/ A!StorePassword(r)
      PROVE  mailed \cup unsent \cup A!Mailing \subseteq mailed' \cup unsent' \cup A!Mailing'
  BY <1>5 DEF A!SetVerified, A!StorePassword
<1>6. CASE A!Tick \/ UNCHANGED A!vars
  BY <1>6 DEF A!Tick, A!vars
<1> QED BY <1>1, <1>2, <1>3, <1>4, <1>5, <1>6 DEF A!Next

LEMMA TokensReachClientsStep ==
    ASSUME A!AccountAssumption, AccountInv, [A!Next]_(A!vars)
    PROVE  A!TokensReachClients'
<1> USE DEF AccountInv
<1>1. CASE UNCHANGED acct
  BY <1>1, KnownStays DEF A!TokensReachClients
<1>2. ASSUME NEW r \in Requests, A!StoreVerification(r) \/ A!StoreReset(r)
      PROVE  A!TokensReachClients'
  <2>1. r \in A!Mailing'
    BY <1>2 DEF A!StoreVerification, A!StoreReset, A!Goto, A!Mailing, AccountTyped, A!TypeOK
  <2> QED BY <1>2, <2>1, KnownStays, AccountRowsWritten DEF A!TokensReachClients
<1>3. ASSUME NEW r \in Requests, A!SetVerified(r) \/ A!StorePassword(r)
      PROVE  A!TokensReachClients'
  BY <1>3, KnownStays, AccountRowsWritten DEF A!TokensReachClients
<1> QED BY <1>1, <1>2, <1>3, AccountLasting

LEMMA AccountInvStep == A!AccountAssumption /\ AccountInv /\ [A!Next]_(A!vars) => AccountInv'
BY AccountTypedStep, HeldByItsUserStep, RedeemedByItsUserStep, SpentIsGoneStep,
   TokensReachClientsStep DEF AccountInv

-----------------------------------------------------------------------------
(***************************************************************************)
(* The other two components                                                *)
(***************************************************************************)

TP == INSTANCE TwoFactorProofs WITH
        pc <- tPc, call <- tCall, answer <- tAnswer, Positions <- {1, 2},
        Requests <- Requests \cup {r5},
        Kinds <- {"enable", "setup", "disable", "totp", "code", "regenerate"}
PP == INSTANCE PasskeysProofs WITH
        pc <- pPc, call <- pCall, held <- pHeld, answer <- pAnswer, now <- pNow,
        crossed <- pCrossed, Users <- {u1}, Term <- 1, Period <- 2, MaxTime <- 4,
        MaxRestarts <- 1, Kinds <- {"options", "register", "login", "delete"}

-----------------------------------------------------------------------------
(***************************************************************************)
(* The instances named above are those of MCAuth                           *)
(***************************************************************************)

LEMMA SameTwoFactor ==
    /\ T!Init <=> TP!Init
    /\ T!Next <=> TP!Next
    /\ T!TypeOK <=> TP!TypeOK
    /\ T!SecretAndCodesHold <=> TP!SecretAndCodesHold
<1>1. T!Init <=> TP!Init
  BY DEF T!Init, TP!Init, T!NoCall, TP!NoCall, T!Fresh, TP!Fresh
<1>2. T!Next <=> TP!Next
  BY DEF T!history, TP!history, T!Fresh, TP!Fresh, T!Reply, TP!Reply, T!Shown, TP!Shown,
         T!Start, TP!Start, T!AlreadyEnabled, TP!AlreadyEnabled, T!Matches, TP!Matches,
         T!HasCode, TP!HasCode, T!Refusals, TP!Refusals, T!Find, TP!Find, T!Remaining,
         TP!Remaining, T!Disabled, TP!Disabled, T!AllCodes, TP!AllCodes, T!Written,
         TP!Written, T!Store, TP!Store, T!StoreFails, TP!StoreFails, T!Next, TP!Next
<1>3. T!SecretAndCodesHold <=> TP!SecretAndCodesHold
  BY DEF T!SecretAndCodesHold, TP!SecretAndCodesHold, T!EnabledHasSecret, TP!EnabledHasSecret,
         T!ListIsTheLastIssued, TP!ListIsTheLastIssued,
         T!UsedCodesGoneUnlessCrossed, TP!UsedCodesGoneUnlessCrossed
<1>4. T!TypeOK <=> TP!TypeOK
  BY DEF T!Operations, TP!Operations, T!Codes, TP!Codes, T!Column, TP!Column, T!NoCall,
         TP!NoCall, T!Call, TP!Call, T!Labels, TP!Labels, T!Answers, TP!Answers, T!TypeOK,
         TP!TypeOK
<1> QED BY <1>1, <1>2, <1>3, <1>4

LEMMA SamePasskeys ==
    /\ P!Init <=> PP!Init
    /\ P!Next <=> PP!Next
    /\ P!TypeOK <=> PP!TypeOK
    /\ P!ChallengesTakenOnceAndSoon <=> PP!ChallengesTakenOnceAndSoon
<1>1. P!Init <=> PP!Init
  BY DEF P!Credentials, PP!Credentials, P!Init, PP!Init, P!NoCall, PP!NoCall, P!HandlersInit,
         PP!HandlersInit
<1>2. P!Next <=> PP!Next
  BY DEF P!map, PP!map, P!rows, PP!rows, P!clock, PP!clock, P!history, PP!history,
         P!Credentials, PP!Credentials, P!Registered, PP!Registered, P!Expiry, PP!Expiry,
         P!AskOptions, PP!AskOptions, P!SameKey, PP!SameKey, P!StoreChallenge,
         PP!StoreChallenge, P!Answered, PP!Answered, P!StartRegister, PP!StartRegister,
         P!Counts, PP!Counts, P!StartLogin, PP!StartLogin, P!Without, PP!Without, P!TakeChallenge, PP!TakeChallenge,
         P!CreatePasskey, PP!CreatePasskey, P!FindPasskey, PP!FindPasskey, P!Verifies,
         PP!Verifies, P!UpdateCounter, PP!UpdateCounter, P!LogIn, PP!LogIn, P!StartDelete,
         PP!StartDelete, P!CheckOwner, PP!CheckOwner, P!DeletePasskey, PP!DeletePasskey,
         P!Expired, PP!Expired, P!Sweep, PP!Sweep, P!Restart, PP!Restart, P!Tick, PP!Tick,
         P!Next, PP!Next, P!handlers, PP!handlers, P!Kind, PP!Kind, P!At, PP!At, P!Begin,
         PP!Begin, P!Continue, PP!Continue, P!Goto, PP!Goto, P!Reply, PP!Reply, P!Fails,
         PP!Fails
<1>3. P!ChallengesTakenOnceAndSoon <=> PP!ChallengesTakenOnceAndSoon
  BY DEF P!ChallengesTakenOnceAndSoon, PP!ChallengesTakenOnceAndSoon
<1>4. P!TypeOK <=> PP!TypeOK
  BY DEF P!Entry, PP!Entry, P!Passkey, PP!Passkey, P!Credentials, PP!Credentials, P!OptionsCall,
         PP!OptionsCall, P!RegisterCall, PP!RegisterCall, P!LoginCall, PP!LoginCall,
         P!DeleteCall, PP!DeleteCall, P!TypeOK, PP!TypeOK, P!NoCall, PP!NoCall, P!Handling,
         PP!Handling
<1> QED BY <1>1, <1>2, <1>3, <1>4

-----------------------------------------------------------------------------
(***************************************************************************)
(* A behaviour of the composition is one of each component                 *)
(***************************************************************************)

LEMMA AccountsWithin == MCSpec => A!Spec
<1>1. MCInit => A!Init
  BY DEF MCInit
<1>2. [MCNext]_<<part, vars, aVars, tVars, pVars>> => [A!Next]_(A!vars)
  BY DEF MCNext, aVars, A!vars
<1> QED BY <1>1, <1>2, PTL DEF MCSpec, A!Spec

LEMMA TwoFactorWithin == MCSpec => TP!Spec
<1>1. MCInit => TP!Init
  BY SameTwoFactor DEF MCInit
<1>2. [MCNext]_<<part, vars, aVars, tVars, pVars>> => [TP!Next]_(TP!vars)
  BY SameTwoFactor DEF MCNext, tVars, TP!vars
<1> QED BY <1>1, <1>2, PTL DEF MCSpec, TP!Spec

LEMMA PasskeysWithin == MCSpec => PP!Spec
<1>1. MCInit => PP!Init
  BY SamePasskeys DEF MCInit
<1>2. [MCNext]_<<part, vars, aVars, tVars, pVars>> => [PP!Next]_(PP!vars)
  BY SamePasskeys DEF MCNext, pVars, PP!vars, PP!handlers
<1> QED BY <1>1, <1>2, PTL DEF MCSpec, PP!Spec

LEMMA SessionsWithin == MCSpec => Spec
<1>1. MCInit => Init
  BY DEF MCInit
<1>2. [MCNext]_<<part, vars, aVars, tVars, pVars>> => [Next]_vars
  BY DEF MCNext
<1> QED BY <1>1, <1>2, PTL DEF MCSpec, Spec

LEMMA AccountsAssumed == A!AccountAssumption
BY PartsAssumption

\* The invariant of Accounts holds in the composition.
LEMMA AccountInvHolds == MCSpec => []AccountInv
BY AccountsWithin, AccountsAssumed, AccountInvInit, AccountInvStep, PTL DEF A!Spec

LEMMA TwoFactorAssumed == TP!TwoFactorAssumption
BY PartsAssumption DEF T!TwoFactorAssumption, TP!TwoFactorAssumption, T!Operations, TP!Operations

LEMMA PasskeysAssumed == PP!PasskeysAssumption
BY PartsAssumption DEF P!PasskeysAssumption, PP!PasskeysAssumption

-----------------------------------------------------------------------------
(***************************************************************************)
(* The theorems                                                            *)
(***************************************************************************)

\* The variables of all four components keep their types.
THEOREM TypeCorrect == MCSpec => []Typed
<1>1. MCSpec => []TypeOK
  BY SessionsWithin, SessionsTyped, PTL
<1>2. MCSpec => []A!TypeOK
  <2>1. AccountInv => A!TypeOK
    BY DEF AccountInv, AccountTyped
  <2> QED BY <2>1, AccountInvHolds, PTL
<1>3. MCSpec => []T!TypeOK
  BY TwoFactorWithin, TwoFactorAssumed, TP!TypeCorrect, SameTwoFactor, PTL
<1>4. MCSpec => []P!TypeOK
  BY PasskeysWithin, PasskeysAssumed, PP!TypeCorrect, SamePasskeys, PTL
<1> QED BY <1>1, <1>2, <1>3, <1>4, PTL DEF Typed

\* No account waits for a token that nobody has: the token of a row was
\* mailed, is about to be, or its call failed when the queue refused the mail
\* (auth.service.ts).
THEOREM TokensReach == MCSpec => []TokensReachClients
<1>1. AccountInv => TokensReachClients
  BY DEF AccountInv, TokensReachClients
<1> QED BY <1>1, AccountInvHolds, PTL

\* A reset token changes a password once, but for requests that had read it
\* before it was spent, and only within the term stored with it: the row's one
\* token and one term are always written together and for its own user
\* (auth.service.ts).
THEOREM ResetsOnceInTerm == MCSpec => ResetOnceInTerm
<1>1. ASSUME AccountInv, [A!Next]_(A!vars)
      PROVE  [\A r \in Requests :
                 /\ aPc[r] = "storePassword" /\ aPc'[r] = "done"
                 /\ A!Arg(r) \in spent
                 => r \in twins]_(A!vars)
  BY <1>1 DEF AccountInv, RedeemedByItsUser
<1>2. ASSUME AccountInv, [A!Next]_(A!vars)
      PROVE  [\A r \in Requests :
                 aPc[r] = "read" /\ aPc'[r] = "storePassword" => aDue[A!Arg(r)] >= aNow]_(A!vars)
  BY <1>2, AccountsAssumed, Redeemed, TokenFound
<1> QED BY <1>1, <1>2, AccountsWithin, AccountInvHolds, PTL
        DEF A!Spec, ResetOnceInTerm, A!ResetOnceInTerm, A!ResetOncePerToken, A!RedeemedInTerm

\* Secret, list and used codes of an account agree but for the crossings that
\* the history names (two-factor.service.ts).
THEOREM SecretAndCodes == MCSpec => []SecretAndCodesHold
BY TwoFactorWithin, TwoFactorAssumed, TP!SecretAndCodes, SameTwoFactor, PTL DEF SecretAndCodesHold

\* Only an enable2FA overtaken by a confirmation replaces the secret of an
\* enabled second factor (two-factor.service.ts).
THEOREM SecretKept == MCSpec => SecretKeptUnlessOvertaken
BY TwoFactorWithin, TwoFactorAssumed, TP!SecretKept, PTL
   DEF SecretKeptUnlessOvertaken, T!SecretKeptUnlessOvertaken, TP!SecretKeptUnlessOvertaken,
       T!vars, TP!vars

\* A challenge is taken by one call at most, and no later than a sweep after it
\* has expired (passkeys.controller.ts).
THEOREM ChallengesTaken == MCSpec => []ChallengesTakenOnceAndSoon
BY PasskeysWithin, PasskeysAssumed, PP!ChallengesTaken, SamePasskeys, PTL
   DEF ChallengesTakenOnceAndSoon

\* The counter of a credential grows with each login that none crossed; one
\* that was never above 0 may stay there (passkeys.service.ts).
THEOREM CounterGrows == MCSpec => CounterGrowsUnlessCrossed
BY PasskeysWithin, PasskeysAssumed, PP!CounterGrows, PTL
   DEF CounterGrowsUnlessCrossed, P!CounterGrowsUnlessCrossed, PP!CounterGrowsUnlessCrossed,
       P!vars, PP!vars, P!handlers, PP!handlers

=============================================================================

---------------------------- MODULE PasskeysProofs ----------------------------
(***************************************************************************)
(* Theorems about Passkeys, for any users, requests, terms of a challenge, *)
(* periods of the timer and numbers of restarts.                           *)
(***************************************************************************)
EXTENDS Passkeys, TLAPS

-----------------------------------------------------------------------------
(***************************************************************************)
(* Type correctness                                                        *)
(***************************************************************************)

Read == [challenge: Requests, counter: Nat]
Verifications == {"register", "login"}

\* Where a request is says which call it carries, what it has read and whether
\* it has answered; a verification is about options that were answered, with a
\* key.
CallOK ==
    \A r \in Requests :
        /\ pc[r] = "idle" => call[r] = NoCall
        /\ pc[r] # "idle" => call[r] # NoCall
        /\ pc[r] # "done" => answer[r] = "none"
        /\ pc[r] = "store" => Kind(r) = "options"
        /\ pc[r] = "take" => Kind(r) \in Verifications
        /\ pc[r] = "create" => Kind(r) = "register" /\ held[r] \in Requests
        /\ pc[r] = "find" => Kind(r) = "login" /\ held[r] \in Requests
        /\ pc[r] = "verify" => Kind(r) = "login" /\ held[r] \in Read
        /\ pc[r] = "token" => Kind(r) = "login"
        /\ pc[r] \in {"owner", "delete"} => Kind(r) = "delete"
        /\ Kind(r) \in Verifications => Answered(call[r].to)
        /\ Answered(r) => keyOf[r] \in Requests

Typed ==
    /\ TypeOK
    /\ held \in [Requests -> {None} \cup Requests \cup Read]
    /\ CallOK

-----------------------------------------------------------------------------
(***************************************************************************)
(* The inductive invariant                                                 *)
(***************************************************************************)

\* The timer fires within its period, and what it has left in the Map has not
\* outlived its minute by more than that.
Timely ==
    /\ now <= sweepAt /\ sweepAt <= now + Period
    /\ \A k \in Requests : challenges[k] # None => sweepAt <= challenges[k].expires + Period

\* A challenge is under one key, of a call that has answered, and not taken.
OneKey ==
    \A k \in Requests : challenges[k] # None =>
        /\ pc[challenges[k].challenge] = "done"
        /\ \A j \in Requests \ {k} :
              challenges[j] # None => challenges[j].challenge # challenges[k].challenge
        /\ \A q \in Requests :
              took[q] # None => took[q].entry.challenge # challenges[k].challenge

TakenOnce ==
    \A r \in Requests : took[r] # None => pc[took[r].entry.challenge] = "done"

\* A credential is the work of a call that is over, so a deleted one does not
\* come back; a login that nobody crossed has read the counter of the row.
CountersRead ==
    /\ \A c \in Requests : passkeys[c] # None => pc[c] = "done"
    /\ \A r \in Requests :
          Kind(r) = "login" /\ call[r].with \in Requests => pc[call[r].with] = "done"
    /\ \A r \in Requests :
          /\ pc[r] = "verify" /\ r \notin crossed /\ passkeys[call[r].with] # None
          => passkeys[call[r].with].counter = held[r].counter

IInv ==
    /\ Typed /\ Timely /\ OneKey /\ TakenOnce /\ CountersRead
    /\ ChallengesTakenOnceAndSoon

LEMMA IInvInit == PasskeysAssumption /\ Init => IInv
<1> SUFFICES ASSUME PasskeysAssumption, Init PROVE IInv
  OBVIOUS
<1> USE DEF PasskeysAssumption, Init, HandlersInit
<1>1. Typed
  BY DEF Typed, TypeOK, Handling, CallOK, Kind, Answered, Verifications, NoCall, Passkey,
         Credentials, Entry
<1>2. Timely /\ OneKey /\ TakenOnce
  BY DEF Timely, OneKey, TakenOnce
<1>3. CountersRead
  BY DEF CountersRead, Kind, NoCall, Credentials
<1>4. ChallengesTakenOnceAndSoon
  BY DEF ChallengesTakenOnceAndSoon
<1> QED BY <1>1, <1>2, <1>3, <1>4 DEF IInv

LEMMA TypedStep == PasskeysAssumption /\ Typed /\ [Next]_vars => Typed'
<1> SUFFICES ASSUME PasskeysAssumption, Typed, [Next]_vars PROVE Typed'
  OBVIOUS
<1> USE PasskeysAssumption
    DEF PasskeysAssumption, Typed, TypeOK, Handling, CallOK, Kind, Answered, Verifications, NoCall,
        Begin, Continue, Goto, Reply, Fails, map, rows, clock, history,
        OptionsCall, RegisterCall, LoginCall, DeleteCall
<1>1. ASSUME NEW r \in Requests, AskOptions(r) PROVE Typed'
  BY <1>1 DEF AskOptions
<1>2. ASSUME NEW r \in Requests, StoreChallenge(r) PROVE Typed'
  BY <1>2 DEF StoreChallenge, SameKey, Entry, Expiry
<1>3. ASSUME NEW r \in Requests, StartRegister(r) PROVE Typed'
  BY <1>3 DEF StartRegister
<1>4. ASSUME NEW r \in Requests, StartLogin(r) PROVE Typed'
  <2>1. PICK o \in Requests, c \in Registered :
           /\ Answered(o)
           /\ \E n \in Counts(c) :
                 /\ device' = [device EXCEPT ![c] = n]
                 /\ Begin(r, [kind |-> "login", user |-> passkeys[c].user, to |-> o, with |-> c,
                              counter |-> n], "take")
    BY <1>4 DEF StartLogin
  <2>2. Counts(c) \subseteq Nat /\ c \in Credentials /\ passkeys[c] \in Passkey
    BY <2>1 DEF Counts, Registered
  <2> QED BY <1>4, <2>1, <2>2 DEF StartLogin, Passkey
<1>5. ASSUME NEW r \in Requests, TakeChallenge(r) PROVE Typed'
  <2> DEFINE k == keyOf[call[r].to]
  <2>1. k \in Requests
    BY <1>5 DEF TakeChallenge
  <2>2. CASE challenges[k] # None /\ challenges[k].user = call[r].user
    <3>1. challenges[k] \in Entry /\ challenges[k].challenge \in Requests
      BY <2>1, <2>2 DEF Entry
    <3>2. challenges' \in [Requests -> Entry \cup {None}]
      BY <1>5, <2>1, <2>2 DEF TakeChallenge, Without
    <3>3. took' \in [Requests -> {None} \cup [entry: Entry, at: Nat]]
      BY <1>5, <2>2, <3>1 DEF TakeChallenge
    <3> QED BY <1>5, <2>2, <3>1, <3>2, <3>3 DEF TakeChallenge
  <2>3. CASE ~ (challenges[k] # None /\ challenges[k].user = call[r].user)
    BY <1>5, <2>3 DEF TakeChallenge
  <2> QED BY <2>2, <2>3
<1>6. ASSUME NEW r \in Requests, CreatePasskey(r) PROVE Typed'
  <2>1. CASE held[r] = call[r].to
    <3>1. [user |-> call[r].user, counter |-> 0] \in Passkey
      BY <1>6 DEF CreatePasskey, Passkey
    <3>2. passkeys' \in [Credentials -> Passkey \cup {None}]
      BY <1>6, <2>1, <3>1 DEF CreatePasskey, Credentials
    <3> QED BY <1>6, <2>1, <3>2 DEF CreatePasskey
  <2>2. CASE held[r] # call[r].to
    BY <1>6, <2>2 DEF CreatePasskey
  <2> QED BY <2>1, <2>2
<1>7. ASSUME NEW r \in Requests, FindPasskey(r) PROVE Typed'
  BY <1>7 DEF FindPasskey, Passkey, Read
<1>8. ASSUME NEW r \in Requests, UpdateCounter(r) PROVE Typed'
  <2>1. CASE Verifies(r) /\ passkeys[call[r].with] # None
    <3>1. /\ pc[r] = "verify" /\ Kind(r) = "login" /\ call[r].with \in Credentials
          /\ call[r].counter \in Nat /\ passkeys[call[r].with] \in Passkey
      BY <1>8, <2>1 DEF UpdateCounter
    <3>2. passkeys' \in [Credentials -> Passkey \cup {None}]
      BY <1>8, <2>1, <3>1 DEF UpdateCounter, Passkey
    <3>3. crossed' \in SUBSET Requests
      BY <1>8, <2>1 DEF UpdateCounter, At
    <3> QED BY <1>8, <2>1, <3>1, <3>2, <3>3 DEF UpdateCounter
  <2>2. CASE ~ (Verifies(r) /\ passkeys[call[r].with] # None)
    BY <1>8, <2>2 DEF UpdateCounter
  <2> QED BY <2>1, <2>2
<1>9. ASSUME NEW r \in Requests, LogIn(r) PROVE Typed'
  BY <1>9 DEF LogIn
<1>10. ASSUME NEW r \in Requests, StartDelete(r) PROVE Typed'
  BY <1>10 DEF StartDelete, Registered
<1>11. ASSUME NEW r \in Requests, CheckOwner(r) PROVE Typed'
  BY <1>11 DEF CheckOwner
<1>12. ASSUME NEW r \in Requests, DeletePasskey(r) PROVE Typed'
  BY <1>12 DEF DeletePasskey
<1>13. CASE Sweep
  BY <1>13 DEF Sweep, Expired, handlers
<1>14. CASE Restart
  BY <1>14 DEF Restart
<1>15. CASE Tick
  BY <1>15 DEF Tick, handlers
<1>16. CASE UNCHANGED vars
  BY <1>16 DEF vars, handlers
<1> QED
  BY <1>1, <1>2, <1>3, <1>4, <1>5, <1>6, <1>7, <1>8, <1>9, <1>10, <1>11, <1>12, <1>13,
     <1>14, <1>15, <1>16 DEF Next


\* A call is made once and a call that is over remains so; four steps write the
\* Map, one of them takes from it.
LEMMA Standing ==
    ASSUME Typed, [Next]_vars
    PROVE  /\ \A r \in Requests :
                 /\ pc[r] # "idle" => call'[r] = call[r]
                 /\ pc[r] = "done" => pc'[r] = "done"
           /\ \/ UNCHANGED <<challenges, took, now, sweepAt>>
              \/ \E r \in Requests : StoreChallenge(r) \/ TakeChallenge(r)
              \/ Sweep \/ Restart \/ Tick
<1> USE DEF Typed, TypeOK, Handling, Begin, Continue, Goto, Reply, Fails, map, rows, clock, history
<1>1. ASSUME NEW r \in Requests, AskOptions(r) \/ StartRegister(r) \/ StartLogin(r) \/ StartDelete(r)
      PROVE  /\ \A q \in Requests : /\ pc[q] # "idle" => call'[q] = call[q]
                                    /\ pc[q] = "done" => pc'[q] = "done"
             /\ UNCHANGED <<challenges, took, now, sweepAt>>
  BY <1>1 DEF AskOptions, StartRegister, StartLogin, StartDelete
<1>2. ASSUME NEW r \in Requests, StoreChallenge(r) \/ TakeChallenge(r)
      PROVE  \A q \in Requests : /\ pc[q] # "idle" => call'[q] = call[q]
                                 /\ pc[q] = "done" => pc'[q] = "done"
  BY <1>2 DEF StoreChallenge, TakeChallenge
<1>3. ASSUME NEW r \in Requests, CreatePasskey(r) \/ FindPasskey(r) \/ UpdateCounter(r)
      PROVE  /\ \A q \in Requests : /\ pc[q] # "idle" => call'[q] = call[q]
                                    /\ pc[q] = "done" => pc'[q] = "done"
             /\ UNCHANGED <<challenges, took, now, sweepAt>>
  BY <1>3 DEF CreatePasskey, FindPasskey, UpdateCounter
<1>4. ASSUME NEW r \in Requests, LogIn(r) \/ CheckOwner(r) \/ DeletePasskey(r)
      PROVE  /\ \A q \in Requests : /\ pc[q] # "idle" => call'[q] = call[q]
                                    /\ pc[q] = "done" => pc'[q] = "done"
             /\ UNCHANGED <<challenges, took, now, sweepAt>>
  BY <1>4 DEF LogIn, CheckOwner, DeletePasskey
<1>5. CASE Sweep \/ Restart \/ Tick
  BY <1>5 DEF Sweep, Restart, Tick, handlers
<1>6. CASE UNCHANGED vars
  BY <1>6 DEF vars, handlers
<1> QED BY <1>1, <1>2, <1>3, <1>4, <1>5, <1>6 DEF Next

\* What the two handlers that write the Map do to it.
LEMMA Stored ==
    ASSUME PasskeysAssumption, Typed, NEW r \in Requests, StoreChallenge(r)
    PROVE  /\ \E k \in Requests : /\ challenges'[k] = [challenge |-> r, user |-> call[r].user,
                                                       expires |-> now + Term]
                                  /\ \A j \in Requests \ {k} : challenges'[j] = challenges[j]
           /\ pc[r] = "store" /\ pc'[r] = "done"
           /\ UNCHANGED <<took, now, sweepAt>>
<1>1. PICK k \in {r} \cup SameKey(r) :
         challenges' = [challenges EXCEPT ![k] =
             [challenge |-> r, user |-> call[r].user, expires |-> Expiry]]
  BY DEF StoreChallenge
<1>2. k \in Requests
  BY DEF SameKey, Typed, TypeOK
<1> QED BY <1>1, <1>2 DEF StoreChallenge, Reply, clock, history, Expiry, Typed, TypeOK, Handling

LEMMA Took ==
    ASSUME PasskeysAssumption, Typed, NEW r \in Requests, TakeChallenge(r)
    PROVE  /\ UNCHANGED <<now, sweepAt>>
           /\ \/ UNCHANGED <<challenges, took>>
              \/ \E k \in Requests :
                    /\ challenges[k] # None
                    /\ challenges'[k] = None
                    /\ \A j \in Requests \ {k} : challenges'[j] = challenges[j]
                    /\ took'[r] = [entry |-> challenges[k], at |-> now]
                    /\ \A q \in Requests \ {r} : took'[q] = took[q]
<1> DEFINE k == keyOf[call[r].to]
<1>1. k \in Requests
  <2>1. Kind(r) \in Verifications
    BY DEF TakeChallenge, Typed, CallOK
  <2>2. call[r] \in RegisterCall \cup LoginCall
    BY <2>1 DEF Typed, TypeOK, Handling, Kind, Verifications, NoCall, OptionsCall, DeleteCall
  <2>3. call[r].to \in Requests
    BY <2>2 DEF RegisterCall, LoginCall
  <2> QED BY <2>1, <2>3 DEF Typed, CallOK
<1>2. CASE challenges[k] # None /\ challenges[k].user = call[r].user
  BY <1>1, <1>2 DEF TakeChallenge, Without, clock, Typed, TypeOK
<1>3. CASE ~ (challenges[k] # None /\ challenges[k].user = call[r].user)
  BY <1>3 DEF TakeChallenge, clock
<1> QED BY <1>2, <1>3

LEMMA TimelyStep ==
    ASSUME PasskeysAssumption, IInv, [Next]_vars
    PROVE  Timely'
<1>1. /\ now \in Nat /\ sweepAt \in Nat /\ Period \in Nat /\ Term \in Nat /\ Typed
      /\ \A k \in Requests : challenges[k] # None => challenges[k].expires \in Nat
  BY DEF IInv, Typed, TypeOK, Entry, PasskeysAssumption
<1>2. CASE UNCHANGED <<challenges, took, now, sweepAt>>
  BY <1>2 DEF IInv, Timely
<1>3. ASSUME NEW r \in Requests, StoreChallenge(r) PROVE Timely'
  <2>1. PICK k \in Requests :
          /\ challenges'[k] = [challenge |-> r, user |-> call[r].user, expires |-> now + Term]
          /\ \A j \in Requests \ {k} : challenges'[j] = challenges[j]
    BY <1>1, <1>3, Stored
  <2>2. UNCHANGED <<now, sweepAt>>
    BY <1>1, <1>3, Stored
  <2>3. challenges'[k].expires = now + Term
    BY <2>1
  <2>4. sweepAt <= (now + Term) + Period
    BY <1>1 DEF IInv, Timely
  <2> QED BY <2>1, <2>2, <2>3, <2>4 DEF IInv, Timely
<1>4. ASSUME NEW r \in Requests, TakeChallenge(r) PROVE Timely'
  BY <1>1, <1>4, Took DEF IInv, Timely
<1>5. CASE Sweep
  <2>1. now' = now /\ sweepAt' = now + Period
    BY <1>5 DEF Sweep
  <2>2. ASSUME NEW k \in Requests, challenges'[k] # None
        PROVE  challenges'[k] = challenges[k] /\ challenges[k] # None /\ ~ (challenges[k].expires < now)
    BY <1>5, <2>2 DEF Sweep, Expired
  <2> QED BY <1>1, <2>1, <2>2 DEF Timely
<1>6. CASE Restart
  <2>1. now' = now /\ sweepAt' = now + Period /\ \A k \in Requests : challenges'[k] = None
    BY <1>6 DEF Restart
  <2> QED BY <1>1, <2>1 DEF Timely
<1>7. CASE Tick
  <2>1. now' = now + 1 /\ now < sweepAt /\ UNCHANGED <<sweepAt, challenges>>
    BY <1>7 DEF Tick, map
  <2> QED BY <1>1, <2>1 DEF IInv, Timely
<1> QED BY <1>1, <1>2, <1>3, <1>4, <1>5, <1>6, <1>7, Standing

\* A challenge comes into the Map when its call answers and leaves it for good.
LEMMA OneKeyStep ==
    ASSUME PasskeysAssumption, IInv, [Next]_vars
    PROVE  OneKey' /\ TakenOnce' /\ ChallengesTakenOnceAndSoon'
<1>1. /\ Typed /\ now \in Nat /\ sweepAt \in Nat /\ Period \in Nat
      /\ \A k \in Requests : challenges[k] # None =>
            challenges[k].expires \in Nat /\ challenges[k].challenge \in Requests
      /\ \A q \in Requests : took[q] # None => took[q].entry.challenge \in Requests
  BY DEF IInv, Typed, TypeOK, Entry, PasskeysAssumption
<1>2. \A r \in Requests : pc[r] = "done" => pc'[r] = "done"
  BY <1>1, Standing
<1>3. CASE took' = took /\ \A k \in Requests : challenges'[k] \in {challenges[k], None}
  <2>1. OneKey'
    BY <1>1, <1>2, <1>3 DEF IInv, OneKey
  <2>2. TakenOnce'
    BY <1>1, <1>2, <1>3 DEF IInv, TakenOnce
  <2>3. ChallengesTakenOnceAndSoon'
    BY <1>3 DEF IInv, ChallengesTakenOnceAndSoon
  <2> QED BY <2>1, <2>2, <2>3
<1>4. ASSUME NEW r \in Requests, StoreChallenge(r)
      PROVE  OneKey' /\ TakenOnce' /\ ChallengesTakenOnceAndSoon'
  <2>1. PICK k \in Requests :
          /\ challenges'[k] = [challenge |-> r, user |-> call[r].user, expires |-> now + Term]
          /\ \A j \in Requests \ {k} : challenges'[j] = challenges[j]
    BY <1>1, <1>4, Stored
  <2>2. pc[r] = "store" /\ pc'[r] = "done" /\ took' = took
    BY <1>1, <1>4, Stored
  <2>3. ASSUME NEW j \in Requests, challenges[j] # None PROVE challenges[j].challenge # r
    BY <2>2, <2>3 DEF IInv, OneKey
  <2>4. ASSUME NEW q \in Requests, took[q] # None PROVE took[q].entry.challenge # r
    BY <2>2, <2>4 DEF IInv, TakenOnce
  <2>5. OneKey'
    BY <1>1, <1>2, <2>1, <2>2, <2>3, <2>4 DEF IInv, OneKey
  <2>6. TakenOnce' /\ ChallengesTakenOnceAndSoon'
    BY <1>1, <1>2, <2>2 DEF IInv, TakenOnce, ChallengesTakenOnceAndSoon
  <2> QED BY <2>5, <2>6
<1>5. ASSUME NEW r \in Requests, TakeChallenge(r)
      PROVE  OneKey' /\ TakenOnce' /\ ChallengesTakenOnceAndSoon'
  <2>1. CASE UNCHANGED <<challenges, took>>
    BY <1>3, <2>1
  <2>2. CASE ~ UNCHANGED <<challenges, took>>
    <3>1. PICK k \in Requests :
            /\ challenges[k] # None
            /\ challenges'[k] = None
            /\ \A j \in Requests \ {k} : challenges'[j] = challenges[j]
            /\ took'[r] = [entry |-> challenges[k], at |-> now]
            /\ \A q \in Requests \ {r} : took'[q] = took[q]
      BY <1>1, <1>5, <2>2, Took
    <3>2. /\ pc[challenges[k].challenge] = "done"
          /\ \A j \in Requests \ {k} :
                challenges[j] # None => challenges[j].challenge # challenges[k].challenge
          /\ \A q \in Requests :
                took[q] # None => took[q].entry.challenge # challenges[k].challenge
      BY <3>1 DEF IInv, OneKey
    <3>3. took'[r].entry = challenges[k] /\ took'[r].at = now
      BY <3>1
    <3>4. now <= challenges[k].expires + Period
      BY <1>1, <3>1 DEF IInv, Timely
    <3>5. OneKey'
      BY <1>1, <1>2, <3>1, <3>2, <3>3 DEF IInv, OneKey
    <3>6. TakenOnce'
      BY <1>1, <1>2, <3>1, <3>2, <3>3 DEF IInv, TakenOnce
    <3>7. ASSUME NEW q \in Requests, took'[q] # None
          PROVE  /\ took'[q].at <= took'[q].entry.expires + Period
                 /\ \A p \in Requests \ {q} :
                       took'[p] # None => took'[p].entry.challenge # took'[q].entry.challenge
      <4>1. CASE q = r
        BY <3>1, <3>2, <3>3, <3>4, <4>1
      <4>2. CASE q # r
        BY <3>1, <3>2, <3>3, <3>7, <4>2 DEF IInv, ChallengesTakenOnceAndSoon
      <4> QED BY <4>1, <4>2
    <3>8. ChallengesTakenOnceAndSoon'
      BY <3>7 DEF ChallengesTakenOnceAndSoon
    <3> QED BY <3>5, <3>6, <3>8
  <2> QED BY <2>1, <2>2
<1>6. CASE Sweep \/ Restart \/ Tick
  <2>1. took' = took /\ \A k \in Requests : challenges'[k] \in {challenges[k], None}
    BY <1>6 DEF Sweep, Restart, Tick, history, map
  <2> QED BY <1>3, <2>1
<1> QED BY <1>1, <1>3, <1>4, <1>5, <1>6, Standing


\* A login comes to its credential when it starts and to the row when it finds
\* it; rows are created, written and deleted by three steps.
LEMMA RowsWritten ==
    ASSUME Typed, [Next]_vars
    PROVE  /\ \A r \in Requests : pc'[r] = "verify" =>
                 \/ pc[r] = "verify" /\ held'[r] = held[r]
                 \/ FindPasskey(r)
           /\ crossed \subseteq crossed'
           /\ \/ UNCHANGED passkeys
              \/ \E q \in Requests : CreatePasskey(q) \/ UpdateCounter(q) \/ DeletePasskey(q)
           /\ \A r \in Requests : pc[r] = "verify" /\ pc'[r] = "token" => UpdateCounter(r)
<1> USE DEF Typed, TypeOK, Handling, Begin, Continue, Goto, Reply, Fails, map, rows, clock, history
<1>1. ASSUME NEW q \in Requests, AskOptions(q) \/ StartRegister(q) \/ StartLogin(q) \/ StartDelete(q)
      PROVE  /\ \A r \in Requests : pc'[r] = "verify" => pc[r] = "verify" /\ held'[r] = held[r]
             /\ UNCHANGED <<passkeys, crossed>>
             /\ \A r \in Requests : ~ (pc[r] = "verify" /\ pc'[r] = "token")
  BY <1>1 DEF AskOptions, StartRegister, StartLogin, StartDelete
<1>2. ASSUME NEW q \in Requests, StoreChallenge(q) \/ TakeChallenge(q)
      PROVE  /\ \A r \in Requests : pc'[r] = "verify" => pc[r] = "verify" /\ held'[r] = held[r]
             /\ UNCHANGED <<passkeys, crossed>>
             /\ \A r \in Requests : ~ (pc[r] = "verify" /\ pc'[r] = "token")
  BY <1>2 DEF StoreChallenge, TakeChallenge
<1>3. ASSUME NEW q \in Requests, CreatePasskey(q) \/ DeletePasskey(q)
      PROVE  /\ \A r \in Requests : pc'[r] = "verify" => pc[r] = "verify" /\ held'[r] = held[r]
             /\ UNCHANGED crossed
             /\ \A r \in Requests : ~ (pc[r] = "verify" /\ pc'[r] = "token")
  BY <1>3 DEF CreatePasskey, DeletePasskey
<1>4. ASSUME NEW q \in Requests, FindPasskey(q)
      PROVE  /\ \A r \in Requests \ {q} : pc'[r] = "verify" => pc[r] = "verify" /\ held'[r] = held[r]
             /\ UNCHANGED <<passkeys, crossed>>
             /\ \A r \in Requests : ~ (pc[r] = "verify" /\ pc'[r] = "token")
  BY <1>4 DEF FindPasskey
<1>5. ASSUME NEW q \in Requests, UpdateCounter(q)
      PROVE  /\ \A r \in Requests : pc'[r] = "verify" => pc[r] = "verify" /\ held'[r] = held[r]
             /\ crossed \subseteq crossed'
             /\ \A r \in Requests \ {q} : ~ (pc[r] = "verify" /\ pc'[r] = "token")
  BY <1>5 DEF UpdateCounter
<1>6. ASSUME NEW q \in Requests, LogIn(q) \/ CheckOwner(q)
      PROVE  /\ \A r \in Requests : pc'[r] = "verify" => pc[r] = "verify" /\ held'[r] = held[r]
             /\ UNCHANGED <<passkeys, crossed>>
             /\ \A r \in Requests : ~ (pc[r] = "verify" /\ pc'[r] = "token")
  BY <1>6 DEF LogIn, CheckOwner
<1>7. CASE Sweep \/ Restart \/ Tick
  BY <1>7 DEF Sweep, Restart, Tick, handlers
<1>8. CASE UNCHANGED vars
  BY <1>8 DEF vars, handlers
<1> QED BY <1>1, <1>2, <1>3, <1>4, <1>5, <1>6, <1>7, <1>8 DEF Next

\* A login is for a credential that was registered by then.
LEMMA RegisteredBefore ==
    ASSUME PasskeysAssumption, IInv, [Next]_vars, NEW r \in Requests,
           Kind(r)' = "login", call'[r].with \in Requests
    PROVE  pc'[call'[r].with] = "done"
<1>1. Typed /\ \A q \in Requests : pc[q] = "done" => pc'[q] = "done"
  BY Standing DEF IInv
<1>2. CASE pc[r] # "idle"
  BY <1>1, <1>2, Standing DEF IInv, CountersRead, Kind
<1>3. CASE pc[r] = "idle"
  <2>1. call[r] = NoCall /\ call' # call
    BY <1>1, <1>3 DEF Typed, CallOK, Kind, NoCall
  <2>2. PICK q \in Requests : AskOptions(q) \/ StartRegister(q) \/ StartLogin(q) \/ StartDelete(q)
    BY <2>1 DEF Next, vars, handlers, StoreChallenge, TakeChallenge, CreatePasskey, FindPasskey,
            UpdateCounter, LogIn, CheckOwner, DeletePasskey, Sweep, Restart, Tick,
            Continue, Goto, Reply, Fails
  <2>3. q = r
    BY <1>1, <2>1, <2>2 DEF Kind, NoCall, Begin, AskOptions, StartRegister, StartLogin, StartDelete,
            Typed, TypeOK, Handling
  <2>4. \E c \in Registered : call'[r].with = c
    BY <1>1, <2>2, <2>3 DEF Kind, Begin, AskOptions, StartRegister, StartLogin, StartDelete,
            Typed, TypeOK, Handling
  <2>5. pc[call'[r].with] = "done"
    BY <2>4 DEF Registered, IInv, CountersRead
  <2> QED BY <1>1, <2>5
<1> QED BY <1>2, <1>3

LEMMA CountersReadStep ==
    ASSUME PasskeysAssumption, IInv, [Next]_vars
    PROVE  CountersRead'
<1>1. Typed /\ \A q \in Requests : pc[q] = "done" => pc'[q] = "done"
  BY Standing DEF IInv
<1>2. ASSUME NEW q \in Requests, CreatePasskey(q)
      PROVE  /\ pc[q] = "create" /\ pc'[q] = "done" /\ q \in Credentials
             /\ \A c \in Credentials \ {q} : passkeys'[c] = passkeys[c]
  BY <1>1, <1>2 DEF CreatePasskey, Reply, Fails, Typed, TypeOK, Handling, Credentials
<1>3. ASSUME NEW q \in Requests, DeletePasskey(q), NEW c \in Credentials
      PROVE  passkeys'[c] \in {passkeys[c], None}
  BY <1>1, <1>3 DEF DeletePasskey, Typed, TypeOK
<1>4. ASSUME NEW q \in Requests, UpdateCounter(q), NEW c \in Credentials
      PROVE  /\ passkeys[c] = None => passkeys'[c] = None
             /\ \/ passkeys'[c] = passkeys[c]
                \/ /\ c = call[q].with
                   /\ pc'[q] = "token"
                   /\ \A r \in Requests \ {q} : pc[r] = "verify" /\ call[r].with = c => r \in crossed'
  <2>1. CASE Verifies(q) /\ passkeys[call[q].with] # None
    BY <1>1, <1>4, <2>1 DEF UpdateCounter, Goto, Continue, At, Typed, TypeOK, Handling
  <2>2. CASE ~ (Verifies(q) /\ passkeys[call[q].with] # None)
    BY <1>4, <2>2 DEF UpdateCounter
  <2> QED BY <2>1, <2>2
<1>5. ASSUME NEW c \in Requests, passkeys'[c] # None PROVE pc'[c] = "done"
  <2>1. passkeys[c] # None => pc'[c] = "done"
    BY <1>1 DEF IInv, CountersRead
  <2>2. passkeys[c] # None \/ CreatePasskey(c)
    BY <1>1, <1>2, <1>3, <1>4, <1>5, RowsWritten DEF Credentials
  <2> QED BY <1>2, <2>1, <2>2
<1>6. ASSUME NEW r \in Requests, pc'[r] = "verify", r \notin crossed', passkeys'[call'[r].with] # None
      PROVE  passkeys'[call'[r].with].counter = held'[r].counter
  <2> DEFINE c == call[r].with
  <2>1. CASE FindPasskey(r)
    <3>1. passkeys' = passkeys /\ call' = call
      BY <2>1 DEF FindPasskey, rows, Continue, Reply
    <3>2. held'[r].counter = passkeys[c].counter
      BY <1>1, <1>6, <2>1 DEF FindPasskey, Continue, Reply, Typed, TypeOK, Handling
    <3> QED BY <3>1, <3>2
  <2>2. CASE pc[r] = "verify" /\ held'[r] = held[r]
    <3>1. call'[r] = call[r] /\ call[r] \in LoginCall /\ c \in Credentials /\ r \notin crossed
      <4>1. call'[r] = call[r] /\ r \notin crossed
        BY <1>1, <1>6, <2>2, Standing, RowsWritten
      <4>2. call[r] \in LoginCall
        BY <1>1, <2>2 DEF Typed, TypeOK, Handling, CallOK, Kind, NoCall, OptionsCall, RegisterCall,
                DeleteCall
      <4> QED BY <4>1, <4>2 DEF LoginCall
    <3>2. CASE passkeys'[c] = passkeys[c]
      BY <1>6, <2>2, <3>1, <3>2 DEF IInv, CountersRead
    <3>3. CASE passkeys'[c] # passkeys[c]
      <4>1. PICK q \in Requests : CreatePasskey(q) \/ UpdateCounter(q)
        BY <1>1, <1>3, <1>6, <3>1, <3>3, RowsWritten
      <4>2. ~ CreatePasskey(q)
        <5>1. CreatePasskey(q) => c = q
          BY <1>2, <3>1, <3>3
        <5>2. c \in Requests => pc[c] = "done"
          BY <1>1, <2>2 DEF IInv, CountersRead, Typed, CallOK
        <5> QED BY <1>2, <5>1, <5>2
      <4>3. UpdateCounter(q) /\ q = r
        BY <1>4, <1>6, <2>2, <3>1, <3>3, <4>1, <4>2
      <4> QED BY <1>4, <1>6, <3>1, <3>3, <4>3
    <3> QED BY <3>2, <3>3
  <2> QED BY <1>1, <1>6, <2>1, <2>2, RowsWritten
<1> QED BY <1>5, <1>6, RegisteredBefore DEF CountersRead

LEMMA IInvStep == PasskeysAssumption /\ IInv /\ [Next]_vars => IInv'
BY TypedStep, TimelyStep, OneKeyStep, CountersReadStep DEF IInv

-----------------------------------------------------------------------------
(***************************************************************************)
(* The theorems                                                            *)
(***************************************************************************)

\* Every variable keeps its type, through sweeps and restarts.
THEOREM TypeCorrect == ASSUME PasskeysAssumption PROVE Spec => []TypeOK
<1>1. IInv => TypeOK
  BY DEF IInv, Typed
<1> QED BY <1>1, IInvInit, IInvStep, PasskeysAssumption, PTL DEF Spec

\* A challenge of passkeys.controller.ts serves one verification, and none that
\* comes later than a period of the timer after its minute, although the
\* handlers never look at its expiry.
THEOREM ChallengesTaken == ASSUME PasskeysAssumption PROVE Spec => []ChallengesTakenOnceAndSoon
<1>1. IInv => ChallengesTakenOnceAndSoon
  BY DEF IInv
<1> QED BY <1>1, IInvInit, IInvStep, PasskeysAssumption, PTL DEF Spec

\* A login that no other crossed leaves a greater counter in the row, or a
\* counter that was never above 0 at 0, even if credentials are deleted and
\* registered meanwhile.
THEOREM CounterGrows == ASSUME PasskeysAssumption PROVE Spec => CounterGrowsUnlessCrossed
<1>1. ASSUME IInv, [Next]_vars
      PROVE  [\A r \in Requests :
                 pc[r] = "verify" /\ pc'[r] = "token" /\ r \notin crossed =>
                     LET before == passkeys[call[r].with].counter
                         after == passkeys'[call[r].with].counter
                     IN  after > before \/ (before = 0 /\ after = 0)]_vars
  <2> SUFFICES ASSUME NEW r \in Requests, pc[r] = "verify", pc'[r] = "token", r \notin crossed
               PROVE  LET before == passkeys[call[r].with].counter
                          after == passkeys'[call[r].with].counter
                      IN  after > before \/ (before = 0 /\ after = 0)
    OBVIOUS
  <2> DEFINE c == call[r].with
  <2>1. UpdateCounter(r) /\ Typed
    BY <1>1, RowsWritten DEF IInv
  <2>2. Verifies(r) /\ passkeys[c] # None /\ passkeys' = [passkeys EXCEPT ![c].counter = call[r].counter]
    BY <2>1 DEF UpdateCounter, Fails, Reply, Typed, TypeOK, Handling
  <2>3. call[r] \in LoginCall
    BY <2>1 DEF Typed, TypeOK, Handling, CallOK, Kind, NoCall, OptionsCall, RegisterCall, DeleteCall
  <2>4. c \in Credentials /\ passkeys[c] \in Passkey
    BY <2>1, <2>2, <2>3 DEF LoginCall, Typed, TypeOK
  <2>5. passkeys[c].counter = held[r].counter
    BY <1>1, <2>2 DEF IInv, CountersRead
  <2>6. passkeys'[c].counter = call[r].counter
    BY <2>1, <2>2, <2>4 DEF Passkey, Typed, TypeOK
  <2> QED BY <2>2, <2>5, <2>6 DEF Verifies
<1> QED BY <1>1, IInvInit, IInvStep, PasskeysAssumption, PTL
        DEF Spec, CounterGrowsUnlessCrossed

=============================================================================

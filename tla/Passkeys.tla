------------------------------- MODULE Passkeys -------------------------------
(***************************************************************************)
(* Passkeys: passkeys.controller.ts keeps the challenges it has sent in a  *)
(* Map of the process, swept by a timer; passkeys.service.ts keeps the     *)
(* credentials and their signature counters in the database.  The WebAuthn *)
(* library is external: it accepts a response to the expected challenge    *)
(* whose counter is above the stored one, or when both are 0: a passkey    *)
(* that several devices share does not count.                              *)
(*                                                                         *)
(* A challenge has the name of the call that asked for it, a credential    *)
(* that of the call that registered it, or of its user when it was there   *)
(* before.  The keys of the Map are made of the user and the millisecond,  *)
(* so two calls of a tick may get one key.                                 *)
(***************************************************************************)
EXTENDS Handlers

CONSTANTS
    Users,
    Kinds,        \* the operations clients call
    Term,         \* the minute of a challenge, in ticks
    Period,       \* the five minutes of the timer, in ticks
    MaxTime,      \* bound on the clock
    MaxRestarts   \* bound on the restarts

PasskeysAssumption ==
    /\ Kinds \subseteq {"options", "register", "login", "delete"}
    /\ {Term, Period, MaxTime, MaxRestarts} \subseteq Nat
    /\ None \notin Users \cup Requests
    /\ Users \cap Requests = {}

VARIABLES
    now,
    sweepAt,     \* when the timer fires next
    challenges,  \* the Map, by key: None or [challenge, user, expires]
    keyOf,       \* the key each call for options was answered with
    passkeys,    \* the rows, by credential: None or [user, counter]
    device,      \* the counters of the authenticators
    restarts,
    took,        \* history: the entry each verification took, and when
    crossed      \* history: logins whose row was written since they read it

vars == <<handlers, now, sweepAt, challenges, keyOf, passkeys, device, restarts, took, crossed>>
map == <<challenges, keyOf>>
rows == <<passkeys, device>>
clock == <<now, sweepAt, restarts>>
history == <<took, crossed>>

Entry == [challenge: Requests, user: Users, expires: Nat]
Passkey == [user: Users, counter: Nat]
Credentials == Requests \cup Users
OptionsCall == [kind: {"options"}, user: Users]
RegisterCall == [kind: {"register"}, user: Users, to: Requests]
LoginCall == [kind: {"login"}, user: Users, to: Requests, with: Credentials, counter: Nat]
DeleteCall == [kind: {"delete"}, user: Users, with: Credentials]

TypeOK ==
    /\ Handling({"store", "take", "create", "find", "verify", "token", "owner", "delete"},
                OptionsCall \cup RegisterCall \cup LoginCall \cup DeleteCall, {})
    /\ {now, sweepAt, restarts} \subseteq Nat
    /\ challenges \in [Requests -> Entry \cup {None}]
    /\ keyOf \in [Requests -> Requests \cup {None}]
    /\ passkeys \in [Credentials -> Passkey \cup {None}]
    /\ device \in [Credentials -> Nat]
    /\ took \in [Requests -> {None} \cup [entry: Entry, at: Nat]]
    /\ crossed \in SUBSET Requests

Init ==
    /\ HandlersInit
    /\ now = 0 /\ sweepAt = Period /\ restarts = 0
    /\ challenges = [k \in Requests |-> None]
    /\ keyOf = [r \in Requests |-> None]
    /\ passkeys = [c \in Credentials |-> IF c \in Users THEN [user |-> c, counter |-> 0] ELSE None]
    /\ device = [c \in Credentials |-> 0]
    /\ took = [r \in Requests |-> None]
    /\ crossed = {}

Registered == {c \in Credentials : passkeys[c] # None}

-----------------------------------------------------------------------------
(***************************************************************************)
(* Options, for a registration or a login                                  *)
(***************************************************************************)

Expiry == now + Term

AskOptions(r) ==
    /\ "options" \in Kinds
    /\ \E u \in Users : Begin(r, [kind |-> "options", user |-> u], "store")
    /\ UNCHANGED <<map, rows, clock, history>>

\* The keys `reg:user:ms` in use by calls of the same user and tick.
SameKey(r) == {keyOf[o] : o \in {o \in Requests :
                  keyOf[o] # None /\ call[o].user = call[r].user
                    /\ challenges[keyOf[o]] # None
                    /\ challenges[keyOf[o]].expires = Expiry}}

\* The queries find the user; Map.set overwrites.
StoreChallenge(r) ==
    /\ pc[r] = "store"
    /\ \E k \in {r} \cup SameKey(r) :
          /\ challenges' = [challenges EXCEPT ![k] =
                 [challenge |-> r, user |-> call[r].user, expires |-> Expiry]]
          /\ keyOf' = [keyOf EXCEPT ![r] = k]
    /\ Reply(r, "ok")
    /\ UNCHANGED <<rows, clock, history>>

-----------------------------------------------------------------------------
(***************************************************************************)
(* Verification of a registration or a login                               *)
(***************************************************************************)

Answered(o) == answer[o] = "ok" /\ Kind(o) = "options"

StartRegister(r) ==
    /\ "register" \in Kinds
    /\ \E o \in Requests, u \in Users :
          Answered(o) /\ Begin(r, [kind |-> "register", user |-> u, to |-> o], "take")
    /\ UNCHANGED <<map, rows, clock, history>>

\* The authenticator signs its count with the challenge: 0 when it does not
\* count, which shows with its first login.
Counts(c) == IF device[c] = 0 THEN {0, 1} ELSE {device[c] + 1}

StartLogin(r) ==
    /\ "login" \in Kinds
    /\ \E o \in Requests, c \in Registered :
          /\ Answered(o)
          /\ \E n \in Counts(c) :
                /\ device' = [device EXCEPT ![c] = n]
                /\ Begin(r, [kind |-> "login", user |-> passkeys[c].user, to |-> o, with |-> c,
                             counter |-> n], "take")
    /\ UNCHANGED <<map, passkeys, clock, history>>

\* Slip: the entry stays in the Map.
TakenAndKept(k) == challenges

Without(k) == [challenges EXCEPT ![k] = None]

\* get and delete, with no await in between; the expiry is not looked at.
TakeChallenge(r) ==
    /\ pc[r] = "take"
    /\ LET k == keyOf[call[r].to]
       IN  IF challenges[k] # None /\ challenges[k].user = call[r].user
           THEN /\ challenges' = Without(k)
                /\ took' = [took EXCEPT ![r] = [entry |-> challenges[k], at |-> now]]
                /\ Continue(r, IF Kind(r) = "login" THEN "find" ELSE "create",
                            challenges[k].challenge)
           ELSE Fails(r) /\ UNCHANGED <<challenges, took>>
    /\ UNCHANGED <<keyOf, rows, clock, crossed>>

CreatePasskey(r) ==
    /\ pc[r] = "create"
    /\ IF held[r] = call[r].to
       THEN /\ passkeys' = [passkeys EXCEPT ![r] = [user |-> call[r].user, counter |-> 0]]
            /\ Reply(r, "ok")
       ELSE Fails(r) /\ UNCHANGED passkeys
    /\ UNCHANGED <<map, device, clock, history>>

\* The challenge and the row, from here on.
FindPasskey(r) ==
    /\ pc[r] = "find"
    /\ LET row == passkeys[call[r].with]
       IN  IF row # None /\ row.user = call[r].user
           THEN Continue(r, "verify", [challenge |-> held[r], counter |-> row.counter])
           ELSE Reply(r, "notFound")
    /\ UNCHANGED <<map, rows, clock, history>>

\* Slip: the counter is left to the signature.
VerifiesAnyCount(r) == held[r].challenge = call[r].to

\* verifyAuthenticationResponse of the library: a counter that is not above
\* the stored one is refused if either is above 0.
Verifies(r) ==
    /\ held[r].challenge = call[r].to
    /\ call[r].counter > held[r].counter \/ (call[r].counter = 0 /\ held[r].counter = 0)

UpdateCounter(r) ==
    /\ pc[r] = "verify"
    /\ LET c == call[r].with
       IN  IF Verifies(r) /\ passkeys[c] # None
           THEN /\ passkeys' = [passkeys EXCEPT ![c].counter = call[r].counter]
                /\ crossed' = crossed \cup {q \in At("verify") \ {r} : call[q].with = c}
                /\ Goto(r, "token")
           ELSE Fails(r) /\ UNCHANGED <<passkeys, crossed>>
    /\ UNCHANGED <<map, device, clock, took>>

\* generateTokenForUser, as in Sessions; the address may not be verified.
LogIn(r) ==
    /\ pc[r] = "token"
    /\ Reply(r, "ok") \/ Reply(r, "forbidden")
    /\ UNCHANGED <<map, rows, clock, history>>

-----------------------------------------------------------------------------
(***************************************************************************)
(* Deletion, the timer, the process                                        *)
(***************************************************************************)

StartDelete(r) ==
    /\ "delete" \in Kinds
    /\ \E u \in Users, c \in Registered :
          Begin(r, [kind |-> "delete", user |-> u, with |-> c], "owner")
    /\ UNCHANGED <<map, rows, clock, history>>

CheckOwner(r) ==
    /\ pc[r] = "owner"
    /\ LET row == passkeys[call[r].with]
       IN  IF row = None THEN Reply(r, "notFound")
           ELSE IF row.user # call[r].user THEN Reply(r, "forbidden")
           ELSE Goto(r, "delete")
    /\ UNCHANGED <<map, rows, clock, history>>

DeletePasskey(r) ==
    /\ pc[r] = "delete"
    /\ IF passkeys[call[r].with] = None
       THEN Fails(r) /\ UNCHANGED passkeys
       ELSE /\ passkeys' = [passkeys EXCEPT ![call[r].with] = None]
            /\ Reply(r, "ok")
    /\ UNCHANGED <<map, device, clock, history>>

\* Slip: what has not expired.
NotExpired(e) == e # None /\ e.expires > now

Expired(e) == e # None /\ e.expires < now

Sweep ==
    /\ now >= sweepAt
    /\ challenges' = [k \in Requests |-> IF Expired(challenges[k]) THEN None ELSE challenges[k]]
    /\ sweepAt' = now + Period
    /\ UNCHANGED <<handlers, now, restarts, keyOf, rows, history>>

\* The Map and every request under way are gone; the timer starts anew.
Restart ==
    /\ restarts < MaxRestarts
    /\ restarts' = restarts + 1
    /\ challenges' = [k \in Requests |-> None]
    /\ sweepAt' = now + Period
    /\ pc' = [r \in Requests |-> IF pc[r] = "idle" THEN "idle" ELSE "done"]
    /\ answer' = [r \in Requests |-> IF pc[r] \in {"idle", "done"} THEN answer[r] ELSE "error"]
    /\ UNCHANGED <<call, held, now, keyOf, rows, history>>

\* The timer is not late by a tick.
Tick ==
    /\ now < MaxTime /\ now < sweepAt
    /\ now' = now + 1
    /\ UNCHANGED <<handlers, sweepAt, restarts, map, rows, history>>

Next ==
    \/ \E r \in Requests :
          \/ AskOptions(r) \/ StoreChallenge(r)
          \/ StartRegister(r) \/ StartLogin(r) \/ TakeChallenge(r) \/ CreatePasskey(r)
          \/ FindPasskey(r) \/ UpdateCounter(r) \/ LogIn(r)
          \/ StartDelete(r) \/ CheckOwner(r) \/ DeletePasskey(r)
    \/ Sweep \/ Restart \/ Tick

Spec == Init /\ [][Next]_vars

-----------------------------------------------------------------------------
(***************************************************************************)
(* Properties                                                              *)
(***************************************************************************)

\* A challenge serves one verification, even when two calls were given one
\* key, and none that comes later than the first sweep after its minute: the
\* handlers leave the expiry to the timer, and a restart forgets both.
ChallengesTakenOnceAndSoon ==
    \A r \in Requests : took[r] # None =>
        /\ took[r].at <= took[r].entry.expires + Period
        /\ \A q \in Requests \ {r} :
              took[q] # None => took[q].entry.challenge # took[r].entry.challenge

\* The stored counter of a credential grows with each login, so that a copied
\* authenticator shows, unless another login had written the row since this
\* one read it.  Only the counter of an authenticator that has never counted
\* stays, at 0; no counter falls back, and none that is above 0 stays.
CounterGrowsUnlessCrossed ==
    [][\A r \in Requests :
          pc[r] = "verify" /\ pc'[r] = "token" /\ r \notin crossed =>
              LET before == passkeys[call[r].with].counter
                  after == passkeys'[call[r].with].counter
              IN  after > before \/ (before = 0 /\ after = 0)]_vars

=============================================================================

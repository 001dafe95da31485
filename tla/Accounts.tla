------------------------------ MODULE Accounts ------------------------------
(***************************************************************************)
(* The two kinds of mailed token of an account, as auth.service.ts issues  *)
(* and redeems them: resendVerificationEmail and verifyEmail,              *)
(* forgotPassword and resetPassword.                                       *)
(*                                                                         *)
(* Each handler reads the user, may hash a password, and updates the row   *)
(* by id; the token goes to the mail queue in a step after the one that    *)
(* stores it.  A request is one call and names the token it generates;     *)
(* the token of the registration is named by the user.  A client can       *)
(* present a token only when it was mailed.                                *)
(***************************************************************************)
EXTENDS Naturals, FiniteSets

CONSTANTS
    Users,
    Requests,   \* one member per call
    Kinds,      \* the operations clients call
    Validity,   \* the hour a reset token lives, in ticks
    MaxTime,    \* bound on the clock
    None        \* null

Operations == {"resend", "verify", "forgot", "reset"}
Token == Requests \cup Users

AccountAssumption ==
    /\ Kinds \subseteq Operations
    /\ Validity \in Nat
    /\ MaxTime \in Nat
    /\ None \notin Token
    /\ Requests \cap Users = {}

VARIABLES
    now,
    acct,     \* users: the columns the handlers read and write
    mailed,   \* tokens whose mail was queued
    unsent,   \* tokens whose mail the queue refused
    pc,
    call,     \* the operation of each request and its argument
    user,     \* the user a request has read
    due,      \* forgotPassword: resetExpires, computed before the update
    answer,
    spent,    \* history: reset tokens that changed a password
    twins     \* history: requests that redeem a token spent since they read it

vars == <<now, acct, mailed, unsent, pc, call, user, due, answer, spent, twins>>
mail == <<mailed, unsent>>
history == <<spent, twins>>

Account == [verified: BOOLEAN, verificationToken: Token \cup {None},
            resetToken: Token \cup {None}, resetExpires: Nat, password: Token]
NoCall == [kind |-> "none", arg |-> None]
Call == [kind: Operations, arg: Token]
Labels == {"idle", "read", "storeVerification", "mailToken", "setVerified",
           "storeReset", "storePassword", "done"}
Answers == {"none", "ok", "silent", "invalid", "already", "expired", "error"}

TypeOK ==
    /\ now \in Nat
    /\ acct \in [Users -> Account]
    /\ mailed \in SUBSET Token
    /\ unsent \in SUBSET Token
    /\ pc \in [Requests -> Labels]
    /\ call \in [Requests -> {NoCall} \cup Call]
    /\ user \in [Requests -> Users \cup {None}]
    /\ due \in [Requests -> Nat]
    /\ answer \in [Requests -> Answers]
    /\ spent \in SUBSET Token
    /\ twins \in SUBSET Requests

\* Registered users, with the mail of the registration queued; register
\* stores the token and queues its mail.
Init ==
    /\ now = 0
    /\ acct = [u \in Users |-> [verified |-> FALSE, verificationToken |-> u,
                                resetToken |-> None, resetExpires |-> 0, password |-> u]]
    /\ mailed = Users
    /\ unsent = {}
    /\ pc = [r \in Requests |-> "idle"]
    /\ call = [r \in Requests |-> NoCall]
    /\ user = [r \in Requests |-> None]
    /\ due = [r \in Requests |-> 0]
    /\ answer = [r \in Requests |-> "none"]
    /\ spent = {}
    /\ twins = {}

-----------------------------------------------------------------------------

Goto(r, label) == pc' = [pc EXCEPT ![r] = label] /\ UNCHANGED answer
Reply(r, what) ==
    /\ pc' = [pc EXCEPT ![r] = "done"]
    /\ answer' = [answer EXCEPT ![r] = what]
Arg(r) == call[r].arg

Start(r) ==
    /\ pc[r] = "idle"
    /\ \E k \in Kinds :
       \E a \in IF k \in {"resend", "forgot"} THEN Users ELSE mailed :
          call' = [call EXCEPT ![r] = [kind |-> k, arg |-> a]]
    /\ Goto(r, "read")
    /\ UNCHANGED <<now, acct, mail, user, due, history>>

\* After the first read of each handler.
Continue(r, u, label) == user' = [user EXCEPT ![r] = u] /\ Goto(r, label)
Refuse(r, what) == UNCHANGED user /\ Reply(r, what)

-----------------------------------------------------------------------------
(***************************************************************************)
(* resendVerificationEmail and forgotPassword store a new token, then      *)
(* queue its mail.                                                         *)
(***************************************************************************)

ReadForResend(r) ==
    /\ pc[r] = "read" /\ call[r].kind = "resend"
    /\ IF acct[Arg(r)].verified
       THEN Refuse(r, "silent")
       ELSE Continue(r, Arg(r), "storeVerification")
    /\ UNCHANGED <<now, acct, mail, call, due, history>>

StoreVerification(r) ==
    /\ pc[r] = "storeVerification"
    /\ acct' = [acct EXCEPT ![user[r]].verificationToken = r]
    /\ Goto(r, "mailToken")
    /\ UNCHANGED <<now, mail, call, user, due, history>>

\* Slip: the hour is subtracted.
HourAgo == now - Validity

\* resetExpires.setHours(getHours() + 1).
ResetTerm == now + Validity

ReadForForgot(r) ==
    /\ pc[r] = "read" /\ call[r].kind = "forgot"
    /\ Continue(r, Arg(r), "storeReset")
    /\ due' = [due EXCEPT ![r] = ResetTerm]
    /\ UNCHANGED <<now, acct, mail, call, history>>

StoreReset(r) ==
    /\ pc[r] = "storeReset"
    /\ acct' = [acct EXCEPT ![user[r]].resetToken = r, ![user[r]].resetExpires = due[r]]
    /\ Goto(r, "mailToken")
    /\ UNCHANGED <<now, mail, call, user, due, history>>

\* Slip: the mail carries the token the account had when it was registered.
MailedFirst(r) == user[r]

TokenOf(r) == r

\* emailQueue.add: the row keeps the token when the queue refuses the job.
MailToken(r) ==
    /\ pc[r] = "mailToken"
    /\ \/ /\ mailed' = mailed \cup {TokenOf(r)}
          /\ UNCHANGED unsent
          /\ Reply(r, "ok")
       \/ /\ unsent' = unsent \cup {TokenOf(r)}
          /\ UNCHANGED mailed
          /\ Reply(r, "error")
    /\ UNCHANGED <<now, acct, call, user, due, history>>

-----------------------------------------------------------------------------
(***************************************************************************)
(* verifyEmail                                                             *)
(***************************************************************************)

FindByVerification(t) == {u \in Users : acct[u].verificationToken = t}

ReadForVerify(r) ==
    /\ pc[r] = "read" /\ call[r].kind = "verify"
    /\ LET found == FindByVerification(Arg(r))
       IN  \/ found = {} /\ Refuse(r, "invalid")
          \/ \E u \in found : IF acct[u].verified
                             THEN Refuse(r, "already")
                             ELSE Continue(r, u, "setVerified")
    /\ UNCHANGED <<now, acct, mail, call, due, history>>

SetVerified(r) ==
    /\ pc[r] = "setVerified"
    /\ acct' = [acct EXCEPT ![user[r]].verified = TRUE,
                            ![user[r]].verificationToken = None]
    /\ Reply(r, "ok")
    /\ UNCHANGED <<now, mail, call, user, due, history>>

-----------------------------------------------------------------------------
(***************************************************************************)
(* resetPassword                                                           *)
(***************************************************************************)

\* Slip: the term is not looked at.
NeverOver(u) == FALSE

TermOver(u) == acct[u].resetExpires < now

FindByReset(t) == {u \in Users : acct[u].resetToken = t}

ReadForReset(r) ==
    /\ pc[r] = "read" /\ call[r].kind = "reset"
    /\ LET found == FindByReset(Arg(r))
       IN  \/ found = {} /\ Refuse(r, "invalid")
          \/ \E u \in found : IF TermOver(u)
                             THEN Refuse(r, "expired")
                             ELSE Continue(r, u, "storePassword")
    /\ UNCHANGED <<now, acct, mail, call, due, history>>

Redeeming(t) == {r \in Requests : pc[r] = "storePassword" /\ Arg(r) = t}

\* Slip: the token is left in the row.
Keep(u) == acct[u].resetToken

Cleared(u) == None

\* After the new password was hashed: whatever reset token the row holds by
\* now is cleared with the one that was presented.
StorePassword(r) ==
    /\ pc[r] = "storePassword"
    /\ LET u == user[r]
       IN  acct' = [acct EXCEPT ![u].password = r, ![u].resetToken = Cleared(u),
                                ![u].resetExpires = 0]
    /\ spent' = spent \cup {Arg(r)}
    /\ twins' = twins \cup (Redeeming(Arg(r)) \ {r})
    /\ Reply(r, "ok")
    /\ UNCHANGED <<now, mail, call, user, due>>

-----------------------------------------------------------------------------

Tick ==
    /\ now < MaxTime
    /\ now' = now + 1
    /\ UNCHANGED <<acct, mail, pc, call, user, due, answer, history>>

Next ==
    \/ \E r \in Requests :
          \/ Start(r)
          \/ ReadForResend(r) \/ StoreVerification(r)
          \/ ReadForForgot(r) \/ StoreReset(r) \/ MailToken(r)
          \/ ReadForVerify(r) \/ SetVerified(r)
          \/ ReadForReset(r) \/ StorePassword(r)
    \/ Tick

Spec == Init /\ [][Next]_vars

-----------------------------------------------------------------------------
(***************************************************************************)
(* Properties                                                              *)
(***************************************************************************)

Mailing == {r \in Requests : pc[r] = "mailToken"}

\* Every token a row waits for was mailed, is about to be, or its mail was
\* refused and the client of that call told so, in whatever order concurrent
\* calls store and mail theirs; and an account that is not verified waits for
\* one, so that it can still be verified.
TokensReachClients ==
    LET Known == mailed \cup unsent \cup Mailing
    IN  \A u \in Users :
            /\ ~acct[u].verified => acct[u].verificationToken \in Known
            /\ acct[u].resetToken \in Known \cup {None}

\* A reset token changes a password once, unless a second request had read
\* it before the first one cleared it and was still hashing.
ResetOncePerToken ==
    [][\A r \in Requests :
          /\ pc[r] = "storePassword" /\ pc'[r] = "done"
          /\ Arg(r) \in spent
          => r \in twins]_vars

\* A reset goes on only within the term that was set for the very token
\* presented, although the row keeps one token and one term and concurrent
\* calls overwrite both.
RedeemedInTerm ==
    [][\A r \in Requests :
          pc[r] = "read" /\ pc'[r] = "storePassword" => due[Arg(r)] >= now]_vars

ResetOnceInTerm == ResetOncePerToken /\ RedeemedInTerm

=============================================================================

------------------------------ MODULE TwoFactor ------------------------------
(***************************************************************************)
(* The second factor of one account, as two-factor.service.ts keeps it in  *)
(* the user row: enable2FA, verify2FASetup, disable2FA, verify2FAToken and *)
(* regenerateBackupCodes.  Each handler reads the row, hashes or compares  *)
(* with bcrypt over further awaits, and writes columns computed from what  *)
(* it read.  A request is one call; it takes a step for the read and one   *)
(* for the write, since nothing shared is touched in between.              *)
(*                                                                         *)
(* A request that makes a secret or a list of backup codes gives them its  *)
(* own name.  A one-time password is valid exactly for the secret it was   *)
(* computed from (its time window is not modelled), a backup code is the   *)
(* request that issued it and its position in the list.                    *)
(***************************************************************************)
EXTENDS Naturals, FiniteSets

CONSTANTS
    Requests,  \* one member per call
    Kinds,     \* the operations clients call
    Positions, \* of the codes in a list: ten in the code
    None       \* null

Operations == {"enable", "setup", "disable", "totp", "code", "regenerate"}

TwoFactorAssumption ==
    /\ Kinds \subseteq Operations
    /\ None \notin Requests
    /\ Positions # {}

\* A list is never empty: null takes its place.
Codes == [issuer: Requests, left: (SUBSET Positions) \ {{}}]
Column == [enabled: BOOLEAN, secret: Requests \cup {None}, codes: Codes \cup {None}]

VARIABLES
    row,       \* the columns of the user
    pc,
    call,      \* the operation of each request, and the secret or code it presents
    read,      \* the row as each request read it
    answer,
    overtaken, \* history: the operations that wrote the row since each request read it
    crossed,   \* history: pairs of an operation that wrote and one that had
               \* overtaken it
    used,      \* history: codes whose use was granted
    issued     \* history: the request whose codes were stored last

vars == <<row, pc, call, read, answer, overtaken, crossed, used, issued>>
history == <<overtaken, crossed, used, issued>>

NoCall == [kind |-> "none", from |-> None, position |-> None]
Call == [kind: Operations, from: Requests \cup {None}, position: Positions \cup {None}]
Labels == {"idle", "find", "store", "done"}
Answers == {"none", "ok", "already", "notInitiated", "notEnabled", "badPassword",
            "invalid", "error"}

TypeOK ==
    /\ row \in Column
    /\ pc \in [Requests -> Labels]
    /\ call \in [Requests -> {NoCall} \cup Call]
    /\ read \in [Requests -> Column]
    /\ answer \in [Requests -> Answers]
    /\ overtaken \in [Requests -> SUBSET Operations]
    /\ crossed \in SUBSET (Operations \X Operations)
    /\ used \in SUBSET (Requests \X Positions)
    /\ issued \in Requests \cup {None}

Fresh == [enabled |-> FALSE, secret |-> None, codes |-> None]

Init ==
    /\ row = Fresh
    /\ pc = [r \in Requests |-> "idle"]
    /\ call = [r \in Requests |-> NoCall]
    /\ read = [r \in Requests |-> Fresh]
    /\ answer = [r \in Requests |-> "none"]
    /\ overtaken = [r \in Requests |-> {}]
    /\ crossed = {}
    /\ used = {}
    /\ issued = None

-----------------------------------------------------------------------------

Reply(r, what) ==
    /\ pc' = [pc EXCEPT ![r] = "done"]
    /\ answer' = [answer EXCEPT ![r] = what]

\* The requests whose answer showed the client a secret, or codes.
Shown(kinds) == {r \in Requests : answer[r] = "ok" /\ call[r].kind \in kinds}

\* A call arrives: its client has seen the secret or the code it presents.
Start(r) ==
    /\ pc[r] = "idle"
    /\ \E k \in Kinds :
       \E s \in CASE k \in {"setup", "totp"} -> Shown({"enable"})
                  [] k = "code" -> Shown({"enable", "regenerate"})
                  [] OTHER -> {None} :
       \E p \in IF k = "code" THEN Positions ELSE {None} :
          call' = [call EXCEPT ![r] = [kind |-> k, from |-> s, position |-> p]]
    /\ pc' = [pc EXCEPT ![r] = "find"]
    /\ UNCHANGED <<row, read, answer, history>>

\* Slip: the secret may be replaced at any time.
AskAgain(u) == FALSE

AlreadyEnabled(u) == u.enabled

\* The secret of the row verifies the one-time password.
Matches(r, u) == u.secret # None /\ u.secret = call[r].from

\* verifyBackupCode
HasCode(r, u) ==
    /\ u.codes # None
    /\ u.codes.issuer = call[r].from
    /\ call[r].position \in u.codes.left

\* The answer of a request that goes no further than its read, or "" for one
\* that goes on.  For disable the password decides.
Refusals(r) ==
    LET k == call[r].kind
    IN  CASE k = "enable" -> IF AlreadyEnabled(row) THEN {"already"} ELSE {""}
          [] k = "setup" -> IF row.secret = None THEN {"notInitiated"}
                            ELSE IF Matches(r, row) THEN {""} ELSE {"invalid"}
          [] k = "disable" -> IF row.enabled THEN {"", "badPassword"} ELSE {"notEnabled"}
          [] k = "regenerate" -> IF row.enabled THEN {""} ELSE {"notEnabled"}
          [] k = "totp" -> IF row.enabled /\ Matches(r, row) THEN {"ok"} ELSE {"invalid"}
          [] k = "code" -> IF row.enabled /\ row.secret # None /\ HasCode(r, row)
                           THEN {""} ELSE {"invalid"}

Find(r) ==
    /\ pc[r] = "find"
    /\ \E what \in Refusals(r) :
          IF what = ""
          THEN /\ pc' = [pc EXCEPT ![r] = "store"]
               /\ read' = [read EXCEPT ![r] = row]
               /\ overtaken' = [overtaken EXCEPT ![r] = {}]
               /\ UNCHANGED answer
          ELSE Reply(r, what) /\ UNCHANGED <<read, overtaken>>
    /\ UNCHANGED <<row, call, crossed, used, issued>>

-----------------------------------------------------------------------------

\* Slip: the list goes back as it was read.
ListAsRead(r) == read[r].codes

\* Slip: an empty list is stored for null.
RemainingList(r) ==
    [read[r].codes EXCEPT !.left = read[r].codes.left \ {call[r].position}]

\* "Remove used backup code", from the list that was read; null when no code
\* is left.
Remaining(r) ==
    LET left == read[r].codes.left \ {call[r].position}
    IN  IF left = {} THEN None ELSE [read[r].codes EXCEPT !.left = left]

\* Slip: the switch is left on.
LeftOn == [Fresh EXCEPT !.enabled = TRUE]

Disabled == Fresh

\* Slip: a list that is there is kept.
KeptCodes(r) == IF row.codes = None THEN [issuer |-> r, left |-> Positions] ELSE row.codes

AllCodes(r) == [issuer |-> r, left |-> Positions]

Written(r) ==
    LET k == call[r].kind
    IN  CASE k = "enable" -> [row EXCEPT !.secret = r, !.codes = AllCodes(r)]
          [] k = "setup" -> [row EXCEPT !.enabled = TRUE]
          [] k = "disable" -> Disabled
          [] k = "regenerate" -> [row EXCEPT !.codes = AllCodes(r)]
          [] k = "code" -> [row EXCEPT !.codes = Remaining(r)]

Store(r) ==
    /\ pc[r] = "store"
    /\ row' = Written(r)
    /\ overtaken' = [q \in Requests |->
                        IF pc[q] = "store" THEN overtaken[q] \cup {call[r].kind}
                                           ELSE overtaken[q]]
    /\ crossed' = crossed \cup {<<call[r].kind, k>> : k \in overtaken[r]}
    /\ used' = IF call[r].kind = "code"
               THEN used \cup {<<call[r].from, call[r].position>>} ELSE used
    /\ issued' = IF call[r].kind \in {"enable", "regenerate"} THEN r ELSE issued
    /\ Reply(r, "ok")
    /\ UNCHANGED <<call, read>>

\* The update fails, or the client refuses to write null to a Json column.
StoreFails(r) ==
    /\ pc[r] = "store"
    /\ Reply(r, "error")
    /\ UNCHANGED <<row, call, read, history>>

Next == \E r \in Requests : Start(r) \/ Find(r) \/ Store(r) \/ StoreFails(r)

Spec == Init /\ [][Next]_vars

-----------------------------------------------------------------------------
(***************************************************************************)
(* Properties                                                              *)
(***************************************************************************)

\* An account that asks for a second factor has a secret to check it with,
\* unless a confirmation of the set-up was overtaken by a disable2FA.
EnabledHasSecret ==
    row.enabled => row.secret # None \/ <<"setup", "disable">> \in crossed

\* The secret of an enabled second factor is replaced only by an enable2FA
\* that had read the row before the confirmation that enabled it.
SecretKeptUnlessOvertaken ==
    [][row.enabled /\ row'.enabled /\ row'.secret # row.secret
       => \E r \in Requests :
             pc[r] = "store" /\ call[r].kind = "enable" /\ "setup" \in overtaken[r]]_vars

\* The list of backup codes is the one that was stored last, however the uses
\* of codes, new lists and the switch interleave, unless the use of an older
\* code was overtaken by the new list.
ListIsTheLastIssued ==
    row.codes # None =>
        \/ row.codes.issuer = issued
        \/ \E k \in {"enable", "regenerate"} : <<"code", k>> \in crossed

\* A backup code that was used is gone from the list, unless two uses
\* overlapped and the later wrote the list as it was before the other.
UsedCodesGoneUnlessCrossed ==
    row.codes # None =>
        \/ \A p \in row.codes.left : <<row.codes.issuer, p>> \notin used
        \/ <<"code", "code">> \in crossed

\* What holds of the row of an account: its secret, its list, its codes.
SecretAndCodesHold == EnabledHasSecret /\ ListIsTheLastIssued /\ UsedCodesGoneUnlessCrossed

=============================================================================

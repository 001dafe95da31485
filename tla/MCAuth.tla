------------------------------- MODULE MCAuth -------------------------------
(***************************************************************************)
(* One instance each of Sessions, Accounts, TwoFactor and Passkeys.  Their *)
(* tables are not shared: a behaviour runs the one that "part" names and   *)
(* leaves the others in their initial states.                              *)
(***************************************************************************)
EXTENDS Sessions, TLC

CONSTANTS u1, u2, r5

VARIABLES
    part,
    aNow, acct, mailed, unsent, aPc, aCall, user, aDue, aAnswer, spent, twins,
    row, tPc, tCall, read, tAnswer, overtaken, crossed, used, issued,
    pPc, pCall, pHeld, pAnswer, pNow, sweepAt, challenges, keyOf, passkeys, device,
    restarts, took, pCrossed

aVars == <<aNow, acct, mailed, unsent, aPc, aCall, user, aDue, aAnswer, spent, twins>>
tVars == <<row, tPc, tCall, read, tAnswer, overtaken, crossed, used, issued>>
pVars == <<pPc, pCall, pHeld, pAnswer, pNow, sweepAt, challenges, keyOf, passkeys, device,
           restarts, took, pCrossed>>

A == INSTANCE Accounts WITH
        now <- aNow, pc <- aPc, call <- aCall, due <- aDue, answer <- aAnswer,
        Kinds <- {"resend", "verify", "forgot", "reset"}, Validity <- Lifetime
T == INSTANCE TwoFactor WITH
        pc <- tPc, call <- tCall, answer <- tAnswer, Positions <- {1, 2},
        Requests <- Requests \cup {r5},
        Kinds <- {"enable", "setup", "disable", "totp", "code", "regenerate"}
P == INSTANCE Passkeys WITH
        pc <- pPc, call <- pCall, held <- pHeld, answer <- pAnswer, now <- pNow,
        crossed <- pCrossed, Users <- {u1}, Term <- 1, Period <- 2, MaxTime <- 4,
        MaxRestarts <- 1, Kinds <- {"options", "register", "login", "delete"}

ASSUME PartsAssumption == A!AccountAssumption /\ T!TwoFactorAssumption /\ P!PasskeysAssumption

MCUsers == {u1, u2}
MCSecondFactor == {u2}
MCKinds == {"login", "second", "use", "logout", "revoke", "revokeAll"}
MCSymmetry == Permutations(Requests)

MCInit ==
    /\ part \in {"sessions", "accounts", "twoFactor", "passkeys"}
    /\ Init /\ A!Init /\ T!Init /\ P!Init

MCNext ==
    /\ UNCHANGED part
    /\ \/ part = "sessions" /\ Next /\ UNCHANGED <<aVars, tVars, pVars>>
       \/ part = "accounts" /\ A!Next /\ UNCHANGED <<vars, tVars, pVars>>
       \/ part = "twoFactor" /\ T!Next /\ UNCHANGED <<vars, aVars, pVars>>
       \/ part = "passkeys" /\ P!Next /\ UNCHANGED <<vars, aVars, tVars>>

MCSpec == MCInit /\ [][MCNext]_<<part, vars, aVars, tVars, pVars>>

Typed == TypeOK /\ A!TypeOK /\ T!TypeOK /\ P!TypeOK
TokensReachClients == A!TokensReachClients
ResetOnceInTerm == A!ResetOnceInTerm
SecretAndCodesHold == T!SecretAndCodesHold
SecretKeptUnlessOvertaken == T!SecretKeptUnlessOvertaken
ChallengesTakenOnceAndSoon == P!ChallengesTakenOnceAndSoon
CounterGrowsUnlessCrossed == P!CounterGrowsUnlessCrossed

=============================================================================

---------------------------- MODULE TwoFactorProofs ----------------------------
(***************************************************************************)
(* Theorems about TwoFactor, for any requests, any kinds of calls among    *)
(* the six operations and any number of codes in a list.                   *)
(***************************************************************************)
EXTENDS TwoFactor, TLAPS

-----------------------------------------------------------------------------
(***************************************************************************)
(* Type correctness                                                        *)
(***************************************************************************)

\* A one-time password is checked and answered at once.
Writing == Operations \ {"totp"}

\* Where a request is says whether it has a call and an answer; the code a
\* client presents was shown to a client.
CallOK ==
    \A r \in Requests :
        /\ pc[r] = "idle" => call[r] = NoCall
        /\ pc[r] # "idle" => call[r] \in Call
        /\ pc[r] = "store" => call[r].kind \in Writing
        /\ pc[r] # "done" => answer[r] = "none"
        /\ call[r].kind = "code" =>
              /\ call[r].from \in Requests
              /\ call[r].position \in Positions
              /\ answer[call[r].from] = "ok"

\* What a request at its write has read: a secret to confirm, or a list with
\* the code that is used.
ReadOK ==
    \A r \in Requests : pc[r] = "store" =>
        /\ call[r].kind = "setup" => read[r].secret # None
        /\ call[r].kind = "code" =>
              /\ read[r].codes # None
              /\ read[r].codes.issuer = call[r].from
              /\ call[r].position \in read[r].codes.left

Typed == TypeOK /\ CallOK /\ ReadOK

LEMMA TypedInit == TwoFactorAssumption /\ Init => Typed
BY DEF TwoFactorAssumption, Init, Typed, TypeOK, CallOK, ReadOK, Fresh, Column, NoCall,
       Labels, Answers

\* What is known of a request that goes on to its write.
LEMMA GoesOn ==
    ASSUME Typed, NEW r \in Requests, call[r] \in Call, "" \in Refusals(r)
    PROVE  /\ call[r].kind \in Writing
           /\ call[r].kind = "enable" => ~ row.enabled
           /\ call[r].kind = "setup" => row.secret # None
           /\ call[r].kind = "code" => HasCode(r, row)
<1>1. call[r].kind \in Operations
  BY DEF Call
<1> QED
  BY <1>1 DEF Refusals, Operations, Writing, AlreadyEnabled

LEMMA RefusalsAreAnswers ==
    ASSUME NEW r \in Requests, call[r] \in Call, NEW what \in Refusals(r)
    PROVE  what \in Answers \cup {""}
<1>1. call[r].kind \in Operations
  BY DEF Call
<1> QED
  BY <1>1 DEF Refusals, Operations, Answers

\* What a write leaves of the list it read is a list, or nothing.
LEMMA RemainingTyped ==
    ASSUME NEW r \in Requests, read[r].codes \in Codes
    PROVE  /\ Remaining(r) \in Codes \cup {None}
           /\ Remaining(r) # None =>
                 /\ Remaining(r).issuer = read[r].codes.issuer
                 /\ Remaining(r).left = read[r].codes.left \ {call[r].position}
BY DEF Remaining, Codes

LEMMA WrittenTyped ==
    ASSUME TwoFactorAssumption, Typed, NEW r \in Requests, pc[r] = "store"
    PROVE  Written(r) \in Column
<1>1. call[r].kind \in Writing
  BY DEF Typed, CallOK
<1>2. AllCodes(r) \in Codes
  BY DEF AllCodes, Codes, TwoFactorAssumption
<1>3. row \in Column /\ read[r] \in Column
  BY DEF Typed, TypeOK
<1>4. CASE call[r].kind = "enable"
  BY <1>2, <1>3, <1>4 DEF Written, Column
<1>5. CASE call[r].kind = "setup"
  BY <1>3, <1>5 DEF Written, Column
<1>6. CASE call[r].kind = "disable"
  BY <1>6 DEF Written, Column, Disabled, Fresh
<1>7. CASE call[r].kind = "regenerate"
  BY <1>2, <1>3, <1>7 DEF Written, Column
<1>8. CASE call[r].kind = "code"
  <2>1. read[r].codes \in Codes
    BY <1>3, <1>8 DEF Typed, ReadOK, Column
  <2> QED BY <1>3, <1>8, <2>1, RemainingTyped DEF Written, Column
<1> QED BY <1>1, <1>4, <1>5, <1>6, <1>7, <1>8 DEF Writing, Operations

LEMMA TypedStep == TwoFactorAssumption /\ Typed /\ [Next]_vars => Typed'
<1> SUFFICES ASSUME TwoFactorAssumption, Typed, [Next]_vars PROVE Typed'
  OBVIOUS
<1>1. ASSUME NEW r \in Requests, Start(r) PROVE Typed'
  <2>1. PICK k \in Kinds :
          \E s \in CASE k \in {"setup", "totp"} -> Shown({"enable"})
                     [] k = "code" -> Shown({"enable", "regenerate"})
                     [] OTHER -> {None} :
          \E p \in IF k = "code" THEN Positions ELSE {None} :
             call' = [call EXCEPT ![r] = [kind |-> k, from |-> s, position |-> p]]
    BY <1>1 DEF Start
  <2>2. PICK s, p :
          /\ s \in Requests \cup {None}
          /\ k = "code" => s \in Requests /\ answer[s] = "ok"
          /\ p \in Positions \cup {None}
          /\ k = "code" => p \in Positions
          /\ call' = [call EXCEPT ![r] = [kind |-> k, from |-> s, position |-> p]]
    BY <2>1, Zenon DEF Shown
  <2>3. [kind |-> k, from |-> s, position |-> p] \in Call
    BY <2>2 DEF Call, TwoFactorAssumption
  <2> QED BY <1>1, <2>2, <2>3 DEF Start, history, Typed, TypeOK, CallOK, ReadOK, Labels
<1>2. ASSUME NEW r \in Requests, Find(r) PROVE Typed'
  <2>1. call[r] \in Call /\ answer[r] = "none"
    BY <1>2 DEF Find, Typed, CallOK
  <2>2. PICK what \in Refusals(r) :
          IF what = ""
          THEN /\ pc' = [pc EXCEPT ![r] = "store"]
               /\ read' = [read EXCEPT ![r] = row]
               /\ overtaken' = [overtaken EXCEPT ![r] = {}]
               /\ UNCHANGED answer
          ELSE Reply(r, what) /\ UNCHANGED <<read, overtaken>>
    BY <1>2 DEF Find
  <2>3. CASE what = ""
    <3>1. TypeOK'
      BY <1>2, <2>2, <2>3 DEF Find, Typed, TypeOK, Labels
    <3>2. /\ pc' = [pc EXCEPT ![r] = "store"] /\ UNCHANGED <<call, answer>>
          /\ call[r].kind \in Writing
      BY <1>2, <2>1, <2>2, <2>3, GoesOn DEF Find
    <3>3. CallOK'
      BY <2>1, <3>2 DEF Typed, TypeOK, CallOK
    <3>4. ReadOK'
      BY <1>2, <2>1, <2>2, <2>3, GoesOn DEF Find, Typed, TypeOK, ReadOK, HasCode
    <3> QED BY <3>1, <3>3, <3>4 DEF Typed
  <2>4. CASE what # ""
    <3>1. what \in Answers
      BY <2>1, <2>2, <2>4, RefusalsAreAnswers
    <3>2. TypeOK'
      BY <1>2, <2>2, <2>4, <3>1 DEF Find, Reply, Typed, TypeOK, Labels
    <3>3. /\ pc' = [pc EXCEPT ![r] = "done"] /\ UNCHANGED <<call, read>>
          /\ answer' = [answer EXCEPT ![r] = what]
      BY <1>2, <2>2, <2>4 DEF Find, Reply
    <3>4. CallOK'
      BY <2>1, <3>3 DEF Typed, TypeOK, CallOK
    <3>5. ReadOK'
      BY <3>3 DEF Typed, TypeOK, ReadOK
    <3> QED BY <3>2, <3>4, <3>5 DEF Typed
  <2> QED BY <2>3, <2>4
<1>3. ASSUME NEW r \in Requests, Store(r) PROVE Typed'
  <2>1. call[r] \in Call /\ call[r].kind \in Operations /\ answer[r] = "none"
    BY <1>3 DEF Store, Typed, CallOK, Call
  <2>2. Written(r) \in Column
    BY <1>3, WrittenTyped DEF Store
  <2>3. TypeOK'
    <3>1. overtaken' \in [Requests -> SUBSET Operations] /\ crossed' \in SUBSET (Operations \X Operations)
      BY <1>3, <2>1 DEF Store, Typed, TypeOK
    <3>2. used' \in SUBSET (Requests \X Positions) /\ issued' \in Requests \cup {None}
      BY <1>3 DEF Store, Typed, TypeOK, CallOK
    <3> QED BY <1>3, <2>2, <3>1, <3>2 DEF Store, Reply, Typed, TypeOK, Labels, Answers
  <2> QED BY <1>3, <2>1, <2>3 DEF Store, Reply, Typed, TypeOK, CallOK, ReadOK
<1>4. ASSUME NEW r \in Requests, StoreFails(r) PROVE Typed'
  BY <1>4 DEF StoreFails, Reply, history, Typed, TypeOK, CallOK, ReadOK, Labels, Answers
<1>5. CASE UNCHANGED vars
  BY <1>5 DEF vars, Typed, TypeOK, CallOK, ReadOK
<1> QED BY <1>1, <1>2, <1>3, <1>4, <1>5 DEF Next

-----------------------------------------------------------------------------
(***************************************************************************)
(* The inductive invariant                                                 *)
(***************************************************************************)

\* How far the row may have moved under a request that has read it, as told by
\* the operations that wrote it meanwhile.
Overtaking ==
    \A r \in Requests : pc[r] = "store" =>
        /\ call[r].kind = "setup" => row.secret # None \/ "disable" \in overtaken[r]
        /\ call[r].kind = "enable" => (row.enabled => "setup" \in overtaken[r])
        /\ call[r].kind = "code" =>
              \/ read[r].codes.issuer = issued
              \/ \E k \in {"enable", "regenerate"} :
                    k \in overtaken[r] \/ <<"code", k>> \in crossed
        /\ call[r].kind = "code" =>
              \/ \A p \in read[r].codes.left : <<read[r].codes.issuer, p>> \notin used
              \/ "code" \in overtaken[r]
              \/ <<"code", "code">> \in crossed

\* A list that was not handed out has no used codes.
UsedWereShown == \A u \in used : answer[u[1]] = "ok"

IInv == Typed /\ Overtaking /\ UsedWereShown /\ SecretAndCodesHold

LEMMA IInvInit == TwoFactorAssumption /\ Init => IInv
BY TypedInit DEF Init, IInv, Overtaking, UsedWereShown, SecretAndCodesHold,
       EnabledHasSecret, ListIsTheLastIssued, UsedCodesGoneUnlessCrossed, Fresh

\* What a write does to the row and the history, seen by the requests that
\* have read the row before.
LEMMA StoreSeen ==
    ASSUME Typed, NEW r \in Requests, Store(r)
    PROVE  /\ answer[r] = "none" /\ answer' = [answer EXCEPT ![r] = "ok"]
           /\ \A q \in Requests : pc'[q] = "store" =>
                 /\ q # r /\ pc[q] = "store"
                 /\ overtaken'[q] = overtaken[q] \cup {call[r].kind}
           /\ crossed \subseteq crossed'
           /\ \A k \in overtaken[r] : <<call[r].kind, k>> \in crossed'
           /\ row' = Written(r)
           /\ UNCHANGED <<call, read>>
<1>1. pc[r] = "store" /\ answer[r] = "none"
  BY DEF Store, Typed, CallOK
<1>2. answer' = [answer EXCEPT ![r] = "ok"] /\ pc' = [pc EXCEPT ![r] = "done"]
  BY DEF Store, Reply
<1>3. \A q \in Requests : pc'[q] = "store" => q # r /\ pc[q] = "store"
  BY <1>2 DEF Typed, TypeOK
<1> QED BY <1>1, <1>2, <1>3 DEF Store, Typed, TypeOK

LEMMA WrittenByKind ==
    ASSUME Typed, NEW r \in Requests, pc[r] = "store"
    PROVE  LET kind == call[r].kind
           IN  /\ kind \in {"enable", "setup", "disable", "regenerate", "code"}
               /\ kind = "setup" => Written(r).enabled
               /\ kind = "disable" => ~ Written(r).enabled
               /\ kind \notin {"setup", "disable"} => Written(r).enabled = row.enabled
               /\ kind = "enable" => Written(r).secret = r
               /\ kind = "disable" => Written(r).secret = None
               /\ kind \notin {"enable", "disable"} => Written(r).secret = row.secret
               /\ kind \in {"enable", "regenerate"} => Written(r).codes = AllCodes(r)
               /\ kind = "disable" => Written(r).codes = None
               /\ kind = "code" => Written(r).codes = Remaining(r)
               /\ kind = "setup" => Written(r).codes = row.codes
<1>1. row \in Column /\ call[r].kind \in Writing
  BY DEF Typed, TypeOK, CallOK
<1>2. call[r].kind \in {"enable", "setup", "disable", "regenerate", "code"}
  BY <1>1 DEF Writing, Operations
<1>3. CASE call[r].kind = "enable"
  BY <1>1, <1>3 DEF Written, Column
<1>4. CASE call[r].kind = "setup"
  BY <1>1, <1>4 DEF Written, Column
<1>5. CASE call[r].kind = "disable"
  BY <1>5 DEF Written, Disabled, Fresh
<1>6. CASE call[r].kind = "regenerate"
  BY <1>1, <1>6 DEF Written, Column
<1>7. CASE call[r].kind = "code"
  BY <1>1, <1>7 DEF Written, Column
<1> QED BY <1>2, <1>3, <1>4, <1>5, <1>6, <1>7

LEMMA OvertakingStep ==
    ASSUME TwoFactorAssumption, IInv, [Next]_vars
    PROVE  Overtaking'
<1> USE DEF IInv
<1>1. ASSUME NEW r \in Requests, Start(r) PROVE Overtaking'
  <2>1. \A q \in Requests : pc'[q] = "store" => pc[q] = "store" /\ call'[q] = call[q]
    BY <1>1 DEF Start, Typed, TypeOK
  <2> QED BY <1>1, <2>1 DEF Start, history, Overtaking
<1>2. ASSUME NEW r \in Requests, Find(r) PROVE Overtaking'
  <2>1. call[r] \in Call
    BY <1>2 DEF Find, Typed, CallOK
  <2>2. PICK what \in Refusals(r) :
          IF what = ""
          THEN /\ pc' = [pc EXCEPT ![r] = "store"]
               /\ read' = [read EXCEPT ![r] = row]
               /\ overtaken' = [overtaken EXCEPT ![r] = {}]
               /\ UNCHANGED answer
          ELSE Reply(r, what) /\ UNCHANGED <<read, overtaken>>
    BY <1>2 DEF Find
  <2>3. CASE what = ""
    <3>1. ASSUME NEW q \in Requests, q # r PROVE pc'[q] = pc[q] /\ read'[q] = read[q] /\ overtaken'[q] = overtaken[q]
      BY <2>2, <2>3, <3>1 DEF Typed, TypeOK
    <3>2. read'[r] = row
      BY <2>2, <2>3 DEF Typed, TypeOK
    <3>3. /\ call[r].kind = "setup" => row.secret # None
          /\ call[r].kind = "enable" => ~ row.enabled
          /\ call[r].kind = "code" => row.codes # None
      BY <2>1, <2>2, <2>3, GoesOn DEF HasCode
    <3>4. UNCHANGED <<row, call, crossed, used, issued>>
      BY <1>2 DEF Find
    <3>5. call[r].kind = "code" =>
             /\ \/ read'[r].codes.issuer = issued'
                \/ \E k \in {"enable", "regenerate"} : <<"code", k>> \in crossed'
             /\ \/ \A p \in read'[r].codes.left : <<read'[r].codes.issuer, p>> \notin used'
                \/ <<"code", "code">> \in crossed'
      BY <3>2, <3>3, <3>4 DEF SecretAndCodesHold, ListIsTheLastIssued, UsedCodesGoneUnlessCrossed
    <3> QED BY <3>1, <3>3, <3>4, <3>5 DEF Overtaking
  <2>4. CASE what # ""
    <3>1. \A q \in Requests : pc'[q] = "store" => pc[q] = "store"
      BY <2>2, <2>4 DEF Reply, Typed, TypeOK
    <3> QED BY <1>2, <2>2, <2>4, <3>1 DEF Find, Overtaking
  <2> QED BY <2>3, <2>4
<1>3. ASSUME NEW r \in Requests, Store(r) PROVE Overtaking'
  <2> DEFINE kind == call[r].kind
  <2>1. pc[r] = "store" /\ row \in Column
    BY <1>3 DEF Store, Typed, TypeOK
  <2>2. ASSUME NEW q \in Requests, pc'[q] = "store"
        PROVE  /\ pc[q] = "store" /\ call'[q] = call[q] /\ read'[q] = read[q]
               /\ overtaken'[q] = overtaken[q] \cup {kind}
               /\ crossed \subseteq crossed'
    BY <1>3, <2>2, StoreSeen
  <2>3. ASSUME NEW q \in Requests, pc'[q] = "store", call[q].kind = "setup"
        PROVE  row'.secret # None \/ "disable" \in overtaken'[q]
    <3>1. CASE kind = "disable"
      BY <2>2, <2>3, <3>1
    <3>2. CASE kind # "disable"
      <4>1. row'.secret = row.secret \/ row'.secret = r
        BY <1>3, <2>1, <3>2, StoreSeen, WrittenByKind
      <4> QED BY <2>2, <2>3, <4>1 DEF Overtaking, TwoFactorAssumption
    <3> QED BY <3>1, <3>2
  <2>4. ASSUME NEW q \in Requests, pc'[q] = "store", call[q].kind = "enable", row'.enabled
        PROVE  "setup" \in overtaken'[q]
    <3>1. CASE kind = "setup"
      BY <2>2, <2>4, <3>1
    <3>2. CASE kind # "setup"
      <4>1. row.enabled
        BY <1>3, <2>1, <2>4, <3>2, StoreSeen, WrittenByKind
      <4> QED BY <2>2, <2>4, <4>1 DEF Overtaking
    <3> QED BY <3>1, <3>2
  <2>5. ASSUME NEW q \in Requests, pc'[q] = "store", call[q].kind = "code"
        PROVE  \/ read[q].codes.issuer = issued'
               \/ \E k \in {"enable", "regenerate"} :
                     k \in overtaken'[q] \/ <<"code", k>> \in crossed'
    <3>1. kind \in {"enable", "regenerate"} \/ issued' = issued
      BY <1>3 DEF Store
    <3> QED BY <2>2, <2>5, <3>1 DEF Overtaking
  <2>6. ASSUME NEW q \in Requests, pc'[q] = "store", call[q].kind = "code"
        PROVE  \/ \A p \in read[q].codes.left : <<read[q].codes.issuer, p>> \notin used'
               \/ "code" \in overtaken'[q]
               \/ <<"code", "code">> \in crossed'
    <3>1. kind = "code" \/ used' = used
      BY <1>3 DEF Store
    <3> QED BY <2>2, <2>6, <3>1 DEF Overtaking
  <2> QED BY <2>2, <2>3, <2>4, <2>5, <2>6 DEF Overtaking
<1>4. ASSUME NEW r \in Requests, StoreFails(r) PROVE Overtaking'
  <2>1. \A q \in Requests : pc'[q] = "store" => pc[q] = "store"
    BY <1>4 DEF StoreFails, Reply, Typed, TypeOK
  <2> QED BY <1>4, <2>1 DEF StoreFails, history, Overtaking
<1>5. CASE UNCHANGED vars
  BY <1>5 DEF vars, Overtaking
<1> QED BY <1>1, <1>2, <1>3, <1>4, <1>5 DEF Next

\* Answers that were given stay, and codes are used by requests whose list was
\* shown.
LEMMA UsedWereShownStep ==
    ASSUME IInv, [Next]_vars
    PROVE  UsedWereShown'
<1> USE DEF IInv, UsedWereShown
<1>1. ASSUME NEW r \in Requests, Start(r) PROVE UsedWereShown'
  BY <1>1 DEF Start, history
<1>2. ASSUME NEW r \in Requests, Find(r) PROVE UsedWereShown'
  <2>1. answer[r] = "none" /\ used' = used
    BY <1>2 DEF Find, Typed, CallOK
  <2>2. answer' = answer \/ \E what \in Refusals(r) : answer' = [answer EXCEPT ![r] = what]
    BY <1>2 DEF Find, Reply
  <2>3. \A u \in used : u[1] \in Requests
    BY DEF Typed, TypeOK
  <2> QED BY <2>1, <2>2, <2>3 DEF Typed, TypeOK
<1>3. ASSUME NEW r \in Requests, Store(r) PROVE UsedWereShown'
  <2>1. \A u \in used : u[1] \in Requests
    BY DEF Typed, TypeOK
  <2>2. \/ used' = used
        \/ /\ call[r].kind = "code"
           /\ used' = used \cup {<<call[r].from, call[r].position>>}
    BY <1>3 DEF Store
  <2>3. call[r].kind = "code" => call[r].from \in Requests /\ answer[call[r].from] = "ok"
    BY DEF Typed, CallOK
  <2> QED BY <1>3, <2>1, <2>2, <2>3, StoreSeen DEF Typed, TypeOK
<1>4. ASSUME NEW r \in Requests, StoreFails(r) PROVE UsedWereShown'
  <2>1. \A u \in used : u[1] \in Requests
    BY DEF Typed, TypeOK
  <2> QED BY <1>4, <2>1 DEF StoreFails, Reply, history, Typed, TypeOK, CallOK
<1>5. CASE UNCHANGED vars
  BY <1>5 DEF vars
<1> QED BY <1>1, <1>2, <1>3, <1>4, <1>5 DEF Next

LEMMA SecretAndCodesStep ==
    ASSUME TwoFactorAssumption, IInv, [Next]_vars
    PROVE  SecretAndCodesHold'
<1> USE DEF IInv
<1>1. ASSUME NEW r \in Requests, Store(r) PROVE SecretAndCodesHold'
  <2> DEFINE kind == call[r].kind
  <2>1. /\ pc[r] = "store" /\ row' = Written(r)
        /\ crossed \subseteq crossed'
        /\ \A k \in overtaken[r] : <<kind, k>> \in crossed'
    BY <1>1, StoreSeen DEF Store
  <2>2. EnabledHasSecret'
    <3>1. CASE kind = "setup"
      BY <2>1, <3>1, WrittenByKind DEF Overtaking, EnabledHasSecret
    <3>2. CASE kind = "enable"
      BY <2>1, <3>2, WrittenByKind DEF TwoFactorAssumption, EnabledHasSecret
    <3>3. CASE kind \notin {"setup", "enable"}
      BY <2>1, <3>3, WrittenByKind DEF SecretAndCodesHold, EnabledHasSecret
    <3> QED BY <3>1, <3>2, <3>3
  <2>3. kind = "code" =>
           /\ read[r].codes \in Codes
           /\ issued' = issued
           /\ used' = used \cup {<<read[r].codes.issuer, call[r].position>>}
    BY <1>1, <2>1 DEF Store, Typed, TypeOK, ReadOK, Column
  <2>4. ListIsTheLastIssued'
    <3>1. CASE kind = "code"
      <4>1. row'.codes # None => row'.codes.issuer = read[r].codes.issuer
        BY <2>1, <2>3, <3>1, WrittenByKind, RemainingTyped
      <4>2. \/ read[r].codes.issuer = issued'
            \/ \E k \in {"enable", "regenerate"} : <<"code", k>> \in crossed'
        BY <2>1, <2>3, <3>1 DEF Overtaking
      <4>3. issued' = issued
        BY <2>3, <3>1
      <4> QED BY <4>1, <4>2, <4>3 DEF ListIsTheLastIssued
    <3>2. CASE kind \in {"enable", "regenerate"}
      <4>1. row'.codes = AllCodes(r) /\ issued' = r
        BY <1>1, <2>1, <3>2, WrittenByKind DEF Store
      <4> QED BY <4>1 DEF AllCodes, ListIsTheLastIssued
    <3>3. CASE kind \in {"setup", "disable"}
      BY <1>1, <2>1, <3>3, WrittenByKind DEF Store, SecretAndCodesHold, ListIsTheLastIssued
    <3> QED BY <2>1, <3>1, <3>2, <3>3, WrittenByKind
  <2>5. UsedCodesGoneUnlessCrossed'
    <3>1. CASE kind = "code"
      <4>1. row'.codes # None =>
               /\ row'.codes.issuer = read[r].codes.issuer
               /\ row'.codes.left = read[r].codes.left \ {call[r].position}
        BY <2>1, <2>3, <3>1, WrittenByKind, RemainingTyped
      <4>2. \/ \A p \in read[r].codes.left : <<read[r].codes.issuer, p>> \notin used
            \/ <<"code", "code">> \in crossed'
        BY <2>1, <3>1 DEF Overtaking
      <4> QED BY <2>3, <3>1, <4>1, <4>2 DEF UsedCodesGoneUnlessCrossed
    <3>2. CASE kind \in {"enable", "regenerate"}
      <4>1. answer[r] # "ok" /\ used' = used
        BY <1>1, <3>2, StoreSeen DEF Store
      <4>2. \A p \in Positions : <<r, p>> \notin used
        BY <4>1 DEF UsedWereShown
      <4>3. row'.codes = AllCodes(r)
        BY <2>1, <3>2, WrittenByKind
      <4> QED BY <4>1, <4>2, <4>3 DEF AllCodes, UsedCodesGoneUnlessCrossed
    <3>3. CASE kind \in {"setup", "disable"}
      BY <1>1, <2>1, <3>3, WrittenByKind DEF Store, SecretAndCodesHold, UsedCodesGoneUnlessCrossed
    <3> QED BY <2>1, <3>1, <3>2, <3>3, WrittenByKind
  <2> QED BY <2>2, <2>4, <2>5 DEF SecretAndCodesHold
<1>2. ASSUME NEW r \in Requests, Start(r) \/ Find(r) \/ StoreFails(r) PROVE SecretAndCodesHold'
  BY <1>2 DEF Start, Find, StoreFails, history, SecretAndCodesHold, EnabledHasSecret,
          ListIsTheLastIssued, UsedCodesGoneUnlessCrossed
<1>3. CASE UNCHANGED vars
  BY <1>3 DEF vars, SecretAndCodesHold, EnabledHasSecret, ListIsTheLastIssued,
          UsedCodesGoneUnlessCrossed
<1> QED BY <1>1, <1>2, <1>3 DEF Next

LEMMA IInvStep == TwoFactorAssumption /\ IInv /\ [Next]_vars => IInv'
BY TypedStep, OvertakingStep, UsedWereShownStep, SecretAndCodesStep DEF IInv

\* Only the confirmation of a set-up that overtook an enable2FA lets that
\* enable2FA replace the secret of an enabled second factor.
LEMMA SecretKeptStep ==
    ASSUME TwoFactorAssumption, IInv, [Next]_vars,
           row.enabled, row'.enabled, row'.secret # row.secret
    PROVE  \E r \in Requests :
              pc[r] = "store" /\ call[r].kind = "enable" /\ "setup" \in overtaken[r]
<1>1. PICK r \in Requests : Store(r)
  BY DEF Next, vars, Start, Find, StoreFails
<1>2. pc[r] = "store" /\ row' = Written(r) /\ Typed
  BY <1>1, StoreSeen DEF Store, IInv
<1>3. call[r].kind = "enable"
  BY <1>2, WrittenByKind
<1> QED BY <1>2, <1>3 DEF IInv, Overtaking

-----------------------------------------------------------------------------
(***************************************************************************)
(* The theorems                                                            *)
(***************************************************************************)

\* Every variable keeps its type, whatever calls two-factor.service.ts serves
\* and in whatever order their reads and writes fall.
THEOREM TypeCorrect == ASSUME TwoFactorAssumption PROVE Spec => []TypeOK
<1>1. IInv => TypeOK
  BY DEF IInv, Typed
<1> QED BY <1>1, IInvInit, IInvStep, TwoFactorAssumption, PTL DEF Spec

\* The row keeps a secret while the second factor is on, the list of codes is
\* the one stored last and no used code is in it, but for the three crossings
\* of reads and writes that the history names.
THEOREM SecretAndCodes == ASSUME TwoFactorAssumption PROVE Spec => []SecretAndCodesHold
<1>1. IInv => SecretAndCodesHold
  BY DEF IInv
<1> QED BY <1>1, IInvInit, IInvStep, TwoFactorAssumption, PTL DEF Spec

\* No other call replaces the secret of an enabled second factor: enable2FA
\* checks the switch, and only a confirmation can turn it on behind its back.
THEOREM SecretKept == ASSUME TwoFactorAssumption PROVE Spec => SecretKeptUnlessOvertaken
<1>1. ASSUME IInv, [Next]_vars
      PROVE  [row.enabled /\ row'.enabled /\ row'.secret # row.secret
              => \E r \in Requests :
                    pc[r] = "store" /\ call[r].kind = "enable" /\ "setup" \in overtaken[r]]_vars
  BY <1>1, SecretKeptStep
<1> QED BY <1>1, IInvInit, IInvStep, TwoFactorAssumption, PTL
        DEF Spec, SecretKeptUnlessOvertaken

=============================================================================

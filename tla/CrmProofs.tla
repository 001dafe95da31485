------------------------------ MODULE CrmProofs ------------------------------
(***************************************************************************)
(* Theorems about Pipelines, for any pipelines, stages, deals, requests    *)
(* and calls, and about the composition that is model-checked.             *)
(***************************************************************************)
EXTENDS MCCrm, FiniteSetTheorems, WellFoundedInduction, TLAPS

-----------------------------------------------------------------------------
(***************************************************************************)
(* Type correctness                                                        *)
(***************************************************************************)

StageKinds == {"createStage", "updateStage"}
MoveKinds == {"updateDeal", "moveDeal"}

\* Where a request is says what it was called with and what it has read.
CallOK ==
    \A r \in Requests :
        /\ pc[r] = "idle" => call[r] = NoCall
        /\ pc[r] # "idle" => call[r] \in Calls
        /\ pc[r] = "unset" => call[r].kind \in {"createPipeline", "updatePipeline"}
        /\ pc[r] = "count" => call[r].kind \in {"removePipeline", "removeStage"}
        /\ pc[r] = "findStage" => call[r].kind \in MoveKinds /\ call[r].stage \in StageIds
        /\ pc[r] \in {"checkWon", "checkLost"} => call[r].kind \in StageKinds
        /\ pc[r] \in {"checkWon", "checkLost", "write"} /\ call[r].kind = "updateStage"
              => held[r] \in StageRow
        /\ pc[r] \in {"findStage", "write"} /\ call[r].kind \in MoveKinds => held[r] \in DealRow

WellTyped == TypeOK /\ CallOK

\* What each call carries.
LEMMA CallFields ==
    ASSUME NEW c \in Calls
    PROVE  /\ c.kind \in {"createPipeline", "updatePipeline", "removePipeline", "createStage",
                          "updateStage", "removeStage", "createDeal", "updateDeal", "moveDeal",
                          "removeDeal"}
           /\ c.kind \in {"createPipeline", "updatePipeline", "removePipeline", "createStage",
                          "createDeal"} => c.pipeline \in PipelineIds
           /\ c.kind \in {"createPipeline", "updatePipeline"} => c.isDefault \in BOOLEAN
           /\ c.kind \in {"createStage", "updateStage", "removeStage", "createDeal", "moveDeal"}
                 => c.stage \in StageIds
           /\ c.kind = "updateDeal" => c.stage \in StageIds \cup {None}
           /\ c.kind = "createStage" => c.won \in BOOLEAN /\ c.lost \in BOOLEAN
           /\ c.kind = "updateStage" => c.won \in BOOLEAN \cup {None} /\ c.lost \in BOOLEAN \cup {None}
           /\ c.kind \in {"createDeal", "updateDeal", "moveDeal", "removeDeal"} => c.deal \in DealIds
           /\ c.kind = "createDeal" => c.status \in Status
           /\ c.kind = "updateDeal" => c.status \in Status \cup {None}
<1>1. c \in PipelineCall \/ c \in StageCall \/ c \in DealCall
  BY PipelinesAssumption
<1>2. CASE c \in PipelineCall
  BY <1>2 DEF PipelineCall
<1>3. CASE c \in StageCall
  BY <1>3 DEF StageCall
<1>4. CASE c \in DealCall
  BY <1>4 DEF DealCall
<1> QED BY <1>1, <1>2, <1>3, <1>4

LEMMA TypedInit == Init => WellTyped
BY PipelinesAssumption DEF Init, WellTyped, TypeOK, CallOK, Labels, Answers, NoCall

\* The steps of one request.
Step(r) ==
    \/ Start(r)
    \/ FindPipeline(r) \/ UnsetDefaults(r) \/ WritePipeline(r)
    \/ FindForStage(r) \/ CheckWon(r) \/ CheckLost(r) \/ WriteStage(r)
    \/ CountDeals(r) \/ DeletePipeline(r) \/ DeleteStage(r)
    \/ FindForDeal(r) \/ CreateDeal(r)
    \/ FindDeal(r) \/ FindStage(r) \/ WriteDeal(r) \/ DeleteDeal(r)

\* A row without some of its ids is a table still.
LEMMA WithoutTyped ==
    ASSUME NEW I, NEW V, NEW table \in [I -> V \cup {None}], NEW gone
    PROVE  /\ Without(table, gone) \in [I -> V \cup {None}]
           /\ \A i \in I : Without(table, gone)[i] = IF i \in gone THEN None ELSE table[i]
BY DEF Without

\* An update of a stage changes its flags and no other stage.
LEMMA StageUpdated ==
    ASSUME WellTyped, NEW r \in Requests, WriteStage(r), call[r].kind = "updateStage",
           stages[call[r].stage] # None
    PROVE  LET s == call[r].stage
           IN  /\ s \in StageIds /\ stages[s] \in StageRow /\ stages'[s] \in StageRow
               /\ stages'[s].pipeline = stages[s].pipeline
               /\ stages'[s].won = Given(call[r].won, stages[s].won)
               /\ stages'[s].lost = Given(call[r].lost, stages[s].lost)
               /\ \A t \in StageIds \ {s} : stages'[t] = stages[t]
               /\ stages' \in [StageIds -> StageRow \cup {None}]
<1> DEFINE s == call[r].stage
           new == [stages[s] EXCEPT !.won = Given(call[r].won, @), !.lost = Given(call[r].lost, @)]
<1>1. call[r] \in Calls /\ s \in StageIds
  BY CallFields DEF WriteStage, Doing, WellTyped, CallOK
<1>2. stages[s] \in StageRow
  BY <1>1 DEF WellTyped, TypeOK
<1>3. Given(call[r].won, stages[s].won) \in BOOLEAN /\ Given(call[r].lost, stages[s].lost) \in BOOLEAN
  BY <1>1, <1>2, CallFields DEF Given, StageRow
<1>4. /\ new \in StageRow
      /\ new.pipeline = stages[s].pipeline
      /\ new.won = Given(call[r].won, stages[s].won)
      /\ new.lost = Given(call[r].lost, stages[s].lost)
  BY <1>2, <1>3 DEF StageRow
<1>5. stages' = [stages EXCEPT ![s] = new]
  BY <1>1 DEF WriteStage
<1> HIDE DEF new
<1> QED BY <1>1, <1>2, <1>4, <1>5 DEF WellTyped, TypeOK

LEMMA TypedStep == WellTyped /\ [Next]_vars => WellTyped'
<1> SUFFICES ASSUME WellTyped, [Next]_vars PROVE WellTyped'
  OBVIOUS
<1> USE PipelinesAssumption, CallFields
        DEF WellTyped, TypeOK, CallOK, Labels, Answers, Goto, Reply, Fail,
            Doing, tables, local, StageKinds, MoveKinds, Outdate
<1>1. ASSUME NEW r \in Requests, Start(r) PROVE WellTyped'
  BY <1>1 DEF Start
<1>2. ASSUME NEW r \in Requests, FindPipeline(r) PROVE WellTyped'
  BY <1>2 DEF FindPipeline
<1>3. ASSUME NEW r \in Requests, UnsetDefaults(r) PROVE WellTyped'
  BY <1>3 DEF UnsetDefaults, PipelineRow, MakingItDefault, MakingDefault, At
<1>4. ASSUME NEW r \in Requests, WritePipeline(r) PROVE WellTyped'
  BY <1>4 DEF WritePipeline, PipelineRow, MakingItDefault, MakingDefault, At
<1>5. ASSUME NEW r \in Requests, FindForStage(r) PROVE WellTyped'
  BY <1>5 DEF FindForStage
<1>6. ASSUME NEW r \in Requests, CheckWon(r) \/ CheckLost(r) PROVE WellTyped'
  BY <1>6 DEF CheckWon, CheckLost, Check
<1>7. ASSUME NEW r \in Requests, WriteStage(r) PROVE WellTyped'
  <2>1. stages' \in [StageIds -> StageRow \cup {None}]
    <3>0. call[r] \in Calls /\ call[r].stage \in StageIds
      BY <1>7 DEF WriteStage
    <3>1. CASE call[r].kind = "createStage"
      BY <1>7, <3>1 DEF WriteStage, StageRow
    <3>2. CASE call[r].kind = "updateStage" /\ stages[call[r].stage] = None
      BY <1>7, <3>2 DEF WriteStage
    <3>3. CASE call[r].kind = "updateStage" /\ stages[call[r].stage] # None
      BY <1>7, <3>3, StageUpdated
    <3> QED BY <1>7, <3>1, <3>2, <3>3 DEF WriteStage
  <2>2. aged' \in SUBSET Requests
    BY <1>7 DEF WriteStage, Shaping, ShapingStages, MovingTo, At
  <2> QED BY <1>7, <2>1, <2>2 DEF WriteStage
<1>8. ASSUME NEW r \in Requests, CountDeals(r) PROVE WellTyped'
  BY <1>8 DEF CountDeals
<1>9. ASSUME NEW r \in Requests, DeletePipeline(r) PROVE WellTyped'
  <2>1. \A gone : /\ Without(pipelines, gone) \in [PipelineIds -> PipelineRow \cup {None}]
                  /\ Without(stages, gone) \in [StageIds -> StageRow \cup {None}]
                  /\ Without(deals, gone) \in [DealIds -> DealRow \cup {None}]
    BY WithoutTyped
  <2> QED BY <1>9, <2>1 DEF DeletePipeline
<1>10. ASSUME NEW r \in Requests, DeleteStage(r) PROVE WellTyped'
  <2>1. \A gone : /\ Without(stages, gone) \in [StageIds -> StageRow \cup {None}]
                  /\ Without(deals, gone) \in [DealIds -> DealRow \cup {None}]
    BY WithoutTyped
  <2> QED BY <1>10, <2>1 DEF DeleteStage
<1>11. ASSUME NEW r \in Requests, FindForDeal(r) PROVE WellTyped'
  BY <1>11 DEF FindForDeal
<1>12. ASSUME NEW r \in Requests, CreateDeal(r) PROVE WellTyped'
  BY <1>12 DEF CreateDeal, DealRow, Emptying, At
<1>13. ASSUME NEW r \in Requests, FindDeal(r) PROVE WellTyped'
  BY <1>13 DEF FindDeal
<1>14. ASSUME NEW r \in Requests, FindStage(r) PROVE WellTyped'
  <2>1. /\ pc[r] = "findStage" /\ call[r] \in Calls /\ call[r].stage \in StageIds
        /\ UNCHANGED <<tables, call, held, aged>>
    BY <1>14 DEF FindStage
  <2>2. CASE UNCHANGED status /\ pc' = [pc EXCEPT ![r] = "done"]
    <3>1. answer' \in [Requests -> Answers]
      BY <1>14, <2>1 DEF FindStage
    <3> QED BY <2>1, <2>2, <3>1
  <2>3. CASE /\ stages[call[r].stage] # None
             /\ status' = [status EXCEPT ![r] = StatusAt(r, stages[call[r].stage])]
             /\ Goto(r, "write")
    <3>1. stages[call[r].stage] \in StageRow /\ held[r] \in DealRow
      BY <2>1, <2>3
    <3>2. StatusAt(r, stages[call[r].stage]) \in Status \cup {None}
      BY <2>1, <3>1 DEF StatusAt, Reopened, DealRow, Status
    <3>3. status' \in [Requests -> Status \cup {None}]
      BY <2>3, <3>2
    <3> QED BY <2>1, <2>3, <3>3
  <2>4. \/ UNCHANGED status /\ pc' = [pc EXCEPT ![r] = "done"]
        \/ /\ stages[call[r].stage] # None
           /\ status' = [status EXCEPT ![r] = StatusAt(r, stages[call[r].stage])]
           /\ Goto(r, "write")
    BY <1>14 DEF FindStage, BelongsTo
  <2> QED BY <2>2, <2>3, <2>4
<1>15. ASSUME NEW r \in Requests, WriteDeal(r) PROVE WellTyped'
  <2> DEFINE c == call[r]
             new == [deals[c.deal] EXCEPT !.stage = Given(c.stage, @), !.status = Given(status[r], @)]
  <2>1. c \in Calls /\ c.deal \in DealIds /\ c.stage \in StageIds \cup {None} /\ status[r] \in Status \cup {None}
    BY <1>15 DEF WriteDeal
  <2>2. CASE UNCHANGED deals
    BY <1>15, <2>1, <2>2 DEF WriteDeal, Emptying, MovingDeal, At
  <2>3. CASE deals[c.deal] # None /\ deals' = [deals EXCEPT ![c.deal] = new]
    <3>1. deals[c.deal] \in DealRow
      BY <2>1, <2>3
    <3>2. new \in DealRow
      BY <2>1, <3>1 DEF DealRow, Given
    <3>3. deals' \in [DealIds -> DealRow \cup {None}]
      <4> HIDE DEF new
      <4> QED BY <2>1, <2>3, <3>2
    <3> HIDE DEF new
    <3> QED BY <1>15, <2>1, <3>3 DEF WriteDeal, Emptying, MovingDeal, At
  <2>4. UNCHANGED deals \/ (deals[c.deal] # None /\ deals' = [deals EXCEPT ![c.deal] = new])
    BY <1>15 DEF WriteDeal
  <2> QED BY <2>2, <2>3, <2>4
<1>16. ASSUME NEW r \in Requests, DeleteDeal(r) PROVE WellTyped'
  <2>1. \A gone : Without(deals, gone) \in [DealIds -> DealRow \cup {None}]
    BY WithoutTyped
  <2> QED BY <1>16, <2>1 DEF DeleteDeal
<1>17. CASE UNCHANGED vars
  BY <1>17 DEF vars
<1> QED
  BY <1>1, <1>2, <1>3, <1>4, <1>5, <1>6, <1>7, <1>8, <1>9, <1>10, <1>11, <1>12, <1>13, <1>14,
     <1>15, <1>16, <1>17 DEF Next

-----------------------------------------------------------------------------
(***************************************************************************)
(* Rows that are linked                                                    *)
(***************************************************************************)

\* There is or was such a row.
StageSeen(s) ==
    SeedStages[s] # None
      \/ \E q \in Requests : pc[q] = "done" /\ call[q].kind = "createStage" /\ call[q].stage = s
DealSeen(d) ==
    SeedDeals[d] # None
      \/ \E q \in Requests : pc[q] = "done" /\ call[q].kind = "createDeal" /\ call[q].deal = d

\* Nobody creates a row under the id of another, so a row that is gone stays
\* away and one that is there is the one that was looked at.
FreshIds ==
    /\ \A r \in Requests :
          /\ call[r].kind = "createStage" =>
                /\ SeedStages[call[r].stage] = None
                /\ \A q \in Requests : call[q].kind = "createStage" /\ call[q].stage = call[r].stage => q = r
          /\ call[r].kind = "createDeal" =>
                /\ SeedDeals[call[r].deal] = None
                /\ \A q \in Requests : call[q].kind = "createDeal" /\ call[q].deal = call[r].deal => q = r
    /\ \A s \in StageIds : stages[s] # None => StageSeen(s)
    /\ \A d \in DealIds : deals[d] # None => DealSeen(d)

\* A stage that is in p, if it is there still.
WasIn(s, p) == StageSeen(s) /\ (stages[s] # None => stages[s].pipeline = p)

\* What a request has found of a row that never changes: its pipeline.
FindsStand ==
    \A r \in Requests :
        /\ pc[r] \in {"checkWon", "checkLost", "write"} /\ call[r].kind = "updateStage"
              => WasIn(call[r].stage, held[r].pipeline)
        /\ Doing(r, "write", {"createDeal"}) => WasIn(call[r].stage, call[r].pipeline)
        /\ pc[r] \in {"findStage", "write"} /\ call[r].kind \in MoveKinds =>
              /\ DealSeen(call[r].deal)
              /\ deals[call[r].deal] # None => deals[call[r].deal].pipeline = held[r].pipeline
        /\ Doing(r, "write", MoveKinds) /\ call[r].stage # None
              => WasIn(call[r].stage, held[r].pipeline)

LinkInv == WellTyped /\ FreshIds /\ FindsStand /\ RowsLinked

-----------------------------------------------------------------------------
(***************************************************************************)
(* Checks that stand                                                       *)
(***************************************************************************)

\* What a request has checked holds still, unless it is in "aged": the other
\* pipelines are no defaults, or its own is the default already;
DefaultsStand ==
    \A r \in MakingDefault \ aged :
        \/ Defaults \subseteq {call[r].pipeline}
        \/ /\ call[r].kind = "updatePipeline"
           /\ pipelines[call[r].pipeline] = None \/ call[r].pipeline \in Defaults

\* no other stage closes the pipeline, and the row it read is as it was;
StagesStand ==
    \A r \in Shaping \ aged :
        /\ call[r].kind = "updateStage" => stages[call[r].stage] \in {None, held[r]}
        /\ pc[r] \in {"checkLost", "write"} /\ Asked(r, "won")
              => ~HasOther(PipelineOf(r), call[r].stage, "won")
        /\ pc[r] = "write" /\ Asked(r, "lost")
              => ~HasOther(PipelineOf(r), call[r].stage, "lost")

\* there are no deals in what it is about to delete;
CountsStand ==
    \A r \in At("write", {"removePipeline", "removeStage"}) \ aged : DealsOf(call[r]) = {}

\* the deal is as it was read, and the status is the one for its new stage.
MovesStand ==
    \A r \in Requests \ aged :
        /\ pc[r] \in {"findStage", "write"} /\ call[r].kind = "moveDeal"
              => deals[call[r].deal] \in {None, held[r]}
        /\ Doing(r, "write", {"moveDeal"}) /\ stages[call[r].stage] # None
              => status[r] = StatusAt(r, stages[call[r].stage])

IInv == LinkInv /\ DefaultsStand /\ StagesStand /\ CountsStand /\ MovesStand

-----------------------------------------------------------------------------
(***************************************************************************)
(* What a step leaves alone                                                *)
(***************************************************************************)

\* A request moves by its own steps, is called once, and nothing takes it out
\* of "aged".
Moves(r) ==
    /\ \A q \in Requests \ {r} :
          pc'[q] = pc[q] /\ call'[q] = call[q] /\ held'[q] = held[q] /\ status'[q] = status[q]
    /\ pc[r] # "done" /\ pc'[r] # "idle"
    /\ pc[r] # "idle" => call'[r] = call[r]
    /\ aged \subseteq aged' /\ (r \in aged' => r \in aged)

LEMMA StepMoves == ASSUME WellTyped, NEW r \in Requests, Step(r) PROVE Moves(r)
<1> USE DEF WellTyped, TypeOK, CallOK, Goto, Reply, Fail, Doing, tables, local, Outdate, Moves
<1>1. CASE Start(r) \/ FindPipeline(r) \/ UnsetDefaults(r) \/ WritePipeline(r)
  BY <1>1 DEF Start, FindPipeline, UnsetDefaults, WritePipeline
<1>2. CASE FindForStage(r) \/ CheckWon(r) \/ CheckLost(r) \/ WriteStage(r)
  BY <1>2 DEF FindForStage, CheckWon, CheckLost, Check, WriteStage
<1>3. CASE CountDeals(r) \/ DeletePipeline(r) \/ DeleteStage(r)
  BY <1>3 DEF CountDeals, DeletePipeline, DeleteStage
<1>4. CASE FindForDeal(r) \/ CreateDeal(r) \/ FindDeal(r)
  BY <1>4 DEF FindForDeal, CreateDeal, FindDeal
<1>5. CASE FindStage(r) \/ WriteDeal(r) \/ DeleteDeal(r)
  BY <1>5 DEF FindStage, WriteDeal, DeleteDeal
<1> QED BY <1>1, <1>2, <1>3, <1>4, <1>5 DEF Step

\* What a new call has: an id nobody used.
LEMMA StartFresh ==
    ASSUME WellTyped, NEW r \in Requests, Start(r)
    PROVE  /\ call[r] = NoCall /\ call'[r] \in Calls /\ call' = [call EXCEPT ![r] = call'[r]]
           /\ pc'[r] \notin {"done", "checkWon", "checkLost", "findStage"}
           /\ pc'[r] = "write" => call'[r].kind = "createPipeline" /\ ~call'[r].isDefault
           /\ call'[r].kind = "createStage" =>
                 /\ SeedStages[call'[r].stage] = None
                 /\ \A q \in Requests : call[q].kind = "createStage" => call[q].stage # call'[r].stage
           /\ call'[r].kind = "createDeal" =>
                 /\ SeedDeals[call'[r].deal] = None
                 /\ \A q \in Requests : call[q].kind = "createDeal" => call[q].deal # call'[r].deal
           /\ UNCHANGED <<tables, local, aged>>
<1>1. PICK c \in Calls : /\ c.kind \in Creates => FreshId(c)
                         /\ call' = [call EXCEPT ![r] = c]
                         /\ Goto(r, IF c.kind # "createPipeline" THEN "find"
                                    ELSE IF c.isDefault THEN "unset" ELSE "write")
  BY DEF Start
<1>2. call'[r] = c /\ call[r] = NoCall
  BY <1>1 DEF WellTyped, TypeOK, CallOK, Start
<1>3. /\ pc'[r] \notin {"done", "checkWon", "checkLost", "findStage"}
      /\ pc'[r] = "write" => c.kind = "createPipeline" /\ ~c.isDefault
  BY <1>1, CallFields DEF WellTyped, TypeOK, Goto
<1>4. c.kind = "createStage" =>
        /\ SeedStages[c.stage] = None
        /\ \A q \in Requests : call[q].kind = "createStage" => call[q].stage # c.stage
  BY <1>1 DEF Creates, FreshId
<1>5. c.kind = "createDeal" =>
        /\ SeedDeals[c.deal] = None
        /\ \A q \in Requests : call[q].kind = "createDeal" => call[q].deal # c.deal
  BY <1>1 DEF Creates, FreshId
<1> QED BY <1>1, <1>2, <1>3, <1>4, <1>5 DEF Start

\* The tables and "aged" change in these steps only.
Writes(r) ==
    \/ UnsetDefaults(r) \/ WritePipeline(r) \/ WriteStage(r) \/ DeletePipeline(r) \/ DeleteStage(r)
    \/ CreateDeal(r) \/ WriteDeal(r) \/ DeleteDeal(r)

LEMMA OthersRead ==
    ASSUME NEW r \in Requests, Step(r), ~Writes(r)
    PROVE  UNCHANGED <<tables, aged>>
BY DEF Step, Writes, Start, FindPipeline, FindForStage, CheckWon, CheckLost, Check, CountDeals,
       FindForDeal, FindDeal, FindStage, local

LEMMA StepOrStutter ==
    ASSUME [Next]_vars
    PROVE  (\E r \in Requests : Step(r)) \/ UNCHANGED vars
BY DEF Next, Step

-----------------------------------------------------------------------------
(***************************************************************************)
(* Links, step by step                                                     *)
(***************************************************************************)

\* A row that was seen is there still, in the same pipeline, or gone for good.
StagesKeep ==
    \A s \in StageIds : StageSeen(s) =>
        /\ StageSeen(s)'
        /\ stages'[s] # None => stages[s] # None /\ stages'[s].pipeline = stages[s].pipeline
DealsKeep ==
    \A d \in DealIds : DealSeen(d) =>
        /\ DealSeen(d)'
        /\ deals'[d] # None => deals[d] # None /\ deals'[d].pipeline = deals[d].pipeline

\* The id a creation is about to use was not seen.
LEMMA NotSeen ==
    ASSUME WellTyped, FreshIds, NEW r \in Requests, pc[r] = "write"
    PROVE  /\ call[r].kind = "createStage" => ~StageSeen(call[r].stage) /\ stages[call[r].stage] = None
           /\ call[r].kind = "createDeal" => ~DealSeen(call[r].deal) /\ deals[call[r].deal] = None
<1> USE DEF WellTyped, CallOK
<1>1. call[r] \in Calls
  OBVIOUS
<1>2. call[r].kind = "createStage" => ~StageSeen(call[r].stage) /\ call[r].stage \in StageIds
  BY <1>1, CallFields DEF FreshIds, StageSeen
<1>3. call[r].kind = "createDeal" => ~DealSeen(call[r].deal) /\ call[r].deal \in DealIds
  BY <1>1, CallFields DEF FreshIds, DealSeen
<1> QED BY <1>2, <1>3 DEF FreshIds

LEMMA SeenStays ==
    ASSUME WellTyped, NEW r \in Requests, Step(r)
    PROVE  /\ \A s \in StageIds : StageSeen(s) => StageSeen(s)'
           /\ \A d \in DealIds : DealSeen(d) => DealSeen(d)'
<1>1. \A q \in Requests : pc[q] = "done" => pc'[q] = "done" /\ call'[q] = call[q]
  BY StepMoves DEF Moves
<1> QED BY <1>1 DEF StageSeen, DealSeen

LEMMA StagesKeepStep ==
    ASSUME WellTyped, FreshIds, NEW r \in Requests, Step(r)
    PROVE  StagesKeep
<1> USE DEF WellTyped, TypeOK, CallOK
<1>1. CASE UNCHANGED stages
  BY <1>1, SeenStays DEF StagesKeep
<1>2. CASE WriteStage(r)
  <2>1. call[r] \in Calls /\ call[r].stage \in StageIds /\ pc[r] = "write"
    BY <1>2, CallFields DEF WriteStage, Doing
  <2>2. CASE call[r].kind = "createStage"
    <3>1. \A s \in StageIds : StageSeen(s) => stages'[s] = stages[s]
      BY <1>2, <2>1, <2>2, NotSeen DEF WriteStage, Fail, tables
    <3> QED BY <3>1, SeenStays DEF StagesKeep
  <2>3. CASE call[r].kind = "updateStage"
    <3>1. \A s \in StageIds : stages'[s] # None =>
              stages[s] # None /\ stages'[s].pipeline = stages[s].pipeline
      <4>1. CASE stages[call[r].stage] = None
        BY <1>2, <2>3, <4>1 DEF WriteStage, Fail, tables
      <4>2. CASE stages[call[r].stage] # None
        BY <1>2, <2>1, <2>3, <4>2, StageUpdated
      <4> QED BY <4>1, <4>2
    <3> QED BY <3>1, SeenStays DEF StagesKeep
  <2> QED BY <1>2, <2>2, <2>3 DEF WriteStage, Doing
<1>3. CASE DeletePipeline(r) \/ DeleteStage(r)
  <2>1. \A s \in StageIds : stages'[s] # None => stages'[s] = stages[s]
    BY <1>3 DEF DeletePipeline, DeleteStage, Without, Fail, tables
  <2> QED BY <2>1, SeenStays DEF StagesKeep
<1>4. UNCHANGED stages \/ WriteStage(r) \/ DeletePipeline(r) \/ DeleteStage(r)
  BY OthersRead DEF Writes, tables, UnsetDefaults, WritePipeline, CreateDeal, WriteDeal, DeleteDeal, Fail
<1> QED BY <1>1, <1>2, <1>3, <1>4

LEMMA DealsKeepStep ==
    ASSUME WellTyped, FreshIds, NEW r \in Requests, Step(r)
    PROVE  DealsKeep
<1> USE DEF WellTyped, TypeOK, CallOK
<1>1. CASE UNCHANGED deals
  BY <1>1, SeenStays DEF DealsKeep
<1>2. CASE CreateDeal(r)
  <2>1. call[r] \in Calls /\ call[r].deal \in DealIds /\ pc[r] = "write" /\ call[r].kind = "createDeal"
    BY <1>2, CallFields DEF CreateDeal, Doing
  <2>2. \A d \in DealIds : DealSeen(d) => deals'[d] = deals[d]
    BY <1>2, <2>1, NotSeen DEF CreateDeal, Fail, tables
  <2> QED BY <2>2, SeenStays DEF DealsKeep
<1>3. CASE WriteDeal(r)
  <2>1. \A d \in DealIds : deals'[d] # None =>
            deals[d] # None /\ deals'[d].pipeline = deals[d].pipeline
    BY <1>3 DEF WriteDeal, Fail, tables, DealRow
  <2> QED BY <2>1, SeenStays DEF DealsKeep
<1>4. CASE DeletePipeline(r) \/ DeleteStage(r) \/ DeleteDeal(r)
  <2>1. \A d \in DealIds : deals'[d] # None => deals'[d] = deals[d]
    BY <1>4 DEF DeletePipeline, DeleteStage, DeleteDeal, Without, Fail, tables
  <2> QED BY <2>1, SeenStays DEF DealsKeep
<1>5. \/ UNCHANGED deals \/ CreateDeal(r) \/ WriteDeal(r)
      \/ DeletePipeline(r) \/ DeleteStage(r) \/ DeleteDeal(r)
  BY OthersRead DEF Writes, tables, UnsetDefaults, WritePipeline, WriteStage, Fail
<1> QED BY <1>1, <1>2, <1>3, <1>4, <1>5

LEMMA FreshStep ==
    ASSUME WellTyped, FreshIds, NEW r \in Requests, Step(r)
    PROVE  FreshIds'
<1> USE DEF WellTyped, TypeOK, CallOK
<1>1. /\ \A q \in Requests \ {r} : call'[q] = call[q]
      /\ pc[r] # "idle" => call'[r] = call[r]
  BY StepMoves DEF Moves
<1>2. \A q \in Requests :
          /\ call'[q].kind = "createStage" =>
                /\ SeedStages[call'[q].stage] = None
                /\ \A o \in Requests :
                      call'[o].kind = "createStage" /\ call'[o].stage = call'[q].stage => o = q
          /\ call'[q].kind = "createDeal" =>
                /\ SeedDeals[call'[q].deal] = None
                /\ \A o \in Requests :
                      call'[o].kind = "createDeal" /\ call'[o].deal = call'[q].deal => o = q
  <2>1. CASE Start(r)
    BY <1>1, <2>1, StartFresh DEF FreshIds
  <2>2. CASE ~Start(r)
    <3>1. pc[r] # "idle"
      BY <2>2 DEF Step, FindPipeline, UnsetDefaults, WritePipeline, FindForStage, CheckWon,
         CheckLost, Check, WriteStage, CountDeals, DeletePipeline, DeleteStage, FindForDeal,
         CreateDeal, FindDeal, FindStage, WriteDeal, DeleteDeal, Doing
    <3> QED BY <1>1, <3>1 DEF FreshIds
  <2> QED BY <2>1, <2>2
<1>3. \A s \in StageIds : stages'[s] # None => StageSeen(s)'
  <2>1. ASSUME NEW s \in StageIds, stages'[s] # None, ~StageSeen(s)
        PROVE  StageSeen(s)'
    <3>1. stages[s] = None
      BY <2>1 DEF FreshIds
    <3>2. WriteStage(r)
      BY <2>1, <3>1, OthersRead DEF Writes, tables, UnsetDefaults, WritePipeline, CreateDeal, WriteDeal,
         DeleteDeal, DeletePipeline, DeleteStage, Without, Fail
    <3>3. call[r].kind = "createStage" /\ s = call[r].stage /\ pc'[r] = "done" /\ call'[r] = call[r]
      BY <2>1, <3>1, <3>2, <1>1 DEF WriteStage, Doing, Fail, Reply, tables
    <3> QED BY <3>3 DEF StageSeen
  <2> QED BY <2>1, SeenStays
<1>4. \A d \in DealIds : deals'[d] # None => DealSeen(d)'
  <2>1. ASSUME NEW d \in DealIds, deals'[d] # None, ~DealSeen(d)
        PROVE  DealSeen(d)'
    <3>1. deals[d] = None
      BY <2>1 DEF FreshIds
    <3>2. CreateDeal(r)
      BY <2>1, <3>1, OthersRead DEF Writes, tables, UnsetDefaults, WritePipeline, WriteStage, WriteDeal,
         DeleteDeal, DeletePipeline, DeleteStage, Without, Fail
    <3>3. call[r].kind = "createDeal" /\ d = call[r].deal /\ pc'[r] = "done" /\ call'[r] = call[r]
      BY <2>1, <3>1, <3>2, <1>1 DEF CreateDeal, Doing, Fail, Reply, tables
    <3> QED BY <3>3 DEF DealSeen
  <2> QED BY <2>1, SeenStays
<1> QED BY <1>2, <1>3, <1>4 DEF FreshIds

LEMMA LinkedStep ==
    ASSUME LinkInv, NEW r \in Requests, Step(r)
    PROVE  RowsLinked'
<1> USE DEF LinkInv, WellTyped, TypeOK, CallOK, RowsLinked, Linked
<1>1. pc[r] # "idle" => call[r] \in Calls
  OBVIOUS
<1>2. CASE UNCHANGED tables
  BY <1>2 DEF tables
<1>3. CASE UnsetDefaults(r) \/ WritePipeline(r)
  <2>1. \A p \in PipelineIds : pipelines[p] # None => pipelines'[p] # None
    <3>1. \A b : [isDefault |-> b] # None \/ b \notin BOOLEAN
      BY PipelinesAssumption DEF PipelineRow
    <3>2. CASE UnsetDefaults(r)
      BY <3>1, <3>2 DEF UnsetDefaults
    <3>3. CASE WritePipeline(r)
      <4>1. call[r].isDefault \in BOOLEAN
        BY <3>3, CallFields DEF WritePipeline, Doing
      <4> QED BY <3>1, <3>3, <4>1 DEF WritePipeline, Fail, tables
    <3> QED BY <1>3, <3>2, <3>3
  <2>2. UNCHANGED <<stages, deals>>
    BY <1>3 DEF UnsetDefaults, WritePipeline, Fail, tables
  <2> QED BY <2>1, <2>2 DEF StageRow
<1>4. CASE WriteStage(r)
  <2>1. call[r] \in Calls /\ call[r].stage \in StageIds /\ pc[r] = "write"
    BY <1>4, CallFields DEF WriteStage, Doing
  <2>2. UNCHANGED <<pipelines, deals>>
    BY <1>4 DEF WriteStage, Fail, tables
  <2>3. CASE call[r].kind = "createStage"
    <3>1. stages[call[r].stage] = None
      BY <2>1, <2>3, NotSeen
    <3>2. \A d \in DealIds : deals[d] # None => deals[d].stage # call[r].stage
      BY <3>1
    <3>3. \/ UNCHANGED stages
          \/ /\ pipelines[call[r].pipeline] # None
             /\ stages' = [stages EXCEPT ![call[r].stage] =
                    [pipeline |-> call[r].pipeline, won |-> call[r].won, lost |-> call[r].lost]]
      BY <1>4, <2>3 DEF WriteStage, Fail, tables
    <3> QED BY <2>1, <2>2, <3>2, <3>3 DEF DealRow
  <2>4. CASE call[r].kind = "updateStage"
    <3>1. \A s \in StageIds : stages[s] # None =>
              stages'[s] # None /\ stages'[s].pipeline = stages[s].pipeline
      <4>1. CASE stages[call[r].stage] = None
        BY <1>4, <2>4, <4>1 DEF WriteStage, Fail, tables
      <4>2. CASE stages[call[r].stage] # None
        BY <1>4, <2>1, <2>4, <4>2, StageUpdated, PipelinesAssumption
      <4> QED BY <4>1, <4>2
    <3>2. \A s \in StageIds : stages'[s] # None => stages[s] # None
      BY <1>4, <2>1, <2>4 DEF WriteStage, Fail, tables
    <3> QED BY <2>2, <3>1, <3>2 DEF DealRow
  <2> QED BY <1>4, <2>3, <2>4 DEF WriteStage, Doing
<1>5. CASE DeletePipeline(r) /\ ~UNCHANGED tables
  <2>1. call[r] \in Calls /\ call[r].pipeline \in PipelineIds
    BY <1>5, CallFields DEF DeletePipeline, Doing
  <2> DEFINE p == call[r].pipeline
             ss == {s \in StageIds : stages[s] # None /\ stages[s].pipeline = p}
             ds == DealsIn(p) \cup UNION {DealsAt(s) : s \in ss}
  <2>2. /\ pipelines' = Without(pipelines, {p}) /\ stages' = Without(stages, ss)
        /\ deals' = Without(deals, ds)
    BY <1>5 DEF DeletePipeline, Fail
  <2>3. /\ \A q \in PipelineIds : pipelines'[q] = IF q = p THEN None ELSE pipelines[q]
        /\ \A s \in StageIds : stages'[s] = IF s \in ss THEN None ELSE stages[s]
        /\ \A d \in DealIds : deals'[d] = IF d \in ds THEN None ELSE deals[d]
    BY <2>2 DEF Without
  <2>4. \A d \in DealIds : deals[d] # None /\ deals[d].stage \in ss => d \in ds
    BY DEF DealsAt
  <2> HIDE DEF ds
  <2> QED BY <2>3, <2>4 DEF DealRow, StageRow
<1>6. CASE DeleteStage(r) /\ ~UNCHANGED tables
  <2>1. call[r] \in Calls /\ call[r].stage \in StageIds
    BY <1>6, CallFields DEF DeleteStage, Doing
  <2> DEFINE s0 == call[r].stage
  <2>2. pipelines' = pipelines /\ stages' = Without(stages, {s0}) /\ deals' = Without(deals, DealsAt(s0))
    BY <1>6 DEF DeleteStage, Fail
  <2>3. /\ \A s \in StageIds : stages'[s] = IF s = s0 THEN None ELSE stages[s]
        /\ \A d \in DealIds : deals'[d] = IF d \in DealsAt(s0) THEN None ELSE deals[d]
    BY <2>2 DEF Without
  <2>4. \A d \in DealIds : deals[d] # None => d \in DealsAt(s0) \/ deals[d].stage \in StageIds \ {s0}
    BY DEF DealsAt, DealRow
  <2>5. \A s \in StageIds : stages'[s] # None => pipelines'[stages'[s].pipeline] # None
    BY <2>2, <2>3
  <2>6. ASSUME NEW d \in DealIds, deals'[d] # None
        PROVE  /\ deals'[d] = deals[d] /\ deals[d] # None /\ deals[d].stage \in StageIds \ {s0}
               /\ stages'[deals[d].stage] = stages[deals[d].stage]
    BY <2>3, <2>4, <2>6
  <2> QED BY <2>5, <2>6
<1>7. CASE CreateDeal(r) /\ ~UNCHANGED tables
  <2>1. call[r] \in Calls /\ call[r].deal \in DealIds /\ call[r].stage \in StageIds
    BY <1>7, CallFields DEF CreateDeal, Doing
  <2>2. /\ stages[call[r].stage] # None
        /\ deals' = [deals EXCEPT ![call[r].deal] =
               [pipeline |-> call[r].pipeline, stage |-> call[r].stage, status |-> call[r].status]]
        /\ UNCHANGED <<pipelines, stages>>
    BY <1>7 DEF CreateDeal, Fail
  <2>3. stages[call[r].stage].pipeline = call[r].pipeline
    BY <1>7, <2>2 DEF CreateDeal, FindsStand, WasIn
  <2> QED BY <2>1, <2>2, <2>3
<1>8. CASE WriteDeal(r) /\ ~UNCHANGED tables
  <2>1. call[r] \in Calls /\ call[r].deal \in DealIds /\ call[r].stage \in StageIds \cup {None}
    BY <1>8, CallFields DEF WriteDeal, Doing
  <2> DEFINE d0 == call[r].deal
  <2>2. /\ deals[d0] # None
        /\ call[r].stage # None => stages[call[r].stage] # None
        /\ deals' = [deals EXCEPT ![d0].stage = Given(call[r].stage, @),
                                  ![d0].status = Given(status[r], @)]
        /\ UNCHANGED <<pipelines, stages>>
    BY <1>8 DEF WriteDeal, Fail
  <2>3. deals[d0] \in DealRow
    BY <2>1, <2>2
  <2>4. /\ deals'[d0].pipeline = deals[d0].pipeline
        /\ deals'[d0].stage = Given(call[r].stage, deals[d0].stage)
        /\ \A d \in DealIds \ {d0} : deals'[d] = deals[d]
    BY <2>1, <2>2, <2>3 DEF DealRow
  <2>5. call[r].stage # None => stages[call[r].stage].pipeline = deals[d0].pipeline
    BY <1>8, <2>2 DEF WriteDeal, Doing, FindsStand, WasIn, MoveKinds
  <2>6. ASSUME NEW d \in DealIds, deals'[d] # None
        PROVE  stages[deals'[d].stage] # None /\ stages[deals'[d].stage].pipeline = deals'[d].pipeline
    <3>1. CASE d # d0
      BY <2>4, <2>6, <3>1
    <3>2. CASE d = d0 /\ call[r].stage = None
      BY <2>1, <2>2, <2>4, <3>2 DEF Given
    <3>3. CASE d = d0 /\ call[r].stage # None
      BY <2>1, <2>2, <2>4, <2>5, <3>3 DEF Given
    <3> QED BY <3>1, <3>2, <3>3
  <2> QED BY <2>2, <2>6
<1>9. CASE DeleteDeal(r) /\ ~UNCHANGED tables
  <2>1. /\ deals' = Without(deals, {call[r].deal})
        /\ UNCHANGED <<pipelines, stages>>
    BY <1>9 DEF DeleteDeal, Fail
  <2>2. \A d \in DealIds : deals'[d] # None => deals'[d] = deals[d]
    BY <2>1 DEF Without
  <2> QED BY <2>1, <2>2
<1> QED
  BY <1>2, <1>3, <1>4, <1>5, <1>6, <1>7, <1>8, <1>9, OthersRead DEF Writes

LEMMA FindsStep ==
    ASSUME LinkInv, NEW r \in Requests, Step(r), RowsLinked'
    PROVE  FindsStand'
<1> USE DEF LinkInv, WellTyped, TypeOK, CallOK, MoveKinds, StageKinds, Doing
<1>1. StagesKeep /\ DealsKeep /\ Moves(r)
  BY StagesKeepStep, DealsKeepStep, StepMoves
<1>2. \A s \in StageIds : \A p : WasIn(s, p) => WasIn(s, p)'
  BY <1>1 DEF StagesKeep, WasIn
<1>3. \A s \in StageIds : stages[s] # None => WasIn(s, stages[s].pipeline)
  BY DEF FreshIds, WasIn
<1>4. \A d \in DealIds : deals[d] # None => DealSeen(d)
  BY DEF FreshIds
<1>5. ASSUME NEW q \in Requests, UNCHANGED <<call[q], held[q]>>,
             pc[q] \in {"checkWon", "checkLost", "write"} /\ call[q].kind = "updateStage"
      PROVE  WasIn(call[q].stage, held[q].pipeline)'
  <2>1. call[q].stage \in StageIds
    BY <1>5, CallFields
  <2> QED BY <1>2, <1>5, <2>1 DEF FindsStand
<1>6. ASSUME NEW q \in Requests, UNCHANGED <<call[q], held[q]>>, pc[q] = "write", call[q].kind = "createDeal"
      PROVE  WasIn(call[q].stage, call[q].pipeline)'
  <2>1. call[q].stage \in StageIds
    BY <1>6, CallFields
  <2> QED BY <1>2, <1>6, <2>1 DEF FindsStand
<1>7. ASSUME NEW q \in Requests, UNCHANGED <<call[q], held[q]>>,
             pc[q] \in {"findStage", "write"}, call[q].kind \in MoveKinds
      PROVE  /\ DealSeen(call[q].deal)'
             /\ deals'[call'[q].deal] # None => deals'[call'[q].deal].pipeline = held'[q].pipeline
  <2>1. call[q].deal \in DealIds
    BY <1>7, CallFields
  <2> QED BY <1>1, <1>7, <2>1 DEF FindsStand, DealsKeep
<1>8. ASSUME NEW q \in Requests, UNCHANGED <<call[q], held[q]>>,
             pc[q] = "write", call[q].kind \in MoveKinds, call[q].stage # None
      PROVE  WasIn(call[q].stage, held[q].pipeline)'
  <2>1. call[q].stage \in StageIds
    BY <1>8, CallFields
  <2> QED BY <1>2, <1>8, <2>1 DEF FindsStand
<1> DEFINE Stand(q) ==
        /\ pc'[q] \in {"checkWon", "checkLost", "write"} /\ call'[q].kind = "updateStage"
              => WasIn(call[q].stage, held[q].pipeline)'
        /\ pc'[q] = "write" /\ call'[q].kind = "createDeal" => WasIn(call[q].stage, call[q].pipeline)'
        /\ pc'[q] \in {"findStage", "write"} /\ call'[q].kind \in MoveKinds =>
              /\ DealSeen(call[q].deal)'
              /\ deals'[call'[q].deal] # None => deals'[call'[q].deal].pipeline = held'[q].pipeline
        /\ pc'[q] = "write" /\ call'[q].kind \in MoveKinds /\ call'[q].stage # None
              => WasIn(call[q].stage, held[q].pipeline)'
<1>9. ASSUME NEW q \in Requests \ {r} PROVE Stand(q)
  <2>1. UNCHANGED <<pc[q], call[q], held[q]>>
    BY <1>1 DEF Moves
  <2> QED BY <1>5, <1>6, <1>7, <1>8, <2>1
<1>10. Stand(r)
  <2>1. CASE Start(r)
    BY <2>1, StartFresh
  <2>2. CASE ~Start(r) /\ pc'[r] = "done"
    BY <2>2
  <2>3. CASE FindPipeline(r) \/ UnsetDefaults(r) \/ CountDeals(r)
    <3>1. call'[r] = call[r] /\ call[r].kind \notin MoveKinds \cup {"updateStage", "createDeal"}
      BY <2>3 DEF FindPipeline, UnsetDefaults, CountDeals
    <3> QED BY <3>1
  <2>4. CASE FindForStage(r) /\ pc'[r] # "done"
    <3>1. /\ call'[r] = call[r] /\ call[r].kind \in StageKinds \cup {"removeStage"}
          /\ call[r].kind = "updateStage" => stages[call[r].stage] # None /\ held'[r] = stages[call[r].stage]
      BY <2>4 DEF FindForStage, Goto, Reply
    <3>2. call[r].stage \in StageIds
      BY <2>4, <3>1, CallFields DEF FindForStage
    <3>3. call[r].kind = "updateStage" => WasIn(call[r].stage, held[r].pipeline)'
      BY <1>2, <1>3, <3>1, <3>2
    <3> QED BY <3>1, <3>3
  <2>5. CASE CheckWon(r) \/ CheckLost(r)
    <3>1. /\ call'[r] = call[r] /\ held'[r] = held[r] /\ call[r].kind \in StageKinds
          /\ pc[r] \in {"checkWon", "checkLost"}
      BY <2>5 DEF CheckWon, CheckLost, Check, local
    <3> QED BY <1>5, <3>1
  <2>6. CASE FindForDeal(r) /\ pc'[r] # "done"
    <3>1. /\ call'[r] = call[r] /\ call[r].kind = "createDeal" /\ pc[r] # "idle"
          /\ BelongsTo(call[r].stage, call[r].pipeline)
      BY <2>6 DEF FindForDeal, Goto, Reply
    <3>2. call[r].stage \in StageIds
      BY <3>1, CallFields
    <3> QED BY <1>2, <1>3, <3>1, <3>2 DEF BelongsTo
  <2>7. CASE FindDeal(r) /\ pc'[r] # "done"
    <3>1. /\ call'[r] = call[r] /\ call[r].kind \in MoveKinds \cup {"removeDeal"} /\ pc[r] = "find"
          /\ deals[call[r].deal] # None /\ held'[r] = deals[call[r].deal]
          /\ pc'[r] = "write" /\ call[r].kind \in MoveKinds => call[r].stage \in {None, held'[r].stage}
      BY <2>7 DEF FindDeal, Goto, Reply
    <3>2. call[r].deal \in DealIds
      BY <3>1, CallFields
    <3>3. /\ DealSeen(call[r].deal)'
          /\ deals'[call'[r].deal] # None => deals'[call'[r].deal].pipeline = held'[r].pipeline
      BY <1>1, <1>4, <3>1, <3>2 DEF DealsKeep
    <3>4. pc'[r] = "write" /\ call[r].kind \in MoveKinds /\ call[r].stage # None
            => WasIn(call[r].stage, held[r].pipeline)'
      <4>1. held'[r] \in DealRow
        BY <3>1, <3>2
      <4>2. /\ held'[r].stage \in StageIds /\ stages[held'[r].stage] # None
            /\ stages[held'[r].stage].pipeline = held'[r].pipeline
        BY <3>1, <3>2, <4>1 DEF RowsLinked, Linked, DealRow
      <4>3. WasIn(held'[r].stage, held'[r].pipeline)
        BY <1>3, <4>2
      <4>4. pc'[r] = "write" /\ call[r].kind \in MoveKinds /\ call[r].stage # None
              => call[r].stage = held'[r].stage
        BY <3>1
      <4> QED BY <1>2, <3>1, <4>2, <4>3, <4>4
    <3> QED BY <3>1, <3>3, <3>4
  <2>8. CASE FindStage(r) /\ pc'[r] # "done"
    <3>1. /\ call'[r] = call[r] /\ held'[r] = held[r] /\ pc[r] = "findStage"
          /\ call[r].kind \in MoveKinds /\ call[r].stage \in StageIds
          /\ BelongsTo(call[r].stage, held[r].pipeline)
      BY <2>8 DEF FindStage, Goto, Reply
    <3>2. WasIn(call[r].stage, held[r].pipeline)'
      BY <1>2, <1>3, <3>1 DEF BelongsTo
    <3> QED BY <1>7, <3>1, <3>2
  <2>9. CASE WritePipeline(r) \/ WriteStage(r) \/ DeletePipeline(r) \/ DeleteStage(r)
    BY <2>2, <2>9 DEF WritePipeline, WriteStage, DeletePipeline, DeleteStage, Fail, Reply
  <2>10. CASE CreateDeal(r) \/ WriteDeal(r) \/ DeleteDeal(r)
    BY <2>2, <2>10 DEF CreateDeal, WriteDeal, DeleteDeal, Fail, Reply
  <2> QED BY <2>1, <2>2, <2>3, <2>4, <2>5, <2>6, <2>7, <2>8, <2>9, <2>10 DEF Step
<1> QED BY <1>9, <1>10 DEF FindsStand

LEMMA LinkInit == Init => LinkInv
<1> SUFFICES ASSUME Init PROVE LinkInv
  OBVIOUS
<1>1. FreshIds
  BY DEF Init, FreshIds, StageSeen, DealSeen, NoCall
<1>2. FindsStand
  BY DEF Init, FindsStand, Doing
<1> QED BY <1>1, <1>2, TypedInit, PipelinesAssumption DEF Init, LinkInv, RowsLinked

LEMMA LinkStep == LinkInv /\ [Next]_vars => LinkInv'
<1> SUFFICES ASSUME LinkInv, [Next]_vars PROVE LinkInv'
  OBVIOUS
<1>1. WellTyped'
  BY TypedStep DEF LinkInv
<1>2. ASSUME NEW r \in Requests, Step(r) PROVE LinkInv'
  BY <1>1, <1>2, FreshStep, LinkedStep, FindsStep DEF LinkInv
<1>3. CASE UNCHANGED vars
  <2>1. FreshIds'
    BY <1>3 DEF LinkInv, vars, FreshIds, StageSeen, DealSeen
  <2>2. FindsStand'
    BY <1>3 DEF LinkInv, vars, FindsStand, WasIn, StageSeen, DealSeen, Doing
  <2>3. RowsLinked'
    BY <1>3 DEF LinkInv, vars, RowsLinked
  <2> QED BY <1>1, <2>1, <2>2, <2>3 DEF LinkInv
<1> QED BY <1>2, <1>3, StepOrStutter

\* Every variable of Pipelines keeps its type.
THEOREM TypeCorrect == Spec => []TypeOK
<1>1. Spec => []LinkInv
  BY LinkInit, LinkStep, PTL DEF Spec
<1> QED BY <1>1, PTL DEF LinkInv, WellTyped

\* A deal is at a stage of its own pipeline, whatever was moved or removed
\* between the look-ups of a request and its write (deals.service.ts).
THEOREM LinksHold == Spec => []RowsLinked
<1>1. Spec => []LinkInv
  BY LinkInit, LinkStep, PTL DEF Spec
<1> QED BY <1>1, PTL DEF LinkInv

-----------------------------------------------------------------------------
(***************************************************************************)
(* Checks, step by step                                                    *)
(***************************************************************************)

LEMMA DefaultsStep ==
    ASSUME LinkInv, DefaultsStand, NEW r \in Requests, Step(r)
    PROVE  DefaultsStand'
<1> USE DEF LinkInv, WellTyped, TypeOK, CallOK, Doing, MakingDefault, At
<1>1. Moves(r)
  BY StepMoves
<1> SUFFICES ASSUME NEW q \in MakingDefault' \ aged'
             PROVE  \/ Defaults' \subseteq {call'[q].pipeline}
                    \/ /\ call'[q].kind = "updatePipeline"
                       /\ pipelines'[call'[q].pipeline] = None \/ call'[q].pipeline \in Defaults'
  BY DEF DefaultsStand
<1>2. q \in Requests /\ pc'[q] = "write" /\ call'[q].kind \in {"createPipeline", "updatePipeline"}
      /\ call'[q].isDefault
  OBVIOUS
<1> DEFINE p == call[q].pipeline
<1>3. CASE q # r
  <2>1. q \in MakingDefault \ aged /\ call'[q] = call[q] /\ p \in PipelineIds
    BY <1>1, <1>2, <1>3, CallFields DEF Moves
  <2>2. \/ Defaults \subseteq {p}
        \/ call[q].kind = "updatePipeline" /\ (pipelines[p] = None \/ p \in Defaults)
    BY <2>1 DEF DefaultsStand
  <2>3. CASE UNCHANGED pipelines
    BY <2>1, <2>2, <2>3 DEF Defaults
  <2>4. CASE Defaults' \subseteq Defaults /\ (pipelines'[p] = pipelines[p] \/ pipelines'[p] = None)
    BY <2>1, <2>2, <2>4 DEF Defaults
  <2>5. CASE UnsetDefaults(r)
    <3>1. Defaults' \subseteq Defaults
      BY <2>5 DEF UnsetDefaults, Defaults
    <3>2. p \notin Others(call[r].pipeline) \cap Defaults
      BY <1>3, <2>1, <2>5 DEF UnsetDefaults, Outdate, MakingItDefault
    <3>3. p \in Defaults => p \in Defaults'
      BY <2>1, <2>5, <3>2 DEF UnsetDefaults, Defaults
    <3>4. pipelines[p] = None => pipelines'[p] = None
      BY <2>1, <2>5 DEF UnsetDefaults, Others
    <3> QED BY <2>1, <2>2, <3>1, <3>3, <3>4
  <2>6. CASE WritePipeline(r) /\ ~UNCHANGED pipelines
    <3>1. /\ call[r] \in Calls /\ call[r].pipeline \in PipelineIds /\ call[r].isDefault \in BOOLEAN
      BY <2>6, CallFields DEF WritePipeline
    <3>2. /\ pipelines' = [pipelines EXCEPT ![call[r].pipeline] = [isDefault |-> call[r].isDefault]]
          /\ Outdate(r, IF call[r].isDefault THEN MakingDefault ELSE MakingItDefault({call[r].pipeline}))
      BY <2>6 DEF WritePipeline, Fail, tables
    <3>3. ~call[r].isDefault /\ p # call[r].pipeline
      BY <1>3, <2>1, <3>1, <3>2 DEF Outdate, MakingItDefault
    <3>4. Defaults' \subseteq Defaults /\ pipelines'[p] = pipelines[p]
      BY <2>1, <3>1, <3>2, <3>3 DEF Defaults
    <3> QED BY <2>4, <3>4
  <2>7. CASE DeletePipeline(r) /\ ~UNCHANGED pipelines
    <3>1. pipelines' = Without(pipelines, {call[r].pipeline})
      BY <2>7 DEF DeletePipeline, Fail, tables
    <3>2. Defaults' \subseteq Defaults /\ (pipelines'[p] = pipelines[p] \/ pipelines'[p] = None)
      BY <2>1, <3>1 DEF Defaults, Without
    <3> QED BY <2>4, <3>2
  <2>8. UNCHANGED pipelines \/ UnsetDefaults(r) \/ WritePipeline(r) \/ DeletePipeline(r)
    BY OthersRead DEF Writes, tables, WriteStage, CreateDeal, WriteDeal, DeleteDeal, DeleteStage, Fail
  <2> QED BY <2>3, <2>5, <2>6, <2>7, <2>8
<1>4. CASE q = r
  <2>1. CASE Start(r)
    BY <1>2, <1>4, <2>1, StartFresh
  <2>2. CASE FindPipeline(r)
    <3>1. /\ call'[r] = call[r] /\ call[r].kind = "updatePipeline" /\ pipelines' = pipelines
          /\ pipelines[call[r].pipeline] # None /\ pipelines[call[r].pipeline].isDefault
          /\ pc[r] # "idle"
      BY <1>2, <1>4, <2>2 DEF FindPipeline, Goto, Reply, tables
    <3>2. call[r].pipeline \in PipelineIds
      BY <3>1, CallFields
    <3> QED BY <1>4, <3>1, <3>2 DEF Defaults
  <2>3. CASE UnsetDefaults(r)
    BY <1>4, <2>3 DEF UnsetDefaults, Defaults, Others
  <2>4. CASE FindForStage(r) \/ CheckWon(r) \/ CheckLost(r) \/ CountDeals(r)
    BY <1>2, <1>4, <2>4 DEF FindForStage, CheckWon, CheckLost, Check, CountDeals, StageKinds
  <2>5. CASE FindForDeal(r) \/ FindDeal(r) \/ FindStage(r)
    BY <1>2, <1>4, <2>5 DEF FindForDeal, FindDeal, FindStage, MoveKinds
  <2>6. CASE WritePipeline(r) \/ WriteStage(r) \/ DeletePipeline(r) \/ DeleteStage(r)
    BY <1>2, <1>4, <2>6 DEF WritePipeline, WriteStage, DeletePipeline, DeleteStage, Fail, Reply
  <2>7. CASE CreateDeal(r) \/ WriteDeal(r) \/ DeleteDeal(r)
    BY <1>2, <1>4, <2>7 DEF CreateDeal, WriteDeal, DeleteDeal, Fail, Reply
  <2> QED BY <2>1, <2>2, <2>3, <2>4, <2>5, <2>6, <2>7 DEF Step
<1> QED BY <1>3, <1>4

\* A write of a stage outdates those that rely on what it changes.
LEMMA StageWriteOutdates ==
    ASSUME LinkInv, NEW r \in Requests, WriteStage(r), ~UNCHANGED stages
    PROVE  LET s == call[r].stage
           IN  /\ s \in StageIds /\ stages'[s] \in StageRow
               /\ \A t \in StageIds \ {s} : stages'[t] = stages[t]
               /\ \A q \in Requests \ {r} :
                     /\ q \in Shaping /\ call[q].stage = s => q \in aged'
                     /\ q \in ShapingStages(stages'[s].pipeline) /\ (stages'[s].won \/ stages'[s].lost)
                           => q \in aged'
                     /\ q \in MovingTo(s) => q \in aged'
<1> USE DEF LinkInv, WellTyped, TypeOK, CallOK, Doing
<1> DEFINE s == call[r].stage
<1>1. call[r] \in Calls /\ s \in StageIds /\ call[r].kind \in {"createStage", "updateStage"}
  BY CallFields DEF WriteStage
<1>2. /\ stages'[s] \in StageRow
      /\ \A t \in StageIds \ {s} : stages'[t] = stages[t]
  <2>1. CASE call[r].kind = "updateStage"
    <3>1. stages[s] # None
      BY <2>1 DEF WriteStage, Fail, tables
    <3> QED BY <2>1, <3>1, StageUpdated
  <2>2. CASE call[r].kind = "createStage"
    <3>1. stages' = [stages EXCEPT ![s] =
              [pipeline |-> call[r].pipeline, won |-> call[r].won, lost |-> call[r].lost]]
      BY <2>2 DEF WriteStage, Fail, tables
    <3> QED BY <1>1, <2>2, <3>1, CallFields DEF StageRow
  <2> QED BY <1>1, <2>1, <2>2
<1>3. Outdate(r, (IF stages'[s].won \/ stages'[s].lost THEN ShapingStages(stages'[s].pipeline) ELSE {})
                   \cup {q \in Shaping : call[q].stage = s} \cup MovingTo(s))
  BY <1>1 DEF WriteStage, Fail, tables
<1> QED BY <1>1, <1>2, <1>3 DEF Outdate

LEMMA StagesStep ==
    ASSUME LinkInv, StagesStand, NEW r \in Requests, Step(r)
    PROVE  StagesStand'
<1> USE DEF LinkInv, WellTyped, TypeOK, CallOK, Doing, Is
<1>1. Moves(r)
  BY StepMoves
<1> DEFINE Stand(q) ==
        /\ call[q].kind = "updateStage" => stages[call[q].stage] \in {None, held[q]}
        /\ pc[q] \in {"checkLost", "write"} /\ Asked(q, "won")
              => ~HasOther(PipelineOf(q), call[q].stage, "won")
        /\ pc[q] = "write" /\ Asked(q, "lost")
              => ~HasOther(PipelineOf(q), call[q].stage, "lost")
<1> SUFFICES ASSUME NEW q \in Shaping' \ aged' PROVE Stand(q)'
  BY DEF StagesStand
<1>2. /\ q \in Requests /\ call'[q].kind \in {"createStage", "updateStage"}
      /\ pc'[q] \in {"checkWon", "checkLost", "write"}
  BY DEF Shaping
<1>3. CASE q # r
  <2>1. /\ q \in Shaping \ aged /\ UNCHANGED <<pc[q], call[q], held[q]>>
    BY <1>1, <1>2, <1>3 DEF Moves, Shaping
  <2>2. Stand(q) /\ call[q].stage \in StageIds
    BY <1>2, <2>1, CallFields DEF StagesStand
  <2>3. /\ PipelineOf(q)' = PipelineOf(q)
        /\ Asked(q, "won")' = Asked(q, "won") /\ Asked(q, "lost")' = Asked(q, "lost")
    BY <2>1 DEF PipelineOf, Asked
  <2>4. CASE \A s \in StageIds : stages'[s] \in {None, stages[s]}
    <3>1. \A p, s, flag : HasOther(p, s, flag)' => HasOther(p, s, flag)
      BY <2>4 DEF HasOther
    <3> QED BY <2>1, <2>2, <2>3, <2>4, <3>1
  <2>5. CASE WriteStage(r) /\ ~UNCHANGED stages
    <3> DEFINE s == call[r].stage
    <3>1. /\ s \in StageIds /\ stages'[s] \in StageRow
          /\ \A t \in StageIds \ {s} : stages'[t] = stages[t]
          /\ call[q].stage # s
          /\ ~(q \in ShapingStages(stages'[s].pipeline) /\ (stages'[s].won \/ stages'[s].lost))
      <4>1. q \in Requests \ {r} /\ q \notin aged' /\ q \in Shaping
        BY <1>2, <1>3, <2>1
      <4>2. /\ s \in StageIds /\ stages'[s] \in StageRow
            /\ \A t \in StageIds \ {s} : stages'[t] = stages[t]
            /\ q \in Shaping /\ call[q].stage = s => q \in aged'
            /\ q \in ShapingStages(stages'[s].pipeline) /\ (stages'[s].won \/ stages'[s].lost)
                  => q \in aged'
        BY <2>5, <4>1, StageWriteOutdates
      <4> QED BY <4>1, <4>2
    <3>2. stages'[s].pipeline = PipelineOf(q) => ~stages'[s].won /\ ~stages'[s].lost
      BY <2>1, <3>1 DEF ShapingStages
    <3>3. HasOther(PipelineOf(q), call[q].stage, "won")' => HasOther(PipelineOf(q), call[q].stage, "won")
      BY <2>1, <2>3, <3>1, <3>2 DEF HasOther
    <3>4. HasOther(PipelineOf(q), call[q].stage, "lost")' => HasOther(PipelineOf(q), call[q].stage, "lost")
      BY <2>1, <2>3, <3>1, <3>2 DEF HasOther
    <3> QED BY <2>1, <2>2, <2>3, <3>1, <3>3, <3>4
  <2>6. CASE DeletePipeline(r) \/ DeleteStage(r)
    <3>1. \A s \in StageIds : stages'[s] \in {None, stages[s]}
      BY <2>6 DEF DeletePipeline, DeleteStage, Without, Fail, tables
    <3> QED BY <2>4, <3>1
  <2>7. UNCHANGED stages \/ WriteStage(r) \/ DeletePipeline(r) \/ DeleteStage(r)
    BY OthersRead DEF Writes, tables, UnsetDefaults, WritePipeline, CreateDeal, WriteDeal, DeleteDeal, Fail
  <2> QED BY <2>4, <2>5, <2>6, <2>7
<1>4. CASE q = r
  <2>1. CASE FindForStage(r)
    <3>1. /\ pc'[r] = "checkWon"
          /\ call'[r].kind = "updateStage" => stages'[call'[r].stage] = held'[r]
      BY <1>2, <1>4, <2>1 DEF FindForStage, Goto, Reply, tables
    <3> QED BY <1>4, <3>1
  <2>2. CASE CheckWon(r)
    <3>1. /\ q \in Shaping \ aged /\ UNCHANGED <<call, held, stages>> /\ pc'[r] = "checkLost"
          /\ Asked(r, "won") => ~HasOther(PipelineOf(r), call[r].stage, "won")
      BY <1>2, <1>4, <2>2 DEF CheckWon, Check, Goto, Reply, tables, local, Shaping
    <3> QED BY <1>4, <3>1 DEF StagesStand, Asked, HasOther, PipelineOf
  <2>3. CASE CheckLost(r)
    <3>1. /\ q \in Shaping \ aged /\ UNCHANGED <<call, held, stages>> /\ pc'[r] = "write"
          /\ pc[r] = "checkLost"
          /\ Asked(r, "lost") => ~HasOther(PipelineOf(r), call[r].stage, "lost")
      BY <1>2, <1>4, <2>3 DEF CheckLost, Check, Goto, Reply, tables, local, Shaping
    <3> QED BY <1>4, <3>1 DEF StagesStand, Asked, HasOther, PipelineOf
  <2>4. CASE Start(r) \/ FindPipeline(r) \/ UnsetDefaults(r) \/ CountDeals(r)
    BY <1>2, <1>4, <2>4, StartFresh DEF FindPipeline, UnsetDefaults, CountDeals, Goto
  <2>5. CASE FindForDeal(r) \/ FindDeal(r) \/ FindStage(r)
    BY <1>2, <1>4, <2>5 DEF FindForDeal, FindDeal, FindStage, MoveKinds
  <2>6. CASE WritePipeline(r) \/ WriteStage(r) \/ DeletePipeline(r) \/ DeleteStage(r)
    BY <1>2, <1>4, <2>6 DEF WritePipeline, WriteStage, DeletePipeline, DeleteStage, Fail, Reply
  <2>7. CASE CreateDeal(r) \/ WriteDeal(r) \/ DeleteDeal(r)
    BY <1>2, <1>4, <2>7 DEF CreateDeal, WriteDeal, DeleteDeal, Fail, Reply
  <2> QED BY <2>1, <2>2, <2>3, <2>4, <2>5, <2>6, <2>7 DEF Step
<1> QED BY <1>3, <1>4

LEMMA CountsStep ==
    ASSUME LinkInv, CountsStand, NEW r \in Requests, Step(r)
    PROVE  CountsStand'
<1> USE DEF LinkInv, WellTyped, TypeOK, CallOK, Doing, At
<1>1. Moves(r)
  BY StepMoves
<1> SUFFICES ASSUME NEW q \in At("write", {"removePipeline", "removeStage"})' \ aged'
             PROVE  DealsOf(call[q])' = {}
  BY DEF CountsStand
<1>2. q \in Requests /\ pc'[q] = "write" /\ call'[q].kind \in {"removePipeline", "removeStage"}
  OBVIOUS
<1>3. CASE q # r
  <2>1. q \in At("write", {"removePipeline", "removeStage"}) \ aged /\ UNCHANGED call[q]
    BY <1>1, <1>2, <1>3 DEF Moves
  <2>2. DealsOf(call[q]) = {}
    BY <2>1 DEF CountsStand
  <2> DEFINE Of(row) == \/ call[q].kind = "removePipeline" /\ row.pipeline = call[q].pipeline
                        \/ call[q].kind = "removeStage" /\ row.stage = call[q].stage
  <2>3. \A d \in DealIds : deals[d] # None => ~Of(deals[d])
    BY <1>2, <2>1, <2>2 DEF DealsOf, DealsIn, DealsAt
  <2>4. SUFFICES \A d \in DealIds : deals'[d] # None => ~Of(deals'[d])
    BY <1>2, <2>1, <2>4 DEF DealsOf, DealsIn, DealsAt
  <2>5. CASE \A d \in DealIds : deals'[d] \in {None, deals[d]}
    BY <2>3, <2>5
  <2>6. CASE CreateDeal(r) /\ ~UNCHANGED deals
    <3>1. /\ deals' = [deals EXCEPT ![call[r].deal] =
                 [pipeline |-> call[r].pipeline, stage |-> call[r].stage, status |-> call[r].status]]
          /\ Outdate(r, Emptying(call[r].pipeline, call[r].stage))
      BY <2>6 DEF CreateDeal, Fail, tables
    <3>2. q \notin Emptying(call[r].pipeline, call[r].stage)
      BY <1>3, <3>1 DEF Outdate
    <3>3. ~Of([pipeline |-> call[r].pipeline, stage |-> call[r].stage, status |-> call[r].status])
      BY <1>2, <2>1, <3>2 DEF Emptying
    <3> QED BY <2>3, <3>1, <3>3
  <2>7. CASE WriteDeal(r) /\ ~UNCHANGED deals
    <3> DEFINE d0 == call[r].deal
    <3>1. /\ deals[d0] # None
          /\ deals' = [deals EXCEPT ![d0].stage = Given(call[r].stage, @),
                                    ![d0].status = Given(status[r], @)]
          /\ Outdate(r, Emptying(None, call[r].stage) \cup MovingDeal(call[r].deal))
      BY <2>7 DEF WriteDeal, Fail, tables
    <3>2. call[r] \in Calls /\ d0 \in DealIds /\ deals[d0] \in DealRow
      BY <2>7, <3>1, CallFields DEF WriteDeal
    <3>3. /\ deals'[d0].pipeline = deals[d0].pipeline
          /\ deals'[d0].stage = Given(call[r].stage, deals[d0].stage)
          /\ \A d \in DealIds \ {d0} : deals'[d] = deals[d]
      BY <3>1, <3>2 DEF DealRow
    <3>4. q \notin Emptying(None, call[r].stage)
      BY <1>3, <3>1 DEF Outdate
    <3>5. call[q].kind = "removeStage" => call[r].stage # call[q].stage
      BY <1>2, <2>1, <3>4 DEF Emptying
    <3>6. ~Of(deals'[d0])
      BY <2>3, <3>1, <3>2, <3>3, <3>5 DEF Given
    <3> QED BY <2>3, <3>3, <3>6
  <2>8. CASE DeletePipeline(r) \/ DeleteStage(r) \/ DeleteDeal(r)
    <3>1. \A d \in DealIds : deals'[d] \in {None, deals[d]}
      BY <2>8 DEF DeletePipeline, DeleteStage, DeleteDeal, Without, Fail, tables
    <3> QED BY <2>5, <3>1
  <2>9. \/ UNCHANGED deals \/ CreateDeal(r) \/ WriteDeal(r)
        \/ DeletePipeline(r) \/ DeleteStage(r) \/ DeleteDeal(r)
    BY OthersRead DEF Writes, tables, UnsetDefaults, WritePipeline, WriteStage, Fail
  <2> QED BY <2>5, <2>6, <2>7, <2>8, <2>9
<1>4. CASE q = r
  <2>1. CASE CountDeals(r)
    <3>1. call' = call /\ deals' = deals /\ DealsOf(call[r]) = {}
      BY <1>2, <1>4, <2>1 DEF CountDeals, Goto, Reply, tables
    <3> QED BY <1>4, <3>1 DEF DealsOf, DealsIn, DealsAt
  <2>2. CASE Start(r) \/ FindPipeline(r) \/ UnsetDefaults(r)
    BY <1>2, <1>4, <2>2, StartFresh DEF FindPipeline, UnsetDefaults, Goto, Reply
  <2>3. CASE FindForStage(r) \/ CheckWon(r) \/ CheckLost(r)
    BY <1>2, <1>4, <2>3 DEF FindForStage, CheckWon, CheckLost, Check, StageKinds, Goto, Reply
  <2>5. CASE FindForDeal(r) \/ FindDeal(r) \/ FindStage(r)
    BY <1>2, <1>4, <2>5 DEF FindForDeal, FindDeal, FindStage, MoveKinds
  <2>6. CASE WritePipeline(r) \/ WriteStage(r) \/ DeletePipeline(r) \/ DeleteStage(r)
    BY <1>2, <1>4, <2>6 DEF WritePipeline, WriteStage, DeletePipeline, DeleteStage, Fail, Reply
  <2>7. CASE CreateDeal(r) \/ WriteDeal(r) \/ DeleteDeal(r)
    BY <1>2, <1>4, <2>7 DEF CreateDeal, WriteDeal, DeleteDeal, Fail, Reply
  <2> QED BY <2>1, <2>2, <2>3, <2>5, <2>6, <2>7 DEF Step
<1> QED BY <1>3, <1>4

LEMMA MovesStep ==
    ASSUME LinkInv, MovesStand, NEW r \in Requests, Step(r)
    PROVE  MovesStand'
<1> USE DEF LinkInv, WellTyped, TypeOK, CallOK, Doing
<1>1. Moves(r)
  BY StepMoves
<1> DEFINE Stand(q) ==
        /\ pc[q] \in {"findStage", "write"} /\ call[q].kind = "moveDeal"
              => deals[call[q].deal] \in {None, held[q]}
        /\ Doing(q, "write", {"moveDeal"}) /\ stages[call[q].stage] # None
              => status[q] = StatusAt(q, stages[call[q].stage])
<1> SUFFICES ASSUME NEW q \in Requests \ aged', pc'[q] \in {"findStage", "write"},
                    call'[q].kind = "moveDeal"
             PROVE  Stand(q)'
  BY DEF MovesStand
<1>3. CASE q # r
  <2>1. q \notin aged /\ UNCHANGED <<pc[q], call[q], held[q], status[q]>>
    BY <1>1, <1>3 DEF Moves
  <2>2. Stand(q) /\ call[q].deal \in DealIds /\ call[q].stage \in StageIds /\ DealSeen(call[q].deal)
    BY <2>1, CallFields DEF MovesStand, FindsStand, MoveKinds
  <2>3. deals'[call[q].deal] \in {None, held[q]}
    <3>1. CASE deals'[call[q].deal] \in {None, deals[call[q].deal]}
      BY <2>1, <2>2, <3>1
    <3>2. CASE CreateDeal(r) /\ ~UNCHANGED deals
      <4>1. call[q].deal # call[r].deal
        BY <2>2, <3>2, NotSeen DEF CreateDeal
      <4>2. deals'[call[q].deal] = deals[call[q].deal]
        BY <2>2, <3>2, <4>1 DEF CreateDeal, Fail, tables
      <4> QED BY <3>1, <4>2
    <3>3. CASE WriteDeal(r) /\ ~UNCHANGED deals
      <4>1. q \notin MovingDeal(call[r].deal)
        BY <1>3, <3>3 DEF WriteDeal, Fail, tables, Outdate
      <4>2. call[q].deal # call[r].deal
        BY <2>1, <4>1 DEF MovingDeal, At
      <4>3. deals'[call[q].deal] = deals[call[q].deal]
        BY <2>2, <3>3, <4>2 DEF WriteDeal, Fail, tables
      <4> QED BY <3>1, <4>3
    <3>4. CASE DeletePipeline(r) \/ DeleteStage(r) \/ DeleteDeal(r)
      <4>1. deals'[call[q].deal] \in {None, deals[call[q].deal]}
        BY <2>2, <3>4 DEF DeletePipeline, DeleteStage, DeleteDeal, Without, Fail, tables
      <4> QED BY <3>1, <4>1
    <3>5. \/ UNCHANGED deals \/ CreateDeal(r) \/ WriteDeal(r)
          \/ DeletePipeline(r) \/ DeleteStage(r) \/ DeleteDeal(r)
      BY OthersRead DEF Writes, tables, UnsetDefaults, WritePipeline, WriteStage, Fail
    <3> QED BY <3>1, <3>2, <3>3, <3>4, <3>5
  <2>4. pc[q] = "write" => stages'[call[q].stage] \in {None, stages[call[q].stage]}
    <3>1. CASE WriteStage(r) /\ ~UNCHANGED stages /\ pc[q] = "write"
      <4>1. q \in Requests \ {r} /\ q \notin aged'
        BY <1>3
      <4>2. /\ q \in MovingTo(call[r].stage) => q \in aged'
            /\ \A t \in StageIds \ {call[r].stage} : stages'[t] = stages[t]
        BY <3>1, <4>1, StageWriteOutdates
      <4>3. call[q].stage # call[r].stage
        BY <2>1, <3>1, <4>1, <4>2 DEF MovingTo, At
      <4> QED BY <2>2, <4>2, <4>3
    <3>2. CASE DeletePipeline(r) \/ DeleteStage(r)
      BY <2>2, <3>2 DEF DeletePipeline, DeleteStage, Without, Fail, tables
    <3>3. UNCHANGED stages \/ WriteStage(r) \/ DeletePipeline(r) \/ DeleteStage(r)
      BY OthersRead DEF Writes, tables, UnsetDefaults, WritePipeline, CreateDeal, WriteDeal, DeleteDeal, Fail
    <3> QED BY <3>1, <3>2, <3>3
  <2>6. ASSUME pc[q] = "write", stages'[call[q].stage] # None
        PROVE  status'[q] = StatusAt(q, stages[call[q].stage])'
    <3>1. stages'[call[q].stage] = stages[call[q].stage] /\ status[q] = StatusAt(q, stages[call[q].stage])
      BY <2>1, <2>2, <2>4, <2>6
    <3>2. StatusAt(q, stages[call[q].stage])' = StatusAt(q, stages[call[q].stage])
      BY <2>1, <3>1 DEF StatusAt
    <3> QED BY <2>1, <3>1, <3>2
  <2> QED BY <2>1, <2>3, <2>6
<1>4. CASE q = r
  <2>1. CASE FindDeal(r)
    <3>1. /\ pc'[r] = "findStage" /\ held'[r] = deals'[call'[r].deal]
      BY <1>4, <2>1 DEF FindDeal, Goto, Reply, tables
    <3> QED BY <1>4, <3>1
  <2>2. CASE FindStage(r)
    <3>1. /\ UNCHANGED <<call, held, deals, stages>> /\ pc'[r] = "write" /\ pc[r] = "findStage"
          /\ status'[r] = StatusAt(r, stages[call[r].stage])
      BY <1>4, <2>2 DEF FindStage, Goto, Reply, tables
    <3>2. deals[call[r].deal] \in {None, held[r]}
      BY <1>1, <1>4, <3>1 DEF MovesStand, Moves
    <3>3. StatusAt(r, stages[call[r].stage])' = StatusAt(r, stages[call[r].stage])
      BY <3>1 DEF StatusAt
    <3> QED BY <1>4, <3>1, <3>2, <3>3
  <2>3. CASE Start(r) \/ FindPipeline(r) \/ UnsetDefaults(r) \/ CountDeals(r)
    BY <1>4, <2>3, StartFresh DEF FindPipeline, UnsetDefaults, CountDeals, Goto, Reply
  <2>4. CASE FindForStage(r) \/ CheckWon(r) \/ CheckLost(r) \/ FindForDeal(r)
    BY <1>4, <2>4 DEF FindForStage, CheckWon, CheckLost, Check, FindForDeal, StageKinds, Goto, Reply
  <2>6. CASE WritePipeline(r) \/ WriteStage(r) \/ DeletePipeline(r) \/ DeleteStage(r)
    BY <1>4, <2>6 DEF WritePipeline, WriteStage, DeletePipeline, DeleteStage, Fail, Reply
  <2>7. CASE CreateDeal(r) \/ WriteDeal(r) \/ DeleteDeal(r)
    BY <1>4, <2>7 DEF CreateDeal, WriteDeal, DeleteDeal, Fail, Reply
  <2> QED BY <2>1, <2>2, <2>3, <2>4, <2>6, <2>7 DEF Step
<1> QED BY <1>3, <1>4

LEMMA InvInit == Init => IInv
<1> SUFFICES ASSUME Init PROVE IInv
  OBVIOUS
<1>1. \A r \in Requests : pc[r] = "idle"
  BY DEF Init
<1>2. DefaultsStand /\ StagesStand /\ CountsStand /\ MovesStand
  BY <1>1 DEF DefaultsStand, MakingDefault, At, Doing, StagesStand, Shaping, CountsStand, MovesStand, Is
<1> QED BY <1>2, LinkInit DEF IInv

LEMMA InvStep == IInv /\ [Next]_vars => IInv'
<1> SUFFICES ASSUME IInv, [Next]_vars PROVE IInv'
  OBVIOUS
<1>1. LinkInv'
  BY LinkStep DEF IInv
<1>2. ASSUME NEW r \in Requests, Step(r) PROVE IInv'
  BY <1>1, <1>2, DefaultsStep, StagesStep, CountsStep, MovesStep DEF IInv
<1>3. CASE UNCHANGED vars
  <2>1. DefaultsStand'
    BY <1>3 DEF IInv, vars, DefaultsStand, MakingDefault, At, Doing, Defaults
  <2>2. StagesStand'
    BY <1>3 DEF IInv, vars, StagesStand, Shaping, Is, Asked, PipelineOf, HasOther
  <2>3. CountsStand'
    BY <1>3 DEF IInv, vars, CountsStand, At, Doing, DealsOf, DealsIn, DealsAt
  <2>4. MovesStand'
    BY <1>3 DEF IInv, vars, MovesStand, Doing, StatusAt
  <2> QED BY <1>1, <2>1, <2>2, <2>3, <2>4 DEF IInv
<1> QED BY <1>2, <1>3, StepOrStutter

-----------------------------------------------------------------------------
(***************************************************************************)
(* The theorems                                                            *)
(***************************************************************************)

LEMMA InvHolds == Spec => []IInv
BY InvInit, InvStep, PTL DEF Spec

LEMMA DefaultStep ==
    ASSUME IInv, [Next]_vars, OneDefault, ~OneDefault'
    PROVE  \E r \in MakingDefault : r \in aged /\ pc'[r] = "done"
<1> USE DEF IInv, LinkInv, WellTyped, TypeOK, CallOK, Doing
<1>1. ~(Defaults' \subseteq Defaults)
  BY DEF OneDefault
<1>2. PICK r \in Requests : Step(r) /\ ~UNCHANGED pipelines
  BY <1>1, StepOrStutter DEF vars, Defaults
<1>3. WritePipeline(r)
  <2>1. UnsetDefaults(r) \/ DeletePipeline(r) => Defaults' \subseteq Defaults
    BY DEF UnsetDefaults, DeletePipeline, Without, Fail, tables, Defaults
  <2>2. UnsetDefaults(r) \/ WritePipeline(r) \/ DeletePipeline(r)
    BY <1>2, OthersRead DEF Writes, tables, WriteStage, CreateDeal, WriteDeal, DeleteDeal, DeleteStage, Fail
  <2> QED BY <1>1, <2>1, <2>2
<1> DEFINE p == call[r].pipeline
<1>4. /\ call[r] \in Calls /\ p \in PipelineIds /\ call[r].isDefault \in BOOLEAN
      /\ pipelines' = [pipelines EXCEPT ![p] = [isDefault |-> call[r].isDefault]]
      /\ pc[r] = "write" /\ call[r].kind \in {"createPipeline", "updatePipeline"}
      /\ call[r].kind = "updatePipeline" => pipelines[p] # None
      /\ pc'[r] = "done"
  BY <1>2, <1>3, CallFields DEF WritePipeline, Fail, Reply, tables
<1>5. Defaults' \subseteq Defaults \cup {p} /\ (p \in Defaults' => call[r].isDefault)
  BY <1>4, PipelinesAssumption DEF Defaults, PipelineRow
<1>6. r \in MakingDefault
  BY <1>1, <1>4, <1>5 DEF MakingDefault, At
<1>7. CASE r \notin aged
  <2>1. ~(Defaults \subseteq {p})
    <3>1. Defaults \subseteq {p} => Defaults' \subseteq {p}
      BY <1>5
    <3> QED BY <3>1 DEF OneDefault
  <2>2. p \in Defaults
    BY <1>4, <1>6, <1>7, <2>1 DEF DefaultsStand
  <2> QED BY <1>1, <1>5, <2>2
<1> QED BY <1>4, <1>6, <1>7

\* A second default pipeline comes only from a request whose unsetting, or
\* whose reading of its own row, is outdated (pipelines.service.ts).
THEOREM DefaultStays == Spec => OneDefaultUnlessAged
<1>1. IInv /\ [Next]_vars =>
        [OneDefault /\ ~OneDefault' => \E r \in MakingDefault : r \in aged /\ pc'[r] = "done"]_vars
  BY DefaultStep
<1> QED BY <1>1, InvHolds, PTL DEF Spec, OneDefaultUnlessAged

\* A write that makes a stage close its pipeline beside another one is
\* outdated.
LEMMA ClosingStep ==
    ASSUME IInv, NEW r \in Requests, WriteStage(r), ~UNCHANGED stages, r \notin aged,
           NEW flag \in {"won", "lost"}, NEW p \in PipelineIds,
           NEW s \in Closing(p, flag)', s \notin Closing(p, flag),
           NEW t \in Closing(p, flag)', t # s
    PROVE  FALSE
<1> USE DEF IInv, LinkInv, WellTyped, TypeOK, CallOK, Doing
<1> DEFINE c == call[r].stage
<1>1. /\ c \in StageIds /\ stages'[c] \in StageRow
      /\ \A o \in StageIds \ {c} : stages'[o] = stages[o]
  BY StageWriteOutdates
<1>2. s = c /\ t \in StageIds \ {c}
  BY <1>1 DEF Closing, BelongsTo
<1>3. /\ stages[t] # None /\ stages[t].pipeline = p /\ stages[t][flag]
      /\ stages'[c].pipeline = p /\ stages'[c][flag] /\ c \notin Closing(p, flag)
  BY <1>1, <1>2 DEF Closing, BelongsTo
<1>4. HasOther(p, c, flag)
  BY <1>2, <1>3 DEF HasOther
<1>5. r \in Shaping \ aged /\ pc[r] = "write" /\ call[r] \in Calls
  BY DEF WriteStage, Shaping, Is
<1>6. CASE call[r].kind = "createStage"
  <2>1. stages' = [stages EXCEPT ![c] =
            [pipeline |-> call[r].pipeline, won |-> call[r].won, lost |-> call[r].lost]]
    BY <1>6 DEF WriteStage, Fail, tables
  <2>2. PipelineOf(r) = p
    BY <1>1, <1>3, <1>6, <2>1 DEF PipelineOf
  <2>3. CASE flag = "won"
    <3>1. call[r].won = TRUE
      BY <1>1, <1>3, <1>5, <1>6, <2>1, <2>3, CallFields
    <3>2. Asked(r, "won")
      BY <1>6, <3>1 DEF Asked
    <3> QED BY <1>4, <1>5, <2>2, <2>3, <3>2 DEF StagesStand
  <2>4. CASE flag = "lost"
    <3>1. call[r].lost = TRUE
      BY <1>1, <1>3, <1>5, <1>6, <2>1, <2>4, CallFields
    <3>2. Asked(r, "lost")
      BY <1>6, <3>1 DEF Asked
    <3> QED BY <1>4, <1>5, <2>2, <2>4, <3>2 DEF StagesStand
  <2> QED BY <2>3, <2>4
<1>7. CASE call[r].kind = "updateStage"
  <2>1. stages[c] # None
    BY <1>7 DEF WriteStage, Fail, tables
  <2>2. /\ stages[c] \in StageRow /\ stages'[c].pipeline = stages[c].pipeline
        /\ stages'[c].won = Given(call[r].won, stages[c].won)
        /\ stages'[c].lost = Given(call[r].lost, stages[c].lost)
    BY <1>7, <2>1, StageUpdated
  <2>3. stages[c] = held[r] /\ PipelineOf(r) = p
    BY <1>3, <1>5, <1>7, <2>1, <2>2 DEF StagesStand, PipelineOf
  <2>4. stages[c][flag] = FALSE
    <3>1. ~stages[c][flag]
      BY <1>1, <1>3, <2>1, <2>2 DEF Closing, BelongsTo
    <3>2. stages[c].won \in BOOLEAN /\ stages[c].lost \in BOOLEAN
      BY <2>2 DEF StageRow
    <3> QED BY <3>1, <3>2
  <2>5. CASE flag = "won"
    <3>1. call[r].won = TRUE
      BY <1>3, <1>5, <1>7, <2>2, <2>4, <2>5, CallFields, PipelinesAssumption DEF Given
    <3>2. Asked(r, "won")
      BY <1>7, <2>3, <2>4, <2>5, <3>1 DEF Asked
    <3> QED BY <1>4, <1>5, <2>3, <2>5, <3>2 DEF StagesStand
  <2>6. CASE flag = "lost"
    <3>1. call[r].lost = TRUE
      BY <1>3, <1>5, <1>7, <2>2, <2>4, <2>6, CallFields, PipelinesAssumption DEF Given
    <3>2. Asked(r, "lost")
      BY <1>7, <2>3, <2>4, <2>6, <3>1 DEF Asked
    <3> QED BY <1>4, <1>5, <2>3, <2>6, <3>2 DEF StagesStand
  <2> QED BY <2>5, <2>6
<1> QED BY <1>6, <1>7 DEF WriteStage

LEMMA OneOfEachStep ==
    ASSUME IInv, [Next]_vars, OneOfEach, ~OneOfEach'
    PROVE  \E p \in PipelineIds : \E r \in ShapingStages(p) : r \in aged /\ pc'[r] = "done"
<1> USE DEF IInv, LinkInv, WellTyped, TypeOK, CallOK, Doing
<1>1. PICK p \in PipelineIds, flag \in {"won", "lost"} : \E s, t \in Closing(p, flag)' : s # t
  BY DEF OneOfEach
<1>2. PICK s \in Closing(p, flag)' : s \notin Closing(p, flag) /\ \E t \in Closing(p, flag)' : t # s
  BY <1>1 DEF OneOfEach
<1>3. PICK t \in Closing(p, flag)' : t # s
  BY <1>2
<1>4. PICK r \in Requests : Step(r) /\ ~UNCHANGED stages
  BY <1>2, StepOrStutter DEF vars, Closing, BelongsTo
<1>5. WriteStage(r)
  <2>1. DeletePipeline(r) \/ DeleteStage(r) => Closing(p, flag)' \subseteq Closing(p, flag)
    BY DEF DeletePipeline, DeleteStage, Without, Fail, tables, Closing, BelongsTo
  <2>2. WriteStage(r) \/ DeletePipeline(r) \/ DeleteStage(r)
    BY <1>4, OthersRead DEF Writes, tables, UnsetDefaults, WritePipeline, CreateDeal, WriteDeal, DeleteDeal, Fail
  <2> QED BY <1>2, <2>1, <2>2
<1>6. r \in aged
  BY <1>2, <1>3, <1>4, <1>5, ClosingStep
<1>7. r \in Shaping /\ pc'[r] = "done"
  BY <1>5 DEF WriteStage, Shaping, Is, Fail, Reply
<1>8. PipelineOf(r) \in PipelineIds
  BY <1>5, CallFields DEF WriteStage, PipelineOf, StageRow
<1> QED BY <1>6, <1>7, <1>8 DEF ShapingStages

\* A second closing stage of a pipeline comes only from a request whose
\* look-up, or whose reading of its own row, is outdated (pipelines.service.ts).
THEOREM ClosingStagesStay == Spec => OneClosingStageUnlessAged
<1>1. IInv /\ [Next]_vars =>
        [OneOfEach /\ ~OneOfEach'
           => \E p \in PipelineIds : \E r \in ShapingStages(p) : r \in aged /\ pc'[r] = "done"]_vars
  BY OneOfEachStep
<1> QED BY <1>1, InvHolds, PTL DEF Spec, OneClosingStageUnlessAged

\* The request that ends in a step took it.
LEMMA WhoEnds ==
    ASSUME IInv, [Next]_vars, NEW r \in Requests, pc[r] = "write", pc'[r] = "done"
    PROVE  Step(r)
<1>1. pc' # pc
  OBVIOUS
<1>2. PICK q \in Requests : Step(q)
  BY <1>1, StepOrStutter DEF vars
<1>3. Moves(q)
  BY <1>2, StepMoves DEF IInv, LinkInv
<1> QED BY <1>2, <1>3 DEF Moves

LEMMA RemovalStep ==
    ASSUME IInv, [Next]_vars, NEW r \in Requests,
           Doing(r, "write", {"removePipeline", "removeStage"}), pc'[r] = "done",
           NEW d \in DealIds, deals[d] # None, deals'[d] = None
    PROVE  r \in aged
<1> USE DEF IInv, LinkInv, WellTyped, TypeOK, CallOK, Doing
<1>1. Step(r)
  BY WhoEnds
<1>2. DeletePipeline(r) \/ DeleteStage(r)
  BY <1>1 DEF Step, Start, FindPipeline, UnsetDefaults, WritePipeline, FindForStage, CheckWon,
     CheckLost, Check, WriteStage, CountDeals, FindForDeal, CreateDeal, FindDeal, FindStage,
     WriteDeal, DeleteDeal
<1>3. deals[d] \in DealRow
  OBVIOUS
<1>4. d \in DealsOf(call[r])
  <2>1. CASE DeletePipeline(r)
    <3>1. d \in DealsIn(call[r].pipeline)
             \/ \E s \in StageIds : stages[s] # None /\ stages[s].pipeline = call[r].pipeline
                                      /\ deals[d].stage = s
      BY <2>1 DEF DeletePipeline, Fail, tables, Without, DealsAt
    <3>2. d \in DealsIn(call[r].pipeline)
      BY <1>3, <3>1 DEF RowsLinked, Linked, DealsIn
    <3> QED BY <2>1, <3>2 DEF DeletePipeline, DealsOf
  <2>2. CASE DeleteStage(r)
    <3>1. d \in DealsAt(call[r].stage)
      BY <2>2 DEF DeleteStage, Fail, tables, Without
    <3> QED BY <2>2, <3>1 DEF DeleteStage, DealsOf
  <2> QED BY <1>2, <2>1, <2>2
<1> QED BY <1>4 DEF CountsStand, At

\* A deal goes with its pipeline or stage only when it came after the count
\* (pipelines.service.ts).
THEOREM DealsAreCounted == Spec => DealsLostOnlyToAgedCounts
<1>1. IInv /\ [Next]_vars =>
        [\A r \in Requests :
            /\ Doing(r, "write", {"removePipeline", "removeStage"})
            /\ pc'[r] = "done"
            /\ \E d \in DealIds : deals[d] # None /\ deals'[d] = None
            => r \in aged]_vars
  BY RemovalStep
<1> QED BY <1>1, InvHolds, PTL DEF Spec, DealsLostOnlyToAgedCounts

LEMMA MoveSettles ==
    ASSUME IInv, [Next]_vars, NEW r \in Requests, Doing(r, "write", {"moveDeal"}), r \notin aged,
           pc'[r] = "done", answer'[r] = "ok"
    PROVE  LET before == deals[call[r].deal].status
               after == deals'[call[r].deal].status
               stage == stages[call[r].stage]
           IN  /\ stage.won => after = "won"
               /\ stage.lost /\ ~stage.won => after = "lost"
               /\ ~stage.won /\ ~stage.lost =>
                     /\ after \notin {"won", "lost"}
                     /\ before \notin {"won", "lost"} => after = before
<1> USE DEF IInv, LinkInv, WellTyped, TypeOK, CallOK, Doing
<1> DEFINE d == call[r].deal
           s == call[r].stage
<1>1. WriteDeal(r)
  BY WhoEnds DEF Step, Start, FindPipeline, UnsetDefaults, WritePipeline, FindForStage, CheckWon,
     CheckLost, Check, WriteStage, CountDeals, FindForDeal, CreateDeal, FindDeal, FindStage,
     DeletePipeline, DeleteStage, DeleteDeal
<1>2. call[r] \in Calls /\ d \in DealIds /\ s \in StageIds
  BY CallFields
<1>3. /\ deals[d] # None /\ stages[s] # None
      /\ deals' = [deals EXCEPT ![d].stage = Given(s, @), ![d].status = Given(status[r], @)]
  BY <1>1, <1>2, PipelinesAssumption DEF WriteDeal, Fail, Reply
<1>4. deals[d] = held[r] /\ deals[d] \in DealRow /\ status[r] = StatusAt(r, stages[s])
  BY <1>2, <1>3 DEF MovesStand
<1>5. deals'[d].status = Given(status[r], deals[d].status)
  BY <1>2, <1>3, <1>4 DEF DealRow
<1>6. status[r] = CASE stages[s].won -> "won"
                    [] ~stages[s].won /\ stages[s].lost -> "lost"
                    [] OTHER -> Reopened(deals[d].status)
  BY <1>4 DEF StatusAt
<1>7. deals[d].status \in Status
  BY <1>4 DEF DealRow
<1>8. status[r] \in Status
  BY <1>6, <1>7 DEF Status, Reopened
<1>9. deals'[d].status = status[r]
  BY <1>5, <1>8, PipelinesAssumption DEF Given
<1> QED BY <1>6, <1>7, <1>9 DEF Reopened

\* A move leaves the status of a deal in step with its stage, unless the deal
\* or the stage was written after it was read (deals.service.ts).
THEOREM MovesSettle == Spec => MovesSettleStatus
<1>1. IInv /\ [Next]_vars =>
        [\A r \in Requests :
          /\ Doing(r, "write", {"moveDeal"}) /\ r \notin aged
          /\ pc'[r] = "done" /\ answer'[r] = "ok"
          => LET before == deals[call[r].deal].status
                 after == deals'[call[r].deal].status
                 stage == stages[call[r].stage]
             IN  /\ stage.won => after = "won"
                 /\ stage.lost /\ ~stage.won => after = "lost"
                 /\ ~stage.won /\ ~stage.lost =>
                       /\ after \notin {"won", "lost"}
                       /\ before \notin {"won", "lost"} => after = before]_vars
  BY MoveSettles
<1> QED BY <1>1, InvHolds, PTL DEF Spec, MovesSettleStatus

\* All that the run checks of deals and their pipelines.
THEOREM DealsHolding == Spec => DealsHold
BY DefaultStays, ClosingStagesStay, DealsAreCounted, MovesSettle, PTL DEF DealsHold


-----------------------------------------------------------------------------
(***************************************************************************)
(* Tickets                                                                 *)
(***************************************************************************)

TicketIds == Requests \cup {r1, r5}

\* Where a request is says what it was called with and what it has read.
TicketCallOK ==
    \A r \in TicketIds :
        /\ tPc[r] # "idle" => tCall[r] \in TicketCalls
        /\ tPc[r] = "number" => tCall[r].kind = "create"
        /\ tPc[r] = "write" /\ tCall[r].kind = "create" => number[r] # 0
        /\ tPc[r] = "write" /\ tCall[r].kind = "update" => tHeld[r] \in T!Row
        /\ tPc[r] # "done" => tAnswer[r] = "none"

\* A ticket has the name of the create that has ended with it, a rank of its
\* own, and an update was called with a ticket that was there.
TicketsPlaced ==
    /\ \A t \in TicketIds : tickets[t] # None => tPc[t] = "done" /\ tickets[t].created < clock
    /\ \A s, t \in TicketIds :
          tickets[s] # None /\ tickets[t] # None /\ tickets[s].created = tickets[t].created => s = t
    /\ \A r \in TicketIds :
          tPc[r] = "write" /\ tCall[r].kind = "update" => tPc[tCall[r].ticket] = "done"

\* The number a create is about to insert is the highest, unless it was
\* passed; what an update has read is the row, unless that was written.
TicketsFresh ==
    /\ \A r, t \in TicketIds :
          tPc[r] = "write" /\ tCall[r].kind = "create" /\ r \notin passed /\ tickets[t] # None
          => tickets[t].number < number[r]
    /\ \A r \in TicketIds :
          /\ tPc[r] = "write" /\ tCall[r].kind = "update" /\ r \notin tStale
          /\ tickets[tCall[r].ticket] # None
          => tHeld[r] = tickets[tCall[r].ticket]

TicketInv == T!TypeOK /\ TicketCallOK /\ TicketsPlaced /\ TicketsFresh /\ T!TicketsHold

LEMMA TicketCallFields ==
    ASSUME NEW c \in TicketCalls
    PROVE  /\ c.kind \in {"create", "update", "remove"}
           /\ c.kind \in {"create", "update"} => c.status \in T!Status
           /\ c.kind \in {"update", "remove"} => c.ticket \in TicketIds
<1>1. c \in T!CreateCall \/ c \in T!UpdateCall \/ c \in T!RemoveCall
  BY PartsAssumption DEF T!TicketsAssumption
<1>2. CASE c \in T!CreateCall
  BY <1>2 DEF T!CreateCall
<1>3. CASE c \in T!UpdateCall
  BY <1>3 DEF T!UpdateCall, TicketIds
<1>4. CASE c \in T!RemoveCall
  BY <1>4 DEF T!RemoveCall, TicketIds
<1> QED BY <1>1, <1>2, <1>3, <1>4

LEMMA NoneNoTicket == None \notin T!Row
BY PartsAssumption DEF T!TicketsAssumption, T!Row

\* Every non-empty set of numbers that a number bounds has a greatest one.
Below == {ss \in Nat \X Nat : ss[1] < ss[2]}
LEMMA GreatestNumber ==
    ASSUME NEW Ns \in SUBSET Nat, Ns # {}, NEW n \in Nat, \A x \in Ns : x < n
    PROVE  \E x \in Ns : \A y \in Ns : y <= x
<1> DEFINE D == {n - x : x \in Ns}
<1>1. IsWellFoundedOn(Below, Nat)
  BY NatLessThanWellFounded, Zenon DEF OpToRel, Below
<1>2. D \subseteq Nat /\ D # {}
  <2>1. \A x \in Ns : n - x \in Nat
    OBVIOUS
  <2>2. PICK x \in Ns : TRUE
    OBVIOUS
  <2> QED BY <2>1, <2>2
<1>3. PICK d \in D : \A e \in D : ~(<<e, d>> \in Below)
  BY <1>1, <1>2, WFMin, Zenon
<1>4. PICK x \in Ns : d = n - x
  BY <1>3
<1>5. ASSUME NEW y \in Ns PROVE y <= x
  <2>1. n - y \in D /\ n - y \in Nat /\ d \in Nat
    BY <1>2, <1>3
  <2>2. <<n - y, d>> \notin Below
    BY <1>3, <2>1
  <2>3. ~(n - y < d)
    BY <2>1, <2>2 DEF Below
  <2> QED BY <1>4, <2>1, <2>3
<1> QED BY <1>5

\* As long as there are tickets there is a latest one.
LEMMA LatestIsThere ==
    ASSUME T!TypeOK, TicketsPlaced, NEW s \in TicketIds, tickets[s] # None
    PROVE  \E t \in T!Latest : TRUE
<1> DEFINE Ranks == {tickets[t].created : t \in T!Tickets}
<1>1. \A t \in T!Tickets : tickets[t] \in T!Row /\ t \in TicketIds /\ tickets[t] # None
  BY DEF T!Tickets, T!Exists, T!TypeOK, TicketIds
<1>2. Ranks \subseteq Nat
  BY <1>1 DEF T!Row
<1>3. tickets[s].created \in Ranks
  BY DEF T!Tickets, T!Exists, TicketIds
<1>4. clock \in Nat /\ \A x \in Ranks : x < clock
  BY <1>1 DEF T!TypeOK, TicketsPlaced
<1> HIDE DEF Ranks
<1>5. PICK x \in Ranks : \A y \in Ranks : y <= x
  BY <1>2, <1>3, <1>4, GreatestNumber
<1> USE DEF Ranks
<1>6. PICK t \in T!Tickets : x = tickets[t].created
  BY <1>5
<1>7. t \in T!Latest
  BY <1>5, <1>6 DEF T!Latest
<1> QED BY <1>7

LEMMA TicketsInit == T!Init => TicketInv
<1> SUFFICES ASSUME T!Init PROVE TicketInv
  OBVIOUS
<1>1. T!TypeOK
  BY DEF T!Init, T!TypeOK, T!Labels, T!Answers, T!NoCall
<1>2. TicketCallOK /\ TicketsPlaced /\ TicketsFresh
  BY DEF T!Init, TicketCallOK, TicketsPlaced, TicketsFresh, TicketIds
<1>3. T!TicketsHold
  BY DEF T!Init, T!TicketsHold, T!NumbersFollowCreation, T!ClosedWasResolved,
         T!ReopenedHasNoTimes, T!Tickets, T!Exists
<1> QED BY <1>1, <1>2, <1>3 DEF TicketInv

\* The steps of a request that leave the tickets alone.
TicketStart(r) == T!Start(r) \/ T!FindContact(r) \/ T!ReadLatest(r) \/ T!FindTicket(r) \/ T!NoAssignee(r)

LEMMA TicketTyped ==
    ASSUME TicketInv, NEW r \in TicketIds,
           TicketStart(r) \/ T!Insert(r) \/ T!Update(r) \/ T!Remove(r)
    PROVE  T!TypeOK' /\ TicketCallOK'
<1> USE DEF TicketInv, T!local, T!history, T!Goto, T!Reply, T!Fail
<1>0. T!Labels = {"idle", "find", "number", "write", "done"} /\ T!Answers = {"none", "ok", "notFound", "error"}
  BY DEF T!Labels, T!Answers
<1>1. CASE T!Start(r)
  BY <1>0, <1>1 DEF T!Start, T!TypeOK, TicketCallOK, TicketIds
<1>2. CASE T!FindContact(r)
  BY <1>0, <1>2 DEF T!FindContact, T!TypeOK, TicketCallOK, TicketIds
<1>3. CASE T!ReadLatest(r)
  <2>1. T!NextNumber \subseteq Nat \ {0}
    BY DEF T!NextNumber, T!Latest, T!Tickets, T!Exists, T!TypeOK, T!Row
  <2> QED BY <1>0, <1>3, <2>1 DEF T!ReadLatest, T!TypeOK, TicketCallOK, TicketIds
<1>4. CASE T!FindTicket(r)
  BY <1>0, <1>4, TicketCallFields DEF T!FindTicket, T!TypeOK, TicketCallOK, TicketIds
<1>5. CASE T!NoAssignee(r)
  BY <1>0, <1>5 DEF T!NoAssignee, T!TypeOK, TicketCallOK, TicketIds
<1>6. CASE T!Insert(r)
  <2> DEFINE row == [number |-> number[r], created |-> clock, status |-> tCall[r].status,
                     resolved |-> FALSE, closed |-> FALSE]
  <2>1. row \in T!Row
    BY <1>6, TicketCallFields DEF T!Insert, T!TypeOK, TicketCallOK, TicketIds, T!Row
  <2>2. tickets' = tickets \/ tickets' = [tickets EXCEPT ![r] = row]
    BY <1>6 DEF T!Insert
  <2>3. tickets' \in [TicketIds -> T!Row \cup {None}]
    BY <2>1, <2>2 DEF T!TypeOK, TicketIds
  <2> HIDE DEF row
  <2> QED BY <1>0, <1>6, <2>3 DEF T!Insert, T!TypeOK, TicketCallOK, TicketIds, T!Writing
<1>7. CASE T!Update(r)
  <2> DEFINE t == tCall[r].ticket
  <2>1. t \in TicketIds /\ tCall[r].status \in T!Status
    BY <1>7, TicketCallFields DEF T!Update, TicketCallOK
  <2>2. CASE ~T!Exists(t)
    BY <1>0, <1>7, <2>2 DEF T!Update, T!TypeOK, TicketCallOK, TicketIds
  <2>3. CASE T!Exists(t)
    <3>1. tickets[t] \in T!Row
      BY <2>1, <2>3 DEF T!Exists, T!TypeOK, TicketIds
    <3>2. T!Updated(r) \in T!Row
      BY <2>1, <3>1 DEF T!Updated, T!Row, T!Reopens, T!SetsResolved, T!SetsClosed
    <3>3. tickets' = [tickets EXCEPT ![t] = T!Updated(r)]
      BY <1>7, <2>3 DEF T!Update
    <3>4. tickets' \in [TicketIds -> T!Row \cup {None}]
      BY <3>2, <3>3 DEF T!TypeOK, TicketIds
    <3> QED BY <1>0, <1>7, <2>1, <2>3, <3>4 DEF T!Update, T!TypeOK, TicketCallOK, TicketIds, T!Writing
  <2> QED BY <2>2, <2>3
<1>8. CASE T!Remove(r)
  BY <1>0, <1>8, TicketCallFields DEF T!Remove, T!Exists, T!TypeOK, TicketCallOK, TicketIds
<1> QED BY <1>1, <1>2, <1>3, <1>4, <1>5, <1>6, <1>7, <1>8 DEF TicketStart

\* Only the writes change a ticket, each as its comment in Tickets says.
LEMMA TicketsKept ==
    ASSUME TicketInv, NEW r \in TicketIds, TicketStart(r)
    PROVE  /\ UNCHANGED <<tickets, clock, tStale, strays>>
           /\ tPc[r] # "done" /\ tPc'[r] \in T!Labels /\ tPc' = [tPc EXCEPT ![r] = tPc'[r]]
           /\ passed \subseteq passed'
           /\ tPc[r] # "idle" => UNCHANGED tCall
           /\ tPc[r] = "idle" => tPc'[r] = "find" /\ \A q \in TicketIds : q # r => tCall'[q] = tCall[q]
           /\ \A q \in TicketIds : q # r => number'[q] = number[q] /\ tHeld'[q] = tHeld[q]
           /\ tPc'[r] = "write" /\ tCall[r].kind = "update" =>
                 tickets[tCall[r].ticket] # None /\ tHeld'[r] = tickets[tCall[r].ticket]
           /\ tPc'[r] = "write" /\ tCall[r].kind = "create" =>
                 /\ number'[r] \in T!NextNumber
                 /\ r \notin passed' => T!Latest \cap passed = {}
<1> USE DEF T!local, T!history, T!Goto, T!Reply, T!TypeOK, TicketInv, TicketIds, T!Labels, TicketCallOK
<1>1. CASE T!Start(r)
  BY <1>1 DEF T!Start
<1>2. CASE T!FindContact(r)
  BY <1>2 DEF T!FindContact
<1>3. CASE T!ReadLatest(r)
  BY <1>3 DEF T!ReadLatest
<1>4. CASE T!FindTicket(r)
  BY <1>4 DEF T!FindTicket
<1>5. CASE T!NoAssignee(r)
  BY <1>5 DEF T!NoAssignee
<1> QED BY <1>1, <1>2, <1>3, <1>4, <1>5 DEF TicketStart

LEMMA TicketInserted ==
    ASSUME TicketInv, NEW r \in TicketIds, T!Insert(r)
    PROVE  /\ tPc[r] = "write" /\ tCall[r].kind = "create" /\ tCall[r].status \in T!Status
           /\ tPc' = [tPc EXCEPT ![r] = "done"] /\ UNCHANGED <<tCall, number, tHeld, tStale, strays>>
           /\ \/ UNCHANGED <<tickets, clock, passed>> /\ T!Taken(number[r])
              \/ /\ tickets' = [tickets EXCEPT ![r] =
                        [number |-> number[r], created |-> clock, status |-> tCall[r].status,
                         resolved |-> FALSE, closed |-> FALSE]]
                 /\ clock' = clock + 1
                 /\ passed' = passed \cup (T!Writing("create") \ {r})
                 /\ ~T!Taken(number[r])
BY TicketCallFields
DEF T!Insert, T!local, T!history, T!Fail, T!Reply, TicketInv, TicketCallOK

LEMMA TicketUpdated ==
    ASSUME TicketInv, NEW r \in TicketIds, T!Update(r)
    PROVE  /\ tPc[r] = "write" /\ tCall[r].kind = "update" /\ tCall[r].status \in T!Status
           /\ tCall[r].ticket \in TicketIds
           /\ tPc' = [tPc EXCEPT ![r] = "done"] /\ UNCHANGED <<tCall, number, tHeld, clock, passed>>
           /\ \/ UNCHANGED <<tickets, tStale, strays>>
              \/ /\ tickets[tCall[r].ticket] \in T!Row
                 /\ tickets[tCall[r].ticket] # None
                 /\ tickets' = [tickets EXCEPT ![tCall[r].ticket] = T!Updated(r)]
                 /\ tStale' = tStale \cup {q \in T!Writing("update") \ {r} :
                                              tCall[q].ticket = tCall[r].ticket}
                 /\ strays' = (IF \/ r \in tStale
                                  \/ tCall[r].status = "new" /\ tHeld[r].status \in T!Settled
                               THEN strays \cup {tCall[r].ticket} ELSE strays)
<1> USE DEF TicketInv, TicketCallOK
<1>1. /\ tPc[r] = "write" /\ tCall[r].kind = "update" /\ tCall[r].status \in T!Status
      /\ tCall[r].ticket \in TicketIds
  BY TicketCallFields DEF T!Update
<1>2. tickets[tCall[r].ticket] # None => tickets[tCall[r].ticket] \in T!Row
  BY <1>1 DEF T!TypeOK, TicketIds
<1> QED BY <1>1, <1>2 DEF T!Update, T!local, T!history, T!Fail, T!Reply, T!Exists

LEMMA TicketRemoved ==
    ASSUME TicketInv, NEW r \in TicketIds, T!Remove(r)
    PROVE  /\ tPc[r] = "write" /\ tCall[r].kind = "remove" /\ tCall[r].ticket \in TicketIds
           /\ tPc' = [tPc EXCEPT ![r] = "done"]
           /\ UNCHANGED <<tCall, number, tHeld, clock, passed, tStale, strays>>
           /\ \/ UNCHANGED tickets
              \/ tickets' = [tickets EXCEPT ![tCall[r].ticket] = None]
BY TicketCallFields
DEF T!Remove, T!local, T!history, T!Fail, T!Reply, TicketInv, TicketCallOK

\* An update keeps the number and the rank of its ticket.
LEMMA UpdatedKeeps ==
    ASSUME NEW r \in TicketIds, tickets[tCall[r].ticket] \in T!Row
    PROVE  /\ T!Updated(r).number = tickets[tCall[r].ticket].number
           /\ T!Updated(r).created = tickets[tCall[r].ticket].created
           /\ T!Updated(r).status = tCall[r].status
           /\ T!Updated(r).resolved =
                 IF T!Reopens(tHeld[r].status, tCall[r].status) THEN FALSE
                 ELSE T!SetsResolved(tHeld[r], tCall[r].status) \/ tickets[tCall[r].ticket].resolved
           /\ T!Updated(r).closed =
                 IF T!Reopens(tHeld[r].status, tCall[r].status) THEN FALSE
                 ELSE T!SetsClosed(tHeld[r], tCall[r].status) \/ tickets[tCall[r].ticket].closed
BY DEF T!Updated, T!Row

\* Once a ticket is there its number and its rank stay.
LEMMA NumbersKept ==
    ASSUME TicketInv, NEW r \in TicketIds, T!Update(r) \/ T!Remove(r),
           NEW t \in TicketIds, tickets'[t] # None
    PROVE  /\ tickets[t] # None
           /\ tickets'[t].created = tickets[t].created /\ tickets'[t].number = tickets[t].number
<1>0. tickets \in [TicketIds -> T!Row \cup {None}]
  BY DEF TicketInv, T!TypeOK, TicketIds
<1>1. CASE T!Remove(r)
  BY <1>0, <1>1, TicketRemoved
<1>2. CASE T!Update(r)
  <2>1. CASE UNCHANGED tickets
    BY <2>1
  <2>2. CASE ~UNCHANGED tickets
    <3>1. /\ tickets[tCall[r].ticket] \in T!Row /\ tickets[tCall[r].ticket] # None
          /\ tCall[r].ticket \in TicketIds
          /\ tickets' = [tickets EXCEPT ![tCall[r].ticket] = T!Updated(r)]
      BY <1>2, <2>2, TicketUpdated
    <3>2. CASE t = tCall[r].ticket
      <4>1. tickets'[t] = T!Updated(r)
        BY <1>0, <3>1, <3>2
      <4> QED BY <3>1, <3>2, <4>1, UpdatedKeeps
    <3>3. CASE t # tCall[r].ticket
      BY <1>0, <3>1, <3>3
    <3> QED BY <3>2, <3>3
  <2> QED BY <2>1, <2>2
<1> QED BY <1>1, <1>2

LEMMA PlacedStep ==
    ASSUME TicketInv, NEW r \in TicketIds,
           TicketStart(r) \/ T!Insert(r) \/ T!Update(r) \/ T!Remove(r)
    PROVE  TicketsPlaced'
<1> USE DEF TicketsPlaced, TicketInv
<1>0. tPc \in [TicketIds -> T!Labels] /\ tickets \in [TicketIds -> T!Row \cup {None}] /\ clock \in Nat
  BY DEF T!TypeOK, TicketIds
<1>1. CASE TicketStart(r)
  <2>1. ASSUME NEW q \in TicketIds, tPc'[q] = "write", tCall'[q].kind = "update"
        PROVE  tPc'[tCall'[q].ticket] = "done"
    <3>1. CASE q = r
      <4>1. tCall'[q] = tCall[q] /\ tickets[tCall[q].ticket] # None
        BY <1>0, <1>1, <2>1, <3>1, TicketsKept DEF T!Labels
      <4>2. tCall[q].ticket \in TicketIds
        BY <1>0, <1>1, <2>1, <3>1, <4>1, TicketsKept, TicketCallFields DEF TicketCallOK
      <4> QED BY <1>0, <1>1, <3>1, <4>1, <4>2, TicketsKept
    <3>2. CASE q # r
      <4>1. tPc[q] = "write" /\ tCall'[q] = tCall[q]
        BY <1>0, <1>1, <2>1, <3>2, TicketsKept DEF T!Labels
      <4>2. tCall[q].ticket \in TicketIds /\ tPc[tCall[q].ticket] = "done"
        BY <1>0, <2>1, <4>1, TicketCallFields DEF TicketCallOK
      <4> QED BY <1>0, <1>1, <4>1, <4>2, TicketsKept
    <3> QED BY <3>1, <3>2
  <2>2. ASSUME NEW t \in TicketIds, tickets'[t] # None
        PROVE  tPc'[t] = "done" /\ tickets'[t].created < clock'
    BY <1>0, <1>1, <2>2, TicketsKept
  <2>3. UNCHANGED tickets
    BY <1>1, TicketsKept
  <2> QED BY <2>1, <2>2, <2>3
<1>2. CASE T!Insert(r)
  <2>1. \A t \in TicketIds : tickets[t] # None => tickets[t].created \in Nat
    BY <1>0 DEF T!Row
  <2>2. \A q \in TicketIds : tPc'[q] = "write" /\ tCall'[q].kind = "update" => tPc'[tCall'[q].ticket] = "done"
    <3> SUFFICES ASSUME NEW q \in TicketIds, tPc'[q] = "write", tCall'[q].kind = "update"
                 PROVE  tPc'[tCall'[q].ticket] = "done"
      OBVIOUS
    <3>1. tPc[q] = "write" /\ tCall'[q] = tCall[q]
      BY <1>0, <1>2, TicketInserted
    <3>2. tCall[q].ticket \in TicketIds /\ tPc[tCall[q].ticket] = "done"
      BY <3>1, TicketCallFields DEF TicketCallOK
    <3> QED BY <1>0, <1>2, <3>1, <3>2, TicketInserted
  <2>3. CASE UNCHANGED <<tickets, clock>>
    BY <1>0, <1>2, <2>2, <2>3, TicketInserted
  <2>4. CASE ~UNCHANGED <<tickets, clock>>
    BY <1>0, <1>2, <2>1, <2>2, <2>4, TicketInserted
  <2> QED BY <2>3, <2>4
<1>3. CASE T!Update(r) \/ T!Remove(r)
  <2>1. \A q \in TicketIds : tPc'[q] = "write" /\ tCall'[q].kind = "update" => tPc'[tCall'[q].ticket] = "done"
    <3> SUFFICES ASSUME NEW q \in TicketIds, tPc'[q] = "write", tCall'[q].kind = "update"
                 PROVE  tPc'[tCall'[q].ticket] = "done"
      OBVIOUS
    <3>1. tPc[q] = "write" /\ tCall'[q] = tCall[q]
      BY <1>0, <1>3, TicketUpdated, TicketRemoved
    <3>2. tCall[q].ticket \in TicketIds /\ tPc[tCall[q].ticket] = "done"
      BY <3>1, TicketCallFields DEF TicketCallOK
    <3> QED BY <1>0, <1>3, <3>1, <3>2, TicketUpdated, TicketRemoved
  <2>2. \A t \in TicketIds : tickets'[t] # None =>
           tickets[t] # None /\ tickets'[t].created = tickets[t].created
    BY <1>3, NumbersKept
  <2>3. clock' = clock /\ \A t \in TicketIds : tPc[t] = "done" => tPc'[t] = "done"
    BY <1>0, <1>3, TicketUpdated, TicketRemoved
  <2> QED BY <2>1, <2>2, <2>3
<1> QED BY <1>1, <1>2, <1>3

LEMMA TicketsFreshStep ==
    ASSUME TicketInv, NEW r \in TicketIds,
           TicketStart(r) \/ T!Insert(r) \/ T!Update(r) \/ T!Remove(r)
    PROVE  TicketsFresh'
<1>0. tPc \in [TicketIds -> T!Labels] /\ tickets \in [TicketIds -> T!Row \cup {None}] /\ clock \in Nat
      /\ number \in [TicketIds -> Nat]
  BY DEF TicketInv, T!TypeOK, TicketIds
<1>1. ASSUME NEW q \in TicketIds, NEW t \in TicketIds,
             tPc'[q] = "write", tCall'[q].kind = "create", q \notin passed', tickets'[t] # None
      PROVE  tickets'[t].number < number'[q]
  <2>1. CASE TicketStart(r) /\ q = r
    <3>1. tickets' = tickets /\ number'[r] \in T!NextNumber /\ T!Latest \cap passed = {}
      BY <1>0, <1>1, <2>1, TicketsKept DEF T!Labels
    <3>2. T!Latest # {}
      BY <1>1, <3>1, LatestIsThere DEF TicketInv
    <3>3. PICK l \in T!Latest : number'[r] = tickets[l].number + 1
      BY <3>1, <3>2 DEF T!NextNumber
    <3>4. /\ l \in T!Tickets /\ l \in TicketIds /\ tickets[l] # None /\ l \notin passed
          /\ t \in T!Tickets
          /\ tickets[t].created <= tickets[l].created
      BY <1>1, <3>1, <3>3 DEF T!Latest, T!Tickets, T!Exists, TicketIds
    <3>5. tickets[t] \in T!Row /\ tickets[l] \in T!Row
      BY <1>0, <1>1, <3>1, <3>4
    <3>6. CASE tickets[t].created = tickets[l].created
      <4>1. t = l
        BY <1>1, <3>1, <3>4, <3>6 DEF TicketInv, TicketsPlaced
      <4> QED BY <2>1, <3>1, <3>3, <3>5, <4>1 DEF T!Row
    <3>7. CASE tickets[t].created # tickets[l].created
      <4>1. tickets[t].created < tickets[l].created
        BY <3>4, <3>5, <3>7 DEF T!Row
      <4>2. tickets[t].number < tickets[l].number
        BY <3>4, <4>1 DEF TicketInv, T!TicketsHold, T!NumbersFollowCreation
      <4> QED BY <2>1, <3>1, <3>3, <3>5, <4>2 DEF T!Row
    <3> QED BY <3>6, <3>7
  <2>2. CASE TicketStart(r) /\ q # r
    <3>1. /\ tPc[q] = "write" /\ tCall[q].kind = "create" /\ q \notin passed
          /\ tickets' = tickets /\ number'[q] = number[q]
      BY <1>0, <1>1, <2>2, TicketsKept DEF T!Labels
    <3> QED BY <1>1, <3>1 DEF TicketInv, TicketsFresh
  <2>3. CASE T!Insert(r)
    <3>1. /\ tPc[q] = "write" /\ tCall[q].kind = "create" /\ q \notin passed /\ q # r
          /\ number' = number /\ tickets' = tickets
      BY <1>0, <1>1, <2>3, TicketInserted DEF T!Writing, TicketIds
    <3> QED BY <1>1, <3>1 DEF TicketInv, TicketsFresh
  <2>4. CASE T!Update(r) \/ T!Remove(r)
    <3>1. /\ tPc[q] = "write" /\ tCall[q].kind = "create" /\ q \notin passed /\ number' = number
      BY <1>0, <1>1, <2>4, TicketUpdated, TicketRemoved
    <3>2. tickets[t] # None /\ tickets'[t].number = tickets[t].number
      BY <1>1, <2>4, NumbersKept
    <3> QED BY <3>1, <3>2 DEF TicketInv, TicketsFresh
  <2> QED BY <2>1, <2>2, <2>3, <2>4
<1>2. ASSUME NEW q \in TicketIds, tPc'[q] = "write", tCall'[q].kind = "update", q \notin tStale',
             tickets'[tCall'[q].ticket] # None
      PROVE  tHeld'[q] = tickets'[tCall'[q].ticket]
  <2>1. CASE TicketStart(r) /\ q = r
    BY <1>0, <1>2, <2>1, TicketsKept DEF T!Labels
  <2>2. CASE TicketStart(r) /\ q # r
    <3>1. /\ tPc[q] = "write" /\ tCall'[q] = tCall[q] /\ q \notin tStale
          /\ tickets' = tickets /\ tHeld'[q] = tHeld[q]
      BY <1>0, <1>2, <2>2, TicketsKept DEF T!Labels
    <3> QED BY <1>2, <3>1 DEF TicketInv, TicketsFresh
  <2>3. CASE ~TicketStart(r)
    <3>1. /\ tPc[q] = "write" /\ tCall' = tCall /\ q \notin tStale /\ q # r /\ tHeld' = tHeld
      BY <1>0, <1>2, <2>3, TicketInserted, TicketUpdated, TicketRemoved
    <3>2. tCall[q].ticket \in TicketIds /\ tPc[tCall[q].ticket] = "done"
      BY <1>2, <3>1, TicketCallFields DEF TicketInv, TicketCallOK, TicketsPlaced
    <3>3. CASE T!Insert(r)
      <4>1. tickets'[tCall[q].ticket] = tickets[tCall[q].ticket]
        BY <1>0, <3>2, <3>3, TicketInserted
      <4> QED BY <1>2, <3>1, <4>1 DEF TicketInv, TicketsFresh
    <3>4. CASE T!Update(r)
      <4>1. tickets'[tCall[q].ticket] = tickets[tCall[q].ticket]
        BY <1>0, <1>2, <3>1, <3>2, <3>4, TicketUpdated DEF T!Writing, TicketIds
      <4> QED BY <1>2, <3>1, <4>1 DEF TicketInv, TicketsFresh
    <3>5. CASE T!Remove(r)
      <4>1. tickets'[tCall[q].ticket] = tickets[tCall[q].ticket]
        BY <1>0, <1>2, <3>1, <3>2, <3>5, TicketRemoved
      <4> QED BY <1>2, <3>1, <4>1 DEF TicketInv, TicketsFresh
    <3> QED BY <2>3, <3>3, <3>4, <3>5
  <2> QED BY <2>1, <2>2, <2>3
<1> QED BY <1>1, <1>2 DEF TicketsFresh

LEMMA NumbersFollowStep ==
    ASSUME TicketInv, NEW r \in TicketIds,
           TicketStart(r) \/ T!Insert(r) \/ T!Update(r) \/ T!Remove(r)
    PROVE  T!NumbersFollowCreation'
<1>0. /\ tPc \in [TicketIds -> T!Labels] /\ tickets \in [TicketIds -> T!Row \cup {None}] /\ clock \in Nat
      /\ \A t \in TicketIds : tickets[t] # None => tickets[t].created \in Nat /\ tickets[t].number \in Nat
  BY DEF TicketInv, T!TypeOK, TicketIds, T!Row
<1> SUFFICES ASSUME NEW s \in TicketIds, NEW t \in TicketIds, tickets'[s] # None, tickets'[t] # None,
                    tickets'[s].created < tickets'[t].created, t \notin passed'
             PROVE  tickets'[s].number < tickets'[t].number
  BY DEF T!NumbersFollowCreation, T!Tickets, T!Exists, TicketIds
<1>1. ASSUME tickets[s] # None, tickets[t] # None, t \notin passed, tickets[s].created < tickets[t].created
      PROVE  tickets[s].number < tickets[t].number
  BY <1>1 DEF TicketInv, T!TicketsHold, T!NumbersFollowCreation, T!Tickets, T!Exists, TicketIds
<1>2. CASE TicketStart(r)
  BY <1>1, <1>2, TicketsKept
<1>3. CASE T!Update(r) \/ T!Remove(r)
  <2>1. passed' = passed
    BY <1>3, TicketUpdated, TicketRemoved
  <2> QED BY <1>1, <1>3, <2>1, NumbersKept
<1>4. CASE T!Insert(r)
  <2>1. CASE UNCHANGED <<tickets, clock, passed>>
    BY <1>1, <2>1
  <2>2. CASE ~UNCHANGED <<tickets, clock, passed>>
    <3>1. /\ tickets' = [tickets EXCEPT ![r] =
                [number |-> number[r], created |-> clock, status |-> tCall[r].status,
                 resolved |-> FALSE, closed |-> FALSE]]
          /\ passed \subseteq passed' /\ tPc[r] = "write" /\ tCall[r].kind = "create"
      BY <1>4, <2>2, TicketInserted
    <3>2. CASE s # r /\ t # r
      BY <1>0, <1>1, <3>1, <3>2
    <3>3. CASE t = r /\ s # r
      <4>1. tickets'[s] = tickets[s] /\ tickets'[t].number = number[r]
        BY <1>0, <3>1, <3>3
      <4> QED BY <3>1, <3>3, <4>1 DEF TicketInv, TicketsFresh
    <3>4. CASE s = r /\ t # r
      <4>1. tickets'[t] = tickets[t] /\ tickets'[s].created = clock
        BY <1>0, <3>1, <3>4
      <4>2. tickets[t].created < clock /\ tickets[t].created \in Nat
        BY <1>0, <4>1 DEF TicketInv, TicketsPlaced
      <4> QED BY <1>0, <4>1, <4>2
    <3>5. CASE s = r /\ t = r
      <4>1. tickets'[r].created = clock
        BY <1>0, <3>1
      <4> QED BY <1>0, <3>5, <4>1
    <3> QED BY <3>2, <3>3, <3>4, <3>5
  <2> QED BY <2>1, <2>2
<1> QED BY <1>2, <1>3, <1>4

LEMMA TimesAgreeStep ==
    ASSUME TicketInv, NEW r \in TicketIds,
           TicketStart(r) \/ T!Insert(r) \/ T!Update(r) \/ T!Remove(r)
    PROVE  T!ClosedWasResolved' /\ T!ReopenedHasNoTimes'
<1>0. /\ tickets \in [TicketIds -> T!Row \cup {None}]
      /\ \A t \in TicketIds : tickets[t] # None =>
            tickets[t].status \in T!Status /\ tickets[t].closed \in BOOLEAN /\ tickets[t].resolved \in BOOLEAN
  BY DEF TicketInv, T!TypeOK, TicketIds, T!Row
<1> SUFFICES ASSUME NEW t \in TicketIds, tickets'[t] # None, t \notin strays'
             PROVE  /\ tickets'[t].closed => tickets'[t].resolved
                    /\ tickets'[t].status \in {"new", "open", "pending"} =>
                          ~tickets'[t].resolved /\ ~tickets'[t].closed
  BY DEF T!ClosedWasResolved, T!ReopenedHasNoTimes, T!Tickets, T!Exists, TicketIds
<1>1. ASSUME tickets[t] # None, t \notin strays
      PROVE  /\ tickets[t].closed => tickets[t].resolved
             /\ tickets[t].status \in {"new", "open", "pending"} =>
                   ~tickets[t].resolved /\ ~tickets[t].closed
  BY <1>1 DEF TicketInv, T!TicketsHold, T!ClosedWasResolved, T!ReopenedHasNoTimes, T!Tickets, T!Exists,
              TicketIds
<1>2. CASE TicketStart(r)
  BY <1>1, <1>2, TicketsKept
<1>3. CASE T!Remove(r)
  BY <1>0, <1>1, <1>3, TicketRemoved
<1>4. CASE T!Insert(r)
  <2>1. strays' = strays
    BY <1>4, TicketInserted
  <2>2. CASE tickets'[t] = tickets[t]
    BY <1>1, <2>1, <2>2
  <2>3. CASE tickets'[t] # tickets[t]
    BY <1>0, <1>4, <2>3, TicketInserted
  <2> QED BY <2>2, <2>3
<1>5. CASE T!Update(r)
  <2>1. t \notin strays
    BY <1>5, TicketUpdated
  <2>2. CASE tickets'[t] = tickets[t]
    BY <1>1, <2>1, <2>2
  <2>3. CASE tickets'[t] # tickets[t]
    <3>1. /\ t = tCall[r].ticket /\ tickets[t] \in T!Row /\ tickets[t] # None
          /\ tickets'[t] = T!Updated(r) /\ tPc[r] = "write" /\ tCall[r].kind = "update"
          /\ tCall[r].status \in T!Status
      BY <1>0, <1>5, <2>3, TicketUpdated
    <3>2. r \notin tStale /\ ~(tCall[r].status = "new" /\ tHeld[r].status \in T!Settled)
      BY <1>5, <2>3, <3>1, TicketUpdated
    <3>3. tHeld[r] = tickets[t]
      BY <3>1, <3>2 DEF TicketInv, TicketsFresh
    <3>4. /\ T!Updated(r).status = tCall[r].status
          /\ T!Updated(r).resolved =
                IF T!Reopens(tickets[t].status, tCall[r].status) THEN FALSE
                ELSE T!SetsResolved(tickets[t], tCall[r].status) \/ tickets[t].resolved
          /\ T!Updated(r).closed =
                IF T!Reopens(tickets[t].status, tCall[r].status) THEN FALSE
                ELSE T!SetsClosed(tickets[t], tCall[r].status) \/ tickets[t].closed
      BY <3>1, <3>3, UpdatedKeeps
    <3> QED BY <1>0, <1>1, <2>1, <3>1, <3>2, <3>3, <3>4
        DEF T!Reopens, T!SetsResolved, T!SetsClosed, T!Settled, T!Status
  <2> QED BY <2>2, <2>3
<1> QED BY <1>2, <1>3, <1>4, <1>5

LEMMA TicketsStep == TicketInv /\ [T!Next]_T!vars => TicketInv'
<1> SUFFICES ASSUME TicketInv, [T!Next]_T!vars PROVE TicketInv'
  OBVIOUS
<1>1. CASE T!Next
  <2>1. PICK r \in TicketIds : TicketStart(r) \/ T!Insert(r) \/ T!Update(r) \/ T!Remove(r)
    BY <1>1 DEF T!Next, TicketStart, TicketIds
  <2> QED BY <2>1, TicketTyped, PlacedStep, TicketsFreshStep, NumbersFollowStep, TimesAgreeStep
      DEF TicketInv, T!TicketsHold
<1>2. CASE UNCHANGED T!vars
  BY <1>2
  DEF T!vars, TicketInv, T!TypeOK, TicketCallOK, TicketsPlaced, TicketsFresh, T!TicketsHold,
      T!NumbersFollowCreation, T!ClosedWasResolved, T!ReopenedHasNoTimes, T!Tickets, T!Exists
<1> QED BY <1>1, <1>2

LEMMA NumberTakenStep ==
    ASSUME TicketInv, [T!Next]_T!vars, NEW q \in TicketIds,
           tPc[q] = "write", tCall[q].kind = "create", tAnswer'[q] = "error"
    PROVE  q \in passed
<1>0. tAnswer[q] = "none" /\ tAnswer \in [TicketIds -> T!Answers]
  BY DEF TicketInv, TicketCallOK, T!TypeOK, TicketIds
<1>1. CASE UNCHANGED T!vars
  BY <1>0, <1>1 DEF T!vars
<1>2. CASE T!Next
  <2>1. PICK r \in TicketIds : TicketStart(r) \/ T!Insert(r) \/ T!Update(r) \/ T!Remove(r)
    BY <1>2 DEF T!Next, TicketStart, TicketIds
  <2>2. r = q
    BY <1>0, <2>1
    DEF TicketStart, T!Start, T!FindContact, T!ReadLatest, T!FindTicket, T!NoAssignee, T!Insert,
        T!Update, T!Remove, T!Fail, T!Reply, T!Goto
  <2>3. T!Insert(q) /\ T!Taken(number[q])
    BY <1>0, <2>1, <2>2
    DEF TicketStart, T!Start, T!FindContact, T!ReadLatest, T!FindTicket, T!NoAssignee, T!Insert,
        T!Update, T!Remove, T!Fail, T!Reply, T!Goto
  <2>4. PICK t \in TicketIds : tickets[t] # None /\ tickets[t].number = number[q]
    BY <2>3 DEF T!Taken, T!Tickets, T!Exists, TicketIds
  <2>5. number[q] \in Nat
    BY DEF TicketInv, T!TypeOK, TicketIds
  <2> QED BY <2>4, <2>5 DEF TicketInv, TicketsFresh
<1> QED BY <1>1, <1>2

LEMMA TicketsWithin == MCSpec => T!Spec
<1>1. MCInit => T!Init
  BY DEF MCInit
<1>2. [MCNext]_<<part, hVars, vars, tVars, cVars, sVars, mVars, rVars>> => [T!Next]_T!vars
  BY DEF MCNext, tVars, T!vars
<1> QED BY <1>1, <1>2, PTL DEF MCSpec, T!Spec

LEMMA TicketInvHolds == MCSpec => []TicketInv
<1>1. T!Spec => []TicketInv
  BY TicketsInit, TicketsStep, PTL DEF T!Spec
<1> QED BY <1>1, TicketsWithin, PTL

\* Among the tickets there are, a later one has a higher number, and the
\* times agree with the status, unless a create was passed or an update was
\* outdated (tickets.service.ts, ticket-number.util.ts).
THEOREM TicketsHolding == MCSpec => []TicketsHold
<1>1. TicketInv => TicketsHold
  BY DEF TicketInv, TicketsHold
<1> QED BY <1>1, TicketInvHolds, PTL

\* The unique key refuses a number only to a create that was passed, or that
\* counted from the ticket of one that was.
THEOREM NumbersTaken == MCSpec => NumberTakenOnlyIfPassed
<1>1. TicketInv /\ [T!Next]_T!vars =>
        [\A r \in Requests \cup {r1, r5} :
            tPc[r] = "write" /\ tCall[r].kind = "create" /\ tAnswer'[r] = "error" => r \in passed]_T!vars
  BY NumberTakenStep DEF TicketIds
<1> QED BY <1>1, TicketInvHolds, TicketsWithin, PTL
    DEF T!Spec, NumberTakenOnlyIfPassed, T!NumberTakenOnlyIfPassed

-----------------------------------------------------------------------------
(***************************************************************************)
(* The composition                                                         *)
(***************************************************************************)

LEMMA DealsWithin == MCSpec => Spec
<1>1. MCInit => Init
  BY DEF MCInit
<1>2. [MCNext]_<<part, hVars, vars, tVars, cVars, sVars, mVars, rVars>> => [Next]_vars
  BY DEF MCNext, vars
<1> QED BY <1>1, <1>2, PTL DEF MCSpec, Spec

\* Where pipelines run beside the other components, their promises hold as
\* well: rows stay linked and deals follow their stages.
THEOREM DealsHoldBeside == MCSpec => []RowsLinked /\ DealsHold
BY DealsWithin, LinksHold, DealsHolding

-----------------------------------------------------------------------------
(***************************************************************************)
(* Companies                                                               *)
(***************************************************************************)

Walked == [at: CompanyIds, visited: SUBSET CompanyIds]
SetsParent(r) == hCall[r].parent \notin {None, C!Keep}

\* Where a request is says what it was called with and what it has read.
PlacedCall(r) ==
    /\ hPc[r] # "idle" => hCall[r] \in CompanyCalls
    /\ hPc[r] = "parent" => C!Kind(r) \in {"createCompany", "updateCompany"}
    /\ hPc[r] = "parent" /\ C!Kind(r) = "updateCompany" => SetsParent(r)
    /\ hPc[r] = "insertCompany" => C!Kind(r) = "createCompany"
    /\ hPc[r] = "walk" => C!Kind(r) = "updateCompany" /\ SetsParent(r) /\ hHeld[r] \in Walked
    /\ hPc[r] = "writeCompany" => C!Kind(r) = "updateCompany"
    /\ hPc[r] = "writeCompany" /\ SetsParent(r) => hHeld[r] \in Walked
    /\ hPc[r] = "company" => C!Kind(r) \in {"updateCompany", "removeCompany"}
    /\ hPc[r] \in {"countContacts", "countSubsidiaries", "deleteCompany"} => C!Kind(r) = "removeCompany"
    /\ hPc[r] \in {"linkTo", "link"} => C!Kind(r) = "linkContact"
    /\ hPc[r] \in {"contactOf", "companyOf"} => C!Kind(r) \in {"logActivity", "updateActivity"}
    /\ hPc[r] \in {"contactOf", "companyOf", "writeActivity"} /\ C!Kind(r) = "updateActivity"
          => hHeld[r] \in C!Activity
    /\ hPc[r] = "insertActivity" => C!Kind(r) = "logActivity"
    /\ hPc[r] = "writeActivity" => C!Kind(r) = "updateActivity"
    /\ hPc[r] \in {"activity", "deleteActivity"} => C!Kind(r) \in {"updateActivity", "removeActivity"}
    /\ hPc[r] \in {"deal", "deleteDeal"} => C!Kind(r) = "removeDeal"

CompanyCallOK == \A r \in Requests : PlacedCall(r)

CompaniesTyped ==
    C!TypeOK /\ CompanyCallOK /\ hHeld = [q \in Requests |-> hHeld[q]]

CompanyStep(r) ==
    \/ C!Start(r)
    \/ C!FindCompany(r) \/ C!FindParent(r) \/ C!Walk(r) \/ C!InsertCompany(r) \/ C!WriteCompany(r)
    \/ C!CountContacts(r) \/ C!CountSubsidiaries(r) \/ C!DeleteCompany(r)
    \/ C!FindCompanyToLink(r) \/ C!LinkContact(r)
    \/ C!FindActivity(r) \/ C!FindContactOf(r) \/ C!FindCompanyOf(r)
    \/ C!InsertActivity(r) \/ C!WriteActivity(r) \/ C!DeleteActivity(r)
    \/ C!FindDeal(r) \/ C!DeleteDeal(r)

LEMMA CompanyCallFields ==
    ASSUME NEW c \in CompanyCalls
    PROVE  /\ c.kind \in {"createCompany", "updateCompany", "removeCompany", "linkContact",
                          "logActivity", "updateActivity", "removeActivity", "removeDeal"}
           /\ c.kind \in {"createCompany", "updateCompany", "removeCompany"} => c.company \in CompanyIds
           /\ c.kind = "createCompany" => c.parent \in CompanyIds \cup {None}
           /\ c.kind = "updateCompany" => c.parent \in CompanyIds \cup {None, C!Keep}
           /\ c.kind = "linkContact" => c.contact \in ContactIds /\ c.company \in CompanyIds \cup {None}
           /\ c.kind \in {"logActivity", "updateActivity", "removeActivity"} => c.activity \in ActivityIds
           /\ c.kind = "logActivity" =>
                 /\ c.contact \in ContactIds \cup {None} /\ c.company \in CompanyIds \cup {None}
                 /\ c.deal \in {deal, None}
           /\ c.kind = "updateActivity" =>
                 /\ c.contact \in ContactIds \cup {None, C!Keep}
                 /\ c.company \in CompanyIds \cup {None, C!Keep}
                 /\ c.deal \in {deal, None, C!Keep}
           /\ c.kind = "removeDeal" => c.deal = deal
<1>1. \/ c \in C!CreateCompanyCall \/ c \in C!UpdateCompanyCall \/ c \in C!RemoveCompanyCall
      \/ c \in C!LinkCall \/ c \in C!LogCall \/ c \in C!RelogCall \/ c \in C!UnlogCall
      \/ c \in C!RemoveDealCall
  BY PartsAssumption DEF C!CompaniesAssumption
<1>2. CASE c \in C!CreateCompanyCall
  BY <1>2 DEF C!CreateCompanyCall
<1>3. CASE c \in C!UpdateCompanyCall
  BY <1>3 DEF C!UpdateCompanyCall
<1>4. CASE c \in C!RemoveCompanyCall
  BY <1>4 DEF C!RemoveCompanyCall
<1>5. CASE c \in C!LinkCall
  BY <1>5 DEF C!LinkCall
<1>6. CASE c \in C!LogCall
  BY <1>6 DEF C!LogCall
<1>7. CASE c \in C!RelogCall
  BY <1>7 DEF C!RelogCall
<1>8. CASE c \in C!UnlogCall
  BY <1>8 DEF C!UnlogCall
<1>9. CASE c \in C!RemoveDealCall
  BY <1>9 DEF C!RemoveDealCall
<1> QED BY <1>1, <1>2, <1>3, <1>4, <1>5, <1>6, <1>7, <1>8, <1>9

LEMMA NoCompany ==
    /\ None \notin CompanyIds \cup ContactIds /\ C!Keep \notin CompanyIds \cup ContactIds
    /\ None # C!Keep /\ None \notin C!Company /\ None \notin C!Activity
    /\ None # deal /\ C!Keep # deal
BY PartsAssumption, Zenon DEF C!CompaniesAssumption

CompanyLabels ==
    {"idle", "done"} \cup
    {"parent", "walk", "company", "countContacts", "countSubsidiaries", "deleteCompany",
     "linkTo", "link", "contactOf", "companyOf", "insertActivity", "activity",
     "writeActivity", "deleteActivity", "insertCompany", "writeCompany", "deal", "deleteDeal"}
CompanyAnswers == {"none", "ok", "notFound", "forbidden", "error"} \cup {"circular", "refused"}

\* What a step leaves of the handlers: the other requests stay as they are.
CompanyMoved(r) ==
    /\ hPc' \in [Requests -> CompanyLabels] /\ hAnswer' \in [Requests -> CompanyAnswers]
    /\ hCall' \in [Requests -> {C!NoCall} \cup CompanyCalls]
    /\ hHeld' = [q \in Requests |-> hHeld'[q]]
    /\ \A q \in Requests \ {r} : hPc'[q] = hPc[q] /\ hCall'[q] = hCall[q] /\ hHeld'[q] = hHeld[q]
    /\ hPc[r] = "idle" => hCall'[r] \in CompanyCalls
    /\ hPc[r] # "idle" => hCall'[r] = hCall[r]
    /\ hPc[r] # "done" /\ hPc'[r] # "idle"

LEMMA CompanyContinues ==
    ASSUME CompaniesTyped, NEW r \in Requests, hPc[r] \notin {"idle", "done"},
           NEW label \in CompanyLabels \ {"idle"}, NEW what, C!Continue(r, label, what)
    PROVE  CompanyMoved(r) /\ hPc'[r] = label /\ hHeld'[r] = what
BY DEF C!Continue, CompaniesTyped, C!TypeOK, C!Handling, CompanyLabels, CompanyAnswers, CompanyMoved

LEMMA CompanyGoes ==
    ASSUME CompaniesTyped, NEW r \in Requests, hPc[r] \notin {"idle", "done"},
           NEW label \in CompanyLabels \ {"idle"}, C!Goto(r, label)
    PROVE  CompanyMoved(r) /\ hPc'[r] = label /\ hHeld'[r] = hHeld[r]
BY CompanyContinues DEF C!Goto

LEMMA CompanyReplies ==
    ASSUME CompaniesTyped, NEW r \in Requests, hPc[r] \notin {"idle", "done"},
           NEW what \in CompanyAnswers, C!Reply(r, what)
    PROVE  CompanyMoved(r) /\ hPc'[r] = "done"
BY DEF C!Reply, CompaniesTyped, C!TypeOK, C!Handling, CompanyLabels, CompanyAnswers, CompanyMoved

LEMMA CompanyBegins ==
    ASSUME CompaniesTyped, NEW r \in Requests, NEW c \in CompanyCalls,
           NEW label \in CompanyLabels \ {"idle"}, C!Begin(r, c, label)
    PROVE  CompanyMoved(r) /\ hPc[r] = "idle" /\ hPc'[r] = label /\ hCall'[r] = c
BY DEF C!Begin, CompaniesTyped, C!TypeOK, C!Handling, CompanyLabels, CompanyAnswers, CompanyMoved

LEMMA CompanyMoves ==
    ASSUME CompaniesTyped, NEW r \in Requests, CompanyStep(r)
    PROVE  CompanyMoved(r)
<1> USE CompanyContinues, CompanyGoes, CompanyReplies, CompanyBegins DEF C!Fails, CompanyLabels, CompanyAnswers
<1>1. CASE C!Start(r)
  BY <1>1 DEF C!Start, C!StartWith
<1>2. CASE C!FindCompany(r)
  BY <1>2 DEF C!FindCompany
<1>3. CASE C!FindParent(r)
  BY <1>3 DEF C!FindParent
<1>4. CASE C!Walk(r)
  BY <1>4 DEF C!Walk
<1>5. CASE C!InsertCompany(r)
  BY <1>5 DEF C!InsertCompany
<1>6. CASE C!WriteCompany(r)
  BY <1>6 DEF C!WriteCompany
<1>7. CASE C!CountContacts(r)
  BY <1>7 DEF C!CountContacts
<1>8. CASE C!CountSubsidiaries(r)
  BY <1>8 DEF C!CountSubsidiaries
<1>9. CASE C!DeleteCompany(r)
  BY <1>9 DEF C!DeleteCompany
<1>10. CASE C!FindCompanyToLink(r)
  BY <1>10 DEF C!FindCompanyToLink
<1>11. CASE C!LinkContact(r)
  BY <1>11 DEF C!LinkContact
<1>12. CASE C!FindActivity(r)
  BY <1>12 DEF C!FindActivity
<1>13. CASE C!FindContactOf(r)
  BY <1>13 DEF C!FindContactOf
<1>14. CASE C!FindCompanyOf(r)
  BY <1>14 DEF C!FindCompanyOf
<1>15. CASE C!InsertActivity(r)
  BY <1>15 DEF C!InsertActivity
<1>16. CASE C!WriteActivity(r)
  BY <1>16 DEF C!WriteActivity
<1>17. CASE C!DeleteActivity(r)
  BY <1>17 DEF C!DeleteActivity
<1>18. CASE C!FindDeal(r)
  BY <1>18 DEF C!FindDeal
<1>19. CASE C!DeleteDeal(r)
  BY <1>19 DEF C!DeleteDeal
<1> QED BY <1>1, <1>2, <1>3, <1>4, <1>5, <1>6, <1>7, <1>8, <1>9, <1>10, <1>11, <1>12, <1>13, <1>14, <1>15, <1>16, <1>17, <1>18, <1>19 DEF CompanyStep


\* What the look-up of the parent goes on with.
LEMMA ParentFound ==
    ASSUME CompaniesTyped, NEW r \in Requests, C!FindParent(r)
    PROVE  \/ hPc'[r] = "done"
           \/ hPc'[r] = "insertCompany" /\ C!Kind(r) = "createCompany"
           \/ /\ hPc'[r] = "walk" /\ C!Kind(r) = "updateCompany" /\ SetsParent(r)
              /\ hHeld'[r] = [at |-> hCall[r].parent, visited |-> {}]
<1>1. /\ hPc[r] = "parent" /\ C!Kind(r) \in {"createCompany", "updateCompany"}
      /\ C!Kind(r) = "updateCompany" => SetsParent(r)
  BY DEF C!FindParent, CompaniesTyped, CompanyCallOK, PlacedCall
<1>2. \/ C!Reply(r, "refused") \/ C!Reply(r, "notFound")
      \/ C!Kind(r) = "createCompany" /\ C!Goto(r, "insertCompany")
      \/ /\ C!Kind(r) = "updateCompany" /\ SetsParent(r)
         /\ C!Continue(r, "walk", [at |-> hCall[r].parent, visited |-> {}])
  <2>1. CASE C!Kind(r) = "createCompany"
    BY <2>1 DEF C!FindParent
  <2>2. CASE C!Kind(r) = "updateCompany"
    <3>1. hCall[r].parent # None
      BY <1>1, <2>2 DEF SetsParent
    <3> QED BY <1>1, <2>2, <3>1 DEF C!FindParent
  <2> QED BY <1>1, <2>1, <2>2
<1>3. CASE C!Reply(r, "refused") \/ C!Reply(r, "notFound")
  BY <1>1, <1>3, CompanyReplies DEF CompanyAnswers
<1>4. CASE C!Kind(r) = "createCompany" /\ C!Goto(r, "insertCompany")
  BY <1>1, <1>4, CompanyGoes DEF CompanyLabels
<1>5. CASE /\ C!Kind(r) = "updateCompany" /\ SetsParent(r)
           /\ C!Continue(r, "walk", [at |-> hCall[r].parent, visited |-> {}])
  BY <1>1, <1>5, CompanyContinues DEF CompanyLabels
<1> QED BY <1>2, <1>3, <1>4, <1>5

LEMMA OwnCall ==
    ASSUME CompaniesTyped, NEW r \in Requests, CompanyStep(r)
    PROVE  PlacedCall(r)'
<1> USE CompanyContinues, CompanyGoes, CompanyReplies, CompanyBegins, CompanyCallFields, NoCompany
    DEF C!Fails, CompanyLabels, CompanyAnswers, CompanyMoved, PlacedCall, C!Kind, SetsParent, CompaniesTyped,
        CompanyCallOK
<1>1. CASE C!Start(r)
  <2>1. ASSUME NEW kind, NEW label \in CompanyLabels \ {"idle"}, C!StartWith(r, kind, label)
        PROVE  hPc'[r] = label /\ hCall'[r] \in CompanyCalls /\ hCall'[r].kind = kind
    BY <2>1 DEF C!StartWith
  <2> QED BY <1>1, <2>1 DEF C!Start
<1>2. CASE C!FindCompany(r)
  BY <1>2 DEF C!FindCompany
<1>3. CASE C!FindParent(r)
  <2>1. hPc[r] = "parent" /\ hCall[r] \in CompanyCalls /\ CompanyMoved(r)
    BY <1>3, CompanyMoves DEF CompanyStep, C!FindParent
  <2>2. \/ hPc'[r] = "done"
        \/ hPc'[r] = "insertCompany" /\ C!Kind(r) = "createCompany"
        \/ /\ hPc'[r] = "walk" /\ C!Kind(r) = "updateCompany" /\ SetsParent(r)
           /\ hHeld'[r] = [at |-> hCall[r].parent, visited |-> {}]
    BY <1>3, <2>1, ParentFound
  <2>3. hPc'[r] = "walk" => hHeld'[r] \in Walked
    BY <2>1, <2>2 DEF Walked
  <2> QED BY <2>1, <2>2, <2>3
<1>4. CASE C!Walk(r)
  <2>1. hPc[r] = "walk" /\ hCall[r] \in CompanyCalls /\ CompanyMoved(r) /\ hHeld[r] \in Walked
    BY <1>4, CompanyMoves DEF CompanyStep, C!Walk
  <2> DEFINE next == IF C!Exists(hHeld[r].at) THEN companies[hHeld[r].at].parent ELSE None
             visited == hHeld[r].visited \cup {hHeld[r].at}
  <2>2. next \in CompanyIds \cup {None} /\ visited \in SUBSET CompanyIds
    BY <2>1 DEF Walked, C!Exists, C!TypeOK, C!Company
  <2>3. \/ hPc'[r] = "done"
        \/ hPc'[r] = "writeCompany" /\ hHeld'[r] = hHeld[r]
        \/ hPc'[r] = "walk" /\ next # None /\ hHeld'[r] = [at |-> next, visited |-> visited]
    <3> HIDE DEF next, visited
    <3>1. \/ C!Reply(r, "circular") \/ C!Goto(r, "writeCompany")
          \/ next # None /\ C!Continue(r, "walk", [at |-> next, visited |-> visited])
      BY <1>4, Zenon DEF C!Walk, next, visited
    <3> QED BY <2>1, <3>1
  <2>4. hPc'[r] = "walk" => hHeld'[r] \in Walked
    <3> HIDE DEF next, visited
    <3> QED BY <2>2, <2>3 DEF Walked
  <2> QED BY <2>1, <2>3, <2>4
<1>5. CASE C!InsertCompany(r)
  BY <1>5 DEF C!InsertCompany
<1>6. CASE C!WriteCompany(r)
  BY <1>6 DEF C!WriteCompany
<1>7. CASE C!CountContacts(r)
  BY <1>7 DEF C!CountContacts
<1>8. CASE C!CountSubsidiaries(r)
  BY <1>8 DEF C!CountSubsidiaries
<1>9. CASE C!DeleteCompany(r)
  BY <1>9 DEF C!DeleteCompany
<1>10. CASE C!FindCompanyToLink(r)
  BY <1>10 DEF C!FindCompanyToLink
<1>11. CASE C!LinkContact(r)
  BY <1>11 DEF C!LinkContact
<1>12. CASE C!FindActivity(r)
  <2>1. hPc[r] = "activity" /\ hCall[r] \in CompanyCalls /\ CompanyMoved(r)
    BY <1>12, CompanyMoves DEF CompanyStep, C!FindActivity
  <2>2. activities[hCall[r].activity] \in C!Activity \cup {None}
    BY <2>1 DEF C!TypeOK
  <2>3. \/ hPc'[r] = "done"
        \/ /\ hPc'[r] \in {"contactOf", "deleteActivity"} /\ hHeld'[r] = activities[hCall[r].activity]
           /\ hHeld'[r] # None
           /\ hPc'[r] = "contactOf" => C!Kind(r) # "removeActivity"
    BY <1>12, <2>1 DEF C!FindActivity
  <2> QED BY <2>1, <2>2, <2>3
<1>13. CASE C!FindContactOf(r)
  BY <1>13 DEF C!FindContactOf
<1>14. CASE C!FindCompanyOf(r)
  BY <1>14 DEF C!FindCompanyOf
<1>15. CASE C!InsertActivity(r)
  BY <1>15 DEF C!InsertActivity
<1>16. CASE C!WriteActivity(r)
  BY <1>16 DEF C!WriteActivity
<1>17. CASE C!DeleteActivity(r)
  BY <1>17 DEF C!DeleteActivity
<1>18. CASE C!FindDeal(r)
  BY <1>18 DEF C!FindDeal
<1>19. CASE C!DeleteDeal(r)
  BY <1>19 DEF C!DeleteDeal
<1> QED BY <1>1, <1>2, <1>3, <1>4, <1>5, <1>6, <1>7, <1>8, <1>9, <1>10, <1>11, <1>12, <1>13, <1>14, <1>15, <1>16, <1>17, <1>18, <1>19 DEF CompanyStep

CompanyWrite(r) ==
    \/ C!InsertCompany(r) \/ C!WriteCompany(r) \/ C!DeleteCompany(r) \/ C!LinkContact(r)
    \/ C!InsertActivity(r) \/ C!WriteActivity(r) \/ C!DeleteActivity(r) \/ C!DeleteDeal(r)

LEMMA CompanyReads ==
    ASSUME NEW r \in Requests, CompanyStep(r), ~CompanyWrite(r)
    PROVE  UNCHANGED <<companies, contacts, activities, cDeals, moved, misplaced, cAged, blurred>>
<1>1. UNCHANGED <<C!tables, C!history>>
  BY Zenon DEF CompanyStep, CompanyWrite, C!Start, C!StartWith, C!FindCompany, C!FindParent, C!Walk, C!CountContacts,
     C!CountSubsidiaries, C!FindCompanyToLink, C!FindActivity, C!FindContactOf, C!FindCompanyOf, C!FindDeal
<1> QED BY <1>1 DEF C!tables, C!history

\* What a write of the parent does.
Rewritten(r) == [companies EXCEPT ![hCall[r].company].parent = hCall[r].parent]
\* What a removal does to the companies.
Removed(c) ==
    [o \in CompanyIds |->
        IF o = c THEN None ELSE IF o \in C!SubsidiariesOf(c) THEN [parent |-> None] ELSE companies[o]]

LEMMA CompanyInserted ==
    ASSUME CompaniesTyped, NEW r \in Requests, C!InsertCompany(r)
    PROVE  /\ hPc[r] = "insertCompany" /\ C!Kind(r) = "createCompany" /\ hPc'[r] = "done"
           /\ hCall[r].company \in CompanyIds /\ hCall[r].parent \in CompanyIds \cup {None}
           /\ UNCHANGED <<contacts, activities, cDeals, moved, misplaced, blurred>>
           /\ \/ UNCHANGED <<companies, cAged>>
              \/ /\ hCall[r].parent # None => C!Exists(hCall[r].parent)
                 /\ companies' = [companies EXCEPT ![hCall[r].company] = [parent |-> hCall[r].parent]]
                 /\ cAged' = cAged \cup {q \in C!At("deleteCompany") : hCall[q].company = hCall[r].parent}
<1>1. /\ hPc[r] = "insertCompany" /\ C!Kind(r) = "createCompany" /\ hPc'[r] = "done"
      /\ hCall[r].company \in CompanyIds /\ hCall[r].parent \in CompanyIds \cup {None}
  BY CompanyCallFields, CompanyReplies
  DEF C!InsertCompany, CompaniesTyped, CompanyCallOK, PlacedCall, C!Kind, C!Fails, CompanyAnswers
<1> QED BY <1>1 DEF C!InsertCompany

LEMMA CompanyWritten ==
    ASSUME CompaniesTyped, NEW r \in Requests, C!WriteCompany(r)
    PROVE  /\ hPc[r] = "writeCompany" /\ C!Kind(r) = "updateCompany" /\ hPc'[r] = "done"
           /\ hCall[r].company \in CompanyIds /\ hCall[r].parent \in CompanyIds \cup {None, C!Keep}
           /\ UNCHANGED <<contacts, activities, cDeals, blurred>>
           /\ \/ UNCHANGED <<companies, moved, misplaced, cAged>>
              \/ /\ C!Exists(hCall[r].company)
                 /\ SetsParent(r) => C!Exists(hCall[r].parent)
                 /\ IF hCall[r].parent = C!Keep THEN UNCHANGED companies /\ moved' = moved
                    ELSE /\ companies' = Rewritten(r)
                         /\ moved' = moved \cup (C!Walking \ {r})
                 /\ misplaced' = IF r \in moved THEN misplaced \cup {hCall[r].company} ELSE misplaced
                 /\ cAged' = cAged \cup {q \in C!At("deleteCompany") : hCall[q].company = hCall[r].parent}
<1>1. /\ hPc[r] = "writeCompany" /\ C!Kind(r) = "updateCompany" /\ hPc'[r] = "done"
      /\ hCall[r].company \in CompanyIds /\ hCall[r].parent \in CompanyIds \cup {None, C!Keep}
  BY CompanyCallFields, CompanyReplies
  DEF C!WriteCompany, CompaniesTyped, CompanyCallOK, PlacedCall, C!Kind, C!Fails, CompanyAnswers
<1> QED BY <1>1 DEF C!WriteCompany, SetsParent, Rewritten

LEMMA CompanyDeleted ==
    ASSUME CompaniesTyped, NEW r \in Requests, C!DeleteCompany(r)
    PROVE  /\ hPc[r] = "deleteCompany" /\ C!Kind(r) = "removeCompany" /\ hPc'[r] = "done"
           /\ hCall[r].company \in CompanyIds
           /\ UNCHANGED <<cDeals, moved, misplaced, cAged, blurred>>
           /\ \/ UNCHANGED <<companies, contacts, activities>>
              \/ /\ companies' = Removed(hCall[r].company)
                 /\ contacts' = [p \in ContactIds |->
                        IF contacts[p] = hCall[r].company THEN None ELSE contacts[p]]
                 /\ activities' = [a \in ActivityIds |->
                        IF activities[a] # None /\ activities[a].company = hCall[r].company THEN None
                        ELSE activities[a]]
<1>1. /\ hPc[r] = "deleteCompany" /\ C!Kind(r) = "removeCompany" /\ hPc'[r] = "done"
      /\ hCall[r].company \in CompanyIds
  BY CompanyCallFields, CompanyReplies
  DEF C!DeleteCompany, CompaniesTyped, CompanyCallOK, PlacedCall, C!Kind, C!Fails, CompanyAnswers
<1> QED BY <1>1 DEF C!DeleteCompany, C!history, C!tables, Removed

LEMMA ContactLinked ==
    ASSUME CompaniesTyped, NEW r \in Requests, C!LinkContact(r)
    PROVE  /\ hPc[r] = "link" /\ hCall[r].contact \in ContactIds /\ hPc'[r] = "done"
           /\ hCall[r].company \in CompanyIds \cup {None}
           /\ UNCHANGED <<companies, activities, cDeals, moved, misplaced, blurred>>
           /\ \/ UNCHANGED <<contacts, cAged>>
              \/ /\ contacts' = [contacts EXCEPT ![hCall[r].contact] = hCall[r].company]
                 /\ cAged' = cAged \cup {q \in C!At("countSubsidiaries") \cup C!At("deleteCompany") :
                                           hCall[q].company = hCall[r].company}
<1>1. /\ hPc[r] = "link" /\ hCall[r].contact \in ContactIds /\ hPc'[r] = "done"
      /\ hCall[r].company \in CompanyIds \cup {None}
  BY CompanyCallFields, CompanyReplies
  DEF C!LinkContact, CompaniesTyped, CompanyCallOK, PlacedCall, C!Kind, C!Fails, CompanyAnswers
<1> QED BY <1>1 DEF C!LinkContact

\* A row is what its columns are.
LEMMA ActivityColumns ==
    ASSUME NEW row, row = [field \in C!Named |-> row[field]],
           row["contact"] \in ContactIds \cup {None}, row["company"] \in CompanyIds \cup {None},
           row["deal"] \in {deal} \cup {None}
    PROVE  row \in C!Activity
<1>1. row = [contact |-> row["contact"], company |-> row["company"], deal |-> row["deal"]]
  BY DEF C!Named
<1> QED BY <1>1, Zenon DEF C!Activity

ActivityWrite(r) == C!InsertActivity(r) \/ C!WriteActivity(r) \/ C!DeleteActivity(r)

LEMMA ActivityWritten ==
    ASSUME CompaniesTyped, NEW r \in Requests, ActivityWrite(r)
    PROVE  /\ hPc[r] \in {"insertActivity", "writeActivity", "deleteActivity"} /\ hPc'[r] = "done"
           /\ hCall[r].activity \in ActivityIds
           /\ UNCHANGED <<companies, contacts, cDeals, moved, misplaced, cAged>>
           /\ \/ UNCHANGED <<activities, blurred>>
              \/ \E row \in C!Activity \cup {None} :
                    /\ activities' = [activities EXCEPT ![hCall[r].activity] = row]
                    /\ hPc[r] = "insertActivity" =>
                          /\ \A field \in C!Named : row[field] = hCall[r][field]
                          /\ UNCHANGED blurred
                    /\ hPc[r] = "writeActivity" =>
                          LET old == activities[hCall[r].activity]
                          IN  /\ old # None
                              /\ \A field \in C!Named :
                                    row[field] = IF hCall[r][field] = C!Keep THEN old[field]
                                                  ELSE hCall[r][field]
                              /\ blurred' = IF hHeld[r] # old THEN blurred \cup {hCall[r].activity}
                                            ELSE blurred
                    /\ hPc[r] = "deleteActivity" => row = None /\ UNCHANGED blurred
<1>1. /\ hPc[r] \in {"insertActivity", "writeActivity", "deleteActivity"} /\ hPc'[r] = "done"
      /\ hCall[r] \in CompanyCalls /\ hCall[r].activity \in ActivityIds
      /\ hPc[r] = "insertActivity" => hCall[r].kind = "logActivity"
      /\ hPc[r] = "writeActivity" => hCall[r].kind = "updateActivity"
  BY CompanyCallFields, CompanyReplies
  DEF ActivityWrite, C!InsertActivity, C!WriteActivity, C!DeleteActivity, CompaniesTyped, CompanyCallOK, PlacedCall,
      C!Kind, C!Fails, CompanyAnswers
<1>2. CASE C!InsertActivity(r)
  <2> DEFINE set == [field \in C!Named |-> hCall[r][field]]
  <2>1. set \in C!Activity
    <3>1. /\ set.contact \in ContactIds \cup {None} /\ set.company \in CompanyIds \cup {None}
          /\ set.deal \in {deal} \cup {None}
      BY <1>1, <1>2, CompanyCallFields DEF C!InsertActivity, C!Named
    <3>2. set = [field \in C!Named |-> set[field]]
      OBVIOUS
    <3> HIDE DEF set
    <3> QED BY <3>1, <3>2, ActivityColumns
  <2>2. \A field \in C!Named : set[field] = hCall[r][field]
    OBVIOUS
  <2>3. \/ UNCHANGED activities
        \/ activities' = [activities EXCEPT ![hCall[r].activity] = set]
    BY <1>2 DEF C!InsertActivity
  <2>4. hPc[r] = "insertActivity" /\ UNCHANGED <<companies, contacts, cDeals, moved, misplaced, cAged, blurred>>
    BY <1>2 DEF C!InsertActivity, C!history
  <2> HIDE DEF set
  <2> QED BY <1>1, <2>1, <2>2, <2>3, <2>4
<1>3. CASE C!WriteActivity(r)
  <2> DEFINE old == activities[hCall[r].activity]
             set == [field \in C!Named |->
                        IF hCall[r][field] = C!Keep THEN old[field] ELSE hCall[r][field]]
  <2>1. CASE old = None \/ ~C!NamedExist(r)
    BY <1>1, <1>3, <2>1 DEF C!WriteActivity
  <2>2. CASE ~(old = None \/ ~C!NamedExist(r))
    <3>1. old \in C!Activity
      BY <1>1, <2>2 DEF CompaniesTyped, C!TypeOK
    <3>2. \A field \in C!Named :
             set[field] = IF hCall[r][field] = C!Keep THEN old[field] ELSE hCall[r][field]
      OBVIOUS
    <3>3. /\ set.contact \in ContactIds \cup {None} /\ set.company \in CompanyIds \cup {None}
          /\ set.deal \in {deal} \cup {None}
      BY <1>1, <1>3, <3>1, CompanyCallFields DEF C!WriteActivity, C!Activity, C!Named
    <3>4. set = [field \in C!Named |-> set[field]]
      OBVIOUS
    <3>5. set \in C!Activity
      <4> HIDE DEF set
      <4> QED BY <3>3, <3>4, ActivityColumns
    <3>6. /\ hPc[r] = "writeActivity" /\ activities' = [activities EXCEPT ![hCall[r].activity] = set]
          /\ blurred' = (IF hHeld[r] # old THEN blurred \cup {hCall[r].activity} ELSE blurred)
          /\ UNCHANGED <<companies, contacts, cDeals, moved, misplaced, cAged>>
      BY <1>3, <2>2 DEF C!WriteActivity
    <3> HIDE DEF set
    <3> QED BY <1>1, <2>2, <3>2, <3>5, <3>6
  <2> QED BY <2>1, <2>2
<1>4. CASE C!DeleteActivity(r)
  BY <1>1, <1>4 DEF C!DeleteActivity, C!history
<1> QED BY <1>2, <1>3, <1>4 DEF ActivityWrite

LEMMA DealDeleted ==
    ASSUME CompaniesTyped, NEW r \in Requests, C!DeleteDeal(r)
    PROVE  /\ hPc[r] = "deleteDeal" /\ hPc'[r] = "done"
           /\ UNCHANGED <<companies, contacts, moved, misplaced, cAged, blurred>>
           /\ cDeals' \subseteq cDeals
           /\ \A a \in ActivityIds : activities'[a] \in {activities[a], None}
           /\ activities' = [a \in ActivityIds |-> activities'[a]]
<1>1. hPc[r] = "deleteDeal" /\ hPc'[r] = "done"
  BY CompanyReplies DEF C!DeleteDeal, C!Fails, CompanyAnswers
<1>2. /\ UNCHANGED <<companies, contacts, moved, misplaced, cAged, blurred>>
      /\ \/ UNCHANGED <<activities, cDeals>>
         \/ /\ cDeals' = cDeals \ {hCall[r].deal}
            /\ activities' = [a \in ActivityIds |->
                   IF activities[a] # None /\ activities[a].deal = hCall[r].deal THEN None
                   ELSE activities[a]]
  BY DEF C!DeleteDeal, C!history
<1>3. activities = [a \in ActivityIds |-> activities[a]]
  BY DEF CompaniesTyped, C!TypeOK
<1> QED BY <1>1, <1>2, <1>3

LEMMA CompanyTablesTyped ==
    ASSUME CompaniesTyped, NEW r \in Requests, CompanyStep(r)
    PROVE  /\ companies' \in [CompanyIds -> C!Company \cup {None}]
           /\ contacts' \in [ContactIds -> CompanyIds \cup {None}]
           /\ activities' \in [ActivityIds -> C!Activity \cup {None}]
           /\ cDeals' \in SUBSET {deal}
           /\ moved' \in SUBSET Requests /\ cAged' \in SUBSET Requests
           /\ misplaced' \in SUBSET CompanyIds /\ blurred' \in SUBSET ActivityIds
<1>0. /\ companies \in [CompanyIds -> C!Company \cup {None}]
      /\ contacts \in [ContactIds -> CompanyIds \cup {None}]
      /\ activities \in [ActivityIds -> C!Activity \cup {None}]
      /\ cDeals \in SUBSET {deal}
      /\ moved \in SUBSET Requests /\ cAged \in SUBSET Requests
      /\ misplaced \in SUBSET CompanyIds /\ blurred \in SUBSET ActivityIds
  BY DEF CompaniesTyped, C!TypeOK
<1>1. \A l : C!At(l) \subseteq Requests
  BY DEF C!At
<1>2. CASE ~CompanyWrite(r)
  BY <1>0, <1>2, CompanyReads
<1>3. CASE C!InsertCompany(r)
  <2>1. [parent |-> hCall[r].parent] \in C!Company
    BY <1>3, CompanyInserted DEF C!Company
  <2> QED BY <1>0, <1>1, <1>3, <2>1, CompanyInserted
<1>4. CASE C!WriteCompany(r)
  <2>1. CASE UNCHANGED <<companies, moved, misplaced, cAged>>
    BY <1>0, <1>4, <2>1, CompanyWritten
  <2>2. CASE ~UNCHANGED <<companies, moved, misplaced, cAged>>
    <3>1. /\ moved' \in SUBSET Requests /\ cAged' \in SUBSET Requests
          /\ misplaced' \in SUBSET CompanyIds
      BY <1>0, <1>1, <1>4, <2>2, CompanyWritten DEF C!Walking
    <3>2. CASE hCall[r].parent = C!Keep
      BY <1>0, <1>4, <2>2, <3>1, <3>2, CompanyWritten
    <3>3. CASE hCall[r].parent # C!Keep
      <4>1. /\ companies[hCall[r].company] \in C!Company /\ hCall[r].parent \in CompanyIds \cup {None}
            /\ hCall[r].company \in CompanyIds /\ companies' = Rewritten(r)
        BY <1>0, <1>4, <2>2, <3>3, CompanyWritten DEF C!Exists
      <4>2. [companies[hCall[r].company] EXCEPT !.parent = hCall[r].parent] \in C!Company
        BY <4>1 DEF C!Company
      <4>3. companies' \in [CompanyIds -> C!Company \cup {None}]
        BY <1>0, <4>1, <4>2 DEF Rewritten
      <4> QED BY <1>0, <1>4, <3>1, <4>3, CompanyWritten
    <3> QED BY <3>2, <3>3
  <2> QED BY <2>1, <2>2
<1>5. CASE C!DeleteCompany(r)
  <2>1. [parent |-> None] \in C!Company
    BY DEF C!Company
  <2>2. \A c : Removed(c) \in [CompanyIds -> C!Company \cup {None}]
    BY <1>0, <2>1 DEF Removed
  <2> QED BY <1>0, <1>5, <2>2, CompanyDeleted
<1>6. CASE C!LinkContact(r)
  BY <1>0, <1>1, <1>6, ContactLinked
<1>7. CASE ActivityWrite(r)
  BY <1>0, <1>7, ActivityWritten
<1>8. CASE C!DeleteDeal(r)
  BY <1>0, <1>8, DealDeleted
<1> QED BY <1>2, <1>3, <1>4, <1>5, <1>6, <1>7, <1>8 DEF CompanyWrite, ActivityWrite

LEMMA CompaniesTypedStep ==
    ASSUME CompaniesTyped, NEW r \in Requests, CompanyStep(r)
    PROVE  CompaniesTyped'
<1>1. C!TypeOK'
  BY CompanyTablesTyped, CompanyMoves DEF C!TypeOK, C!Handling, CompanyMoved, CompanyLabels, CompanyAnswers
<1>2. ASSUME NEW q \in Requests \ {r} PROVE PlacedCall(q)'
  <2>1. hPc'[q] = hPc[q] /\ hCall'[q] = hCall[q] /\ hHeld'[q] = hHeld[q]
    BY CompanyMoves DEF CompanyMoved
  <2>2. PlacedCall(q)
    BY DEF CompaniesTyped, CompanyCallOK
  <2> QED BY <2>1, <2>2 DEF PlacedCall, C!Kind, SetsParent
<1>3. CompanyCallOK'
  BY <1>2, OwnCall DEF CompanyCallOK
<1> QED BY <1>1, <1>3, CompanyMoves DEF CompaniesTyped, CompanyMoved

\* Ids that some row has had.
Born(x) ==
    \/ x \in DOMAIN SeedParents
    \/ \E q \in Requests : C!Kind(q) = "createCompany" /\ hPc[q] = "done" /\ hCall[q].company = x

\* A request between the first company it has met and its write, and what it
\* has met.
Climbing(r) == hPc[r] = "walk" \/ (hPc[r] = "writeCompany" /\ SetsParent(r))
Met(r) == hHeld[r].visited \cup {hHeld[r].at}

\* No id is used twice, and what exists or was met has been created.
BornOnce ==
    /\ \A q \in Requests : C!Kind(q) = "createCompany" => hCall[q].company \notin DOMAIN SeedParents
    /\ \A p, q \in Requests :
          C!Kind(p) = "createCompany" /\ C!Kind(q) = "createCompany" /\ hCall[p].company = hCall[q].company
          => p = q
    /\ \A c \in CompanyIds : C!Exists(c) => Born(c)
    /\ \A r \in Requests : Climbing(r) => \A x \in Met(r) : Born(x)

ParentsExist ==
    \A c \in CompanyIds : C!Exists(c) /\ companies[c].parent # None => C!Exists(companies[c].parent)

\* As long as no parent was written under its walk, what a request has met
\* is without the company to be moved, and what it has looked at has its
\* parents among what it has met.
WalksStand ==
    \A r \in Requests :
        Climbing(r) /\ r \notin moved =>
            /\ hCall[r].parent \in Met(r) /\ hCall[r].company \notin Met(r)
            /\ \A x \in Met(r) :
                  C!Exists(x) /\ (hPc[r] = "walk" => x \in hHeld[r].visited)
                  => companies[x].parent \in Met(r) \cup {None}

\* What a removal has counted is as it was, unless a row was linked since.
CompanyCountsStand ==
    \A r \in Requests :
        r \notin cAged =>
            /\ hPc[r] \in {"countSubsidiaries", "deleteCompany"} => C!ContactsOf(hCall[r].company) = {}
            /\ hPc[r] = "deleteCompany" => C!SubsidiariesOf(hCall[r].company) = {}

\* What a request is about to store of an activity names something.
NamesStand ==
    \A r \in Requests :
        /\ hPc[r] \in {"companyOf", "insertActivity"} /\ C!Kind(r) = "logActivity" =>
              \E field \in C!Named : hCall[r][field] # None
        /\ hPc[r] = "writeActivity" => C!StillNames(r)

CompanyInv ==
    /\ CompaniesTyped /\ BornOnce /\ ParentsExist /\ WalksStand /\ CompanyCountsStand /\ NamesStand
    /\ C!CompaniesHold

\* What the three writes leave of a row of companies.
LEMMA RowsInserted ==
    ASSUME CompaniesTyped, NEW r \in Requests, C!InsertCompany(r), ~UNCHANGED companies,
           NEW o \in CompanyIds
    PROVE  /\ C!Exists(o)' <=> C!Exists(o) \/ o = hCall[r].company
           /\ companies'[o].parent = IF o = hCall[r].company THEN hCall[r].parent ELSE companies[o].parent
           /\ hCall[r].company \in CompanyIds /\ hCall[r].parent \in CompanyIds \cup {None}
           /\ hCall[r].parent # None => C!Exists(hCall[r].parent)
<1>1. companies \in [CompanyIds -> C!Company \cup {None}]
  BY DEF CompaniesTyped, C!TypeOK
<1>2. /\ companies' = [companies EXCEPT ![hCall[r].company] = [parent |-> hCall[r].parent]]
      /\ hCall[r].company \in CompanyIds /\ hCall[r].parent \in CompanyIds \cup {None}
      /\ hCall[r].parent # None => C!Exists(hCall[r].parent)
  BY CompanyInserted
<1>3. [parent |-> hCall[r].parent] \in C!Company
  BY <1>2 DEF C!Company
<1>4. [parent |-> hCall[r].parent] # None
  BY <1>3, NoCompany
<1> QED BY <1>1, <1>2, <1>4 DEF C!Exists

LEMMA RowsWritten ==
    ASSUME CompaniesTyped, NEW r \in Requests, C!WriteCompany(r), ~UNCHANGED companies,
           NEW o \in CompanyIds
    PROVE  /\ C!Exists(o)' <=> C!Exists(o)
           /\ companies'[o].parent = IF o = hCall[r].company THEN hCall[r].parent ELSE companies[o].parent
           /\ companies'[o] # companies[o] => o = hCall[r].company
           /\ C!Exists(hCall[r].company) /\ hCall[r].parent # C!Keep
           /\ hCall[r].company \in CompanyIds /\ hCall[r].parent \in CompanyIds \cup {None}
           /\ hCall[r].parent # None => C!Exists(hCall[r].parent)
           /\ moved' = moved \cup (C!Walking \ {r})
           /\ misplaced' = IF r \in moved THEN misplaced \cup {hCall[r].company} ELSE misplaced
           /\ cAged' = cAged \cup {q \in C!At("deleteCompany") : hCall[q].company = hCall[r].parent}
<1>1. companies \in [CompanyIds -> C!Company \cup {None}]
  BY DEF CompaniesTyped, C!TypeOK
<1>2. /\ C!Exists(hCall[r].company) /\ hCall[r].parent # C!Keep /\ companies' = Rewritten(r)
      /\ hCall[r].company \in CompanyIds /\ hCall[r].parent \in CompanyIds \cup {None}
      /\ hCall[r].parent # None => C!Exists(hCall[r].parent)
      /\ moved' = moved \cup (C!Walking \ {r})
      /\ misplaced' = (IF r \in moved THEN misplaced \cup {hCall[r].company} ELSE misplaced)
      /\ cAged' = cAged \cup {q \in C!At("deleteCompany") : hCall[q].company = hCall[r].parent}
  BY CompanyWritten DEF SetsParent
<1>3. companies[hCall[r].company] \in C!Company
  BY <1>1, <1>2 DEF C!Exists
<1>4. PICK row \in C!Company : row.parent = hCall[r].parent
                             /\ row = [companies[hCall[r].company] EXCEPT !.parent = hCall[r].parent]
  BY <1>2, <1>3 DEF C!Company
<1>5. /\ companies'[hCall[r].company] = row
      /\ \A c \in CompanyIds : c # hCall[r].company => companies'[c] = companies[c]
  BY <1>1, <1>2, <1>4 DEF Rewritten
<1> QED BY <1>2, <1>4, <1>5, NoCompany DEF C!Exists

LEMMA RowsRemoved ==
    ASSUME CompaniesTyped, NEW r \in Requests, C!DeleteCompany(r), ~UNCHANGED companies,
           NEW o \in CompanyIds
    PROVE  /\ C!Exists(o)' <=> C!Exists(o) /\ o # hCall[r].company
           /\ C!Exists(o)' => companies'[o].parent = IF companies[o].parent = hCall[r].company THEN None
                                                    ELSE companies[o].parent
           /\ C!Exists(o)' /\ o \notin C!SubsidiariesOf(hCall[r].company) => companies'[o] = companies[o]
<1>1. companies' = Removed(hCall[r].company)
  BY CompanyDeleted
<1>2. [parent |-> None] \in C!Company
  BY DEF C!Company
<1>3. companies'[o] = (IF o = hCall[r].company THEN None
                      ELSE IF o \in C!SubsidiariesOf(hCall[r].company) THEN [parent |-> None]
                      ELSE companies[o])
  BY <1>1 DEF Removed
<1> QED BY <1>2, <1>3, NoCompany DEF C!Exists, C!SubsidiariesOf, C!Live

LEMMA ParentsExistStep ==
    ASSUME CompaniesTyped, ParentsExist, NEW r \in Requests, CompanyStep(r)
    PROVE  ParentsExist'
<1>0. companies \in [CompanyIds -> C!Company \cup {None}]
  BY DEF CompaniesTyped, C!TypeOK
<1>1. CASE ~CompanyWrite(r)
  BY <1>1, CompanyReads DEF ParentsExist, C!Exists
<1>2. CASE C!InsertCompany(r)
  <2>1. CASE UNCHANGED companies
    BY <2>1 DEF ParentsExist, C!Exists
  <2>2. CASE ~UNCHANGED companies
    <3>1. \A c \in CompanyIds : C!Exists(c) => companies[c].parent \in CompanyIds \cup {None}
      BY <1>0 DEF C!Exists, C!Company
    <3> QED BY <1>2, <2>2, <3>1, RowsInserted DEF ParentsExist
  <2> QED BY <2>1, <2>2
<1>3. CASE C!WriteCompany(r)
  <2>1. CASE UNCHANGED companies
    BY <2>1 DEF ParentsExist, C!Exists
  <2>2. CASE ~UNCHANGED companies
    <3>1. \A c \in CompanyIds : C!Exists(c) => companies[c].parent \in CompanyIds \cup {None}
      BY <1>0 DEF C!Exists, C!Company
    <3> QED BY <1>3, <2>2, <3>1, RowsWritten DEF ParentsExist
  <2> QED BY <2>1, <2>2
<1>4. CASE C!DeleteCompany(r)
  <2>1. CASE UNCHANGED companies
    BY <2>1 DEF ParentsExist, C!Exists
  <2>2. CASE ~UNCHANGED companies
    <3>1. \A c \in CompanyIds : C!Exists(c) => companies[c].parent \in CompanyIds \cup {None}
      BY <1>0 DEF C!Exists, C!Company
    <3> QED BY <1>4, <2>2, <3>1, RowsRemoved DEF ParentsExist
  <2> QED BY <2>1, <2>2
<1>5. CASE C!LinkContact(r) \/ ActivityWrite(r) \/ C!DeleteDeal(r)
  BY <1>5, ContactLinked, ActivityWritten, DealDeleted DEF ParentsExist, C!Exists
<1> QED BY <1>1, <1>2, <1>3, <1>4, <1>5 DEF CompanyWrite, ActivityWrite

LEMMA BornStays ==
    ASSUME CompaniesTyped, NEW r \in Requests, CompanyStep(r), NEW x, Born(x)
    PROVE  Born(x)'
<1>1. \A q \in Requests : hPc[q] = "done" => hPc'[q] = "done" /\ hCall'[q] = hCall[q]
  BY CompanyMoves DEF CompanyMoved
<1> QED BY <1>1 DEF Born, C!Kind

\* The id of a create that has not ended is nobody's.
LEMMA Unborn ==
    ASSUME BornOnce, NEW r \in Requests, C!Kind(r) = "createCompany", hPc[r] # "done"
    PROVE  ~Born(hCall[r].company)
BY DEF BornOnce, Born

LEMMA BornOnceStep ==
    ASSUME CompaniesTyped, BornOnce, ParentsExist, NEW r \in Requests, CompanyStep(r)
    PROVE  BornOnce'
<1>0. CompanyMoved(r)
  BY CompanyMoves
<1>1. ASSUME NEW p \in Requests, NEW q \in Requests, C!Kind(p)' = "createCompany", C!Kind(q)' = "createCompany",
             hCall'[p].company = hCall'[q].company
      PROVE  p = q /\ hCall'[p].company \notin DOMAIN SeedParents
  <2>1. CASE hPc[r] # "idle"
    BY <1>0, <1>1, <2>1 DEF BornOnce, C!Kind, CompanyMoved
  <2>2. CASE hPc[r] = "idle"
    <3>1. C!FreshId(hCall'[r])
      <4>1. C!Start(r)
        BY <2>2
        DEF CompanyStep, C!FindCompany, C!FindParent, C!Walk, C!InsertCompany, C!WriteCompany, C!CountContacts,
            C!CountSubsidiaries, C!DeleteCompany, C!FindCompanyToLink, C!LinkContact, C!FindActivity,
            C!FindContactOf, C!FindCompanyOf, C!InsertActivity, C!WriteActivity, C!DeleteActivity, C!FindDeal, C!DeleteDeal
      <4>2. \A kind, label : C!StartWith(r, kind, label) => C!FreshId(hCall'[r])
        BY DEF C!StartWith, C!Begin, CompaniesTyped, C!TypeOK, C!Handling
      <4> QED BY <4>1, <4>2 DEF C!Start
    <3>2. hCall'[r].kind = "createCompany" =>
             /\ hCall'[r].company \notin DOMAIN SeedParents
             /\ \A o \in Requests : C!Kind(o) = "createCompany" => hCall[o].company # hCall'[r].company
      BY <3>1 DEF C!FreshId
    <3> QED BY <1>0, <1>1, <3>2 DEF BornOnce, C!Kind, CompanyMoved
  <2> QED BY <2>1, <2>2
<1>2. ASSUME NEW c \in CompanyIds, C!Exists(c)' PROVE Born(c)'
  <2>1. CASE C!Exists(c)
    BY <2>1, BornStays DEF BornOnce
  <2>2. CASE ~C!Exists(c)
    <3>1. C!InsertCompany(r) /\ c = hCall[r].company
      <4>1. ~UNCHANGED companies
        BY <1>2, <2>2 DEF C!Exists
      <4>2. ~C!WriteCompany(r) /\ ~C!DeleteCompany(r)
        BY <1>2, <2>2, <4>1, RowsWritten, RowsRemoved
      <4>3. C!InsertCompany(r)
        BY <4>1, <4>2, CompanyReads, ContactLinked, ActivityWritten, DealDeleted DEF CompanyWrite, ActivityWrite
      <4> QED BY <1>2, <2>2, <4>1, <4>3, RowsInserted
    <3> QED BY <1>0, <3>1, CompanyInserted DEF Born, C!Kind, CompanyMoved
  <2> QED BY <2>1, <2>2
<1>3. ASSUME NEW q \in Requests, Climbing(q)', NEW x \in Met(q)' PROVE Born(x)'
  <2>1. CASE Climbing(q) /\ x \in Met(q)
    BY <2>1, BornStays DEF BornOnce
  <2>2. CASE ~(Climbing(q) /\ x \in Met(q))
    <3>1. q = r
      BY <1>0, <1>3, <2>2 DEF Climbing, Met, SetsParent, CompanyMoved
    <3>2. C!FindCompany(r) \/ C!FindParent(r) \/ C!Walk(r)
      BY <1>3, <3>1, CompanyContinues, CompanyGoes, CompanyReplies, CompanyBegins
      DEF CompanyStep, Climbing, C!Start, C!StartWith, C!InsertCompany, C!WriteCompany, C!CountContacts,
          C!CountSubsidiaries, C!DeleteCompany, C!FindCompanyToLink, C!LinkContact, C!FindActivity,
          C!FindContactOf, C!FindCompanyOf, C!InsertActivity, C!WriteActivity, C!DeleteActivity, C!FindDeal, C!DeleteDeal,
          C!Fails, CompanyLabels, CompanyAnswers
    <3>3. CASE C!FindCompany(r)
      BY <1>3, <3>1, <3>3, CompanyGoes, CompanyReplies, CompanyMoves
      DEF C!FindCompany, CompanyLabels, CompanyAnswers, Climbing, SetsParent, CompanyMoved, CompanyStep
    <3>4. CASE C!FindParent(r)
      <4>1. x = hCall[r].parent /\ C!Exists(x) /\ x # None
        BY <1>3, <3>1, <3>4, CompanyContinues, CompanyGoes, CompanyReplies, NoCompany
        DEF C!FindParent, CompanyLabels, CompanyAnswers, Climbing, Met
      <4>2. x \in CompanyIds
        BY <3>4, <4>1, CompanyCallFields, NoCompany
        DEF C!FindParent, CompaniesTyped, CompanyCallOK, PlacedCall, SetsParent, C!Kind
      <4> QED BY <4>1, <4>2, BornStays DEF BornOnce
    <3>5. CASE C!Walk(r)
      <4> DEFINE next == IF C!Exists(hHeld[r].at) THEN companies[hHeld[r].at].parent ELSE None
                 visited == hHeld[r].visited \cup {hHeld[r].at}
      <4>1. \/ C!Reply(r, "circular") \/ C!Goto(r, "writeCompany")
            \/ next # None /\ C!Continue(r, "walk", [at |-> next, visited |-> visited])
        <5> HIDE DEF next, visited
        <5> QED BY <3>5, Zenon DEF C!Walk, next, visited
      <4>2. hPc[r] = "walk" /\ hHeld[r] \in Walked
        BY <3>5 DEF C!Walk, CompaniesTyped, CompanyCallOK, PlacedCall
      <4>3. next # None => next \in CompanyIds /\ C!Exists(next)
        BY <4>2 DEF ParentsExist, CompaniesTyped, C!TypeOK, Walked, C!Exists, C!Company
      <4>4. CASE C!Continue(r, "walk", [at |-> next, visited |-> visited])
        <5>1. hHeld'[r] = [at |-> next, visited |-> visited]
          BY <4>2, <4>4, CompanyContinues DEF CompanyLabels
        <5>2. x = next \/ x \in Met(r)
          BY <1>3, <3>1, <5>1 DEF Met
        <5>3. x \notin Met(r)
          BY <2>2, <3>1, <4>2 DEF Climbing, Met
        <5>4. hPc'[r] = "walk"
          BY <4>2, <4>4, CompanyContinues DEF CompanyLabels
        <5>5. ~C!Reply(r, "circular") /\ ~C!Goto(r, "writeCompany")
          BY <4>2, <5>4, CompanyGoes, CompanyReplies DEF CompanyLabels, CompanyAnswers
        <5> HIDE DEF next, visited
        <5> QED BY <4>1, <4>3, <5>2, <5>3, <5>5, BornStays DEF BornOnce
      <4>5. CASE C!Reply(r, "circular") \/ C!Goto(r, "writeCompany")
        <5>1. hPc'[r] = "done" \/ hHeld'[r] = hHeld[r]
          BY <4>2, <4>5, CompanyGoes, CompanyReplies DEF CompanyLabels, CompanyAnswers
        <5>2. hHeld'[r] = hHeld[r]
          BY <1>3, <3>1, <5>1 DEF Climbing
        <5>3. x \in Met(r)
          BY <1>3, <3>1, <5>2 DEF Met
        <5>4. x \notin Met(r)
          BY <2>2, <3>1, <4>2 DEF Climbing, Met
        <5> QED BY <5>3, <5>4
      <4> QED BY <4>1, <4>4, <4>5
    <3> QED BY <3>2, <3>3, <3>4, <3>5
  <2> QED BY <2>1, <2>2
<1> QED BY <1>1, <1>2, <1>3 DEF BornOnce

\* A request that goes on to look at a company, or to write.
LEMMA ClimbStep ==
    ASSUME CompaniesTyped, NEW r \in Requests, CompanyStep(r), Climbing(r)'
    PROVE  /\ C!FindParent(r) \/ C!Walk(r)
           /\ hCall'[r] = hCall[r]
           /\ UNCHANGED <<companies, moved>>
<1>1. CompanyMoved(r)
  BY CompanyMoves
<1>2. C!FindCompany(r) \/ C!FindParent(r) \/ C!Walk(r)
  BY CompanyContinues, CompanyGoes, CompanyReplies, CompanyBegins
  DEF CompanyStep, Climbing, C!Start, C!StartWith, C!InsertCompany, C!WriteCompany, C!CountContacts,
      C!CountSubsidiaries, C!DeleteCompany, C!FindCompanyToLink, C!LinkContact, C!FindActivity,
      C!FindContactOf, C!FindCompanyOf, C!InsertActivity, C!WriteActivity, C!DeleteActivity, C!FindDeal, C!DeleteDeal,
      C!Fails, CompanyLabels, CompanyAnswers
<1>3. ~C!FindCompany(r)
  BY CompanyGoes, CompanyReplies, <1>1
  DEF C!FindCompany, CompanyLabels, CompanyAnswers, Climbing, SetsParent, CompanyMoved
<1>4. hCall'[r] = hCall[r]
  BY <1>1, <1>2 DEF CompanyMoved, C!FindCompany, C!FindParent, C!Walk
<1> QED BY <1>2, <1>3, <1>4 DEF C!FindParent, C!Walk, C!tables, C!history

LEMMA WalksStandStep ==
    ASSUME CompaniesTyped, BornOnce, WalksStand, NEW r \in Requests, CompanyStep(r)
    PROVE  WalksStand'
<1>0. CompanyMoved(r) /\ moved \subseteq moved'
  BY CompanyMoves, CompanyReads, CompanyInserted, CompanyWritten, CompanyDeleted, ContactLinked, ActivityWritten, DealDeleted
  DEF CompanyWrite, ActivityWrite
<1> SUFFICES ASSUME NEW q \in Requests, Climbing(q)', q \notin moved'
             PROVE  /\ hCall'[q].parent \in Met(q)' /\ hCall'[q].company \notin Met(q)'
                    /\ \A x \in Met(q)' :
                          C!Exists(x)' /\ (hPc'[q] = "walk" => x \in hHeld'[q].visited)
                          => companies'[x].parent \in Met(q)' \cup {None}
  BY DEF WalksStand
<1>1. CASE q # r
  <2>1. /\ hPc'[q] = hPc[q] /\ hCall'[q] = hCall[q] /\ hHeld'[q] = hHeld[q]
        /\ Climbing(q) /\ q \notin moved /\ Met(q)' = Met(q)
    BY <1>0, <1>1 DEF CompanyMoved, Climbing, SetsParent, Met
  <2>2. Met(q) \subseteq CompanyIds
    BY <2>1 DEF CompaniesTyped, CompanyCallOK, PlacedCall, Climbing, Met, Walked
  <2>3. ASSUME NEW x \in Met(q), C!Exists(x)' 
        PROVE  C!Exists(x) /\ companies'[x].parent \in {companies[x].parent, None}
    <3>1. CASE UNCHANGED companies
      BY <2>3, <3>1 DEF C!Exists
    <3>2. CASE C!InsertCompany(r) /\ ~UNCHANGED companies
      <4>1. Born(x) /\ ~Born(hCall[r].company)
        BY <2>1, <3>2, CompanyInserted, Unborn DEF BornOnce
      <4> QED BY <2>2, <2>3, <3>2, <4>1, RowsInserted
    <3>3. CASE C!WriteCompany(r) /\ ~UNCHANGED companies
      <4>1. moved' = moved \cup (C!Walking \ {r})
        BY <2>2, <3>3, RowsWritten
      <4>2. q \in C!Walking
        BY <2>1 DEF Climbing, SetsParent, C!Walking, C!At
      <4> QED BY <1>1, <4>1, <4>2
    <3>4. CASE C!DeleteCompany(r) /\ ~UNCHANGED companies
      BY <2>2, <2>3, <3>4, RowsRemoved
    <3>5. UNCHANGED companies \/ C!InsertCompany(r) \/ C!WriteCompany(r) \/ C!DeleteCompany(r)
      BY CompanyReads, ContactLinked, ActivityWritten, DealDeleted DEF CompanyWrite, ActivityWrite
    <3> QED BY <3>1, <3>2, <3>3, <3>4, <3>5
  <2> QED BY <2>1, <2>3 DEF WalksStand
<1>2. CASE q = r
  <2>1. /\ C!FindParent(r) \/ C!Walk(r)
        /\ hCall'[r] = hCall[r] /\ UNCHANGED <<companies, moved>>
    BY <1>2, ClimbStep
  <2>2. CASE C!FindParent(r)
    <3>1. /\ hHeld'[r] = [at |-> hCall[r].parent, visited |-> {}] /\ hPc'[r] = "walk"
          /\ hCall[r].parent # hCall[r].company
      BY <1>2, <2>2, CompanyContinues, CompanyGoes, CompanyReplies
      DEF C!FindParent, CompanyLabels, CompanyAnswers, Climbing, CompaniesTyped, CompanyCallOK, PlacedCall
    <3> QED BY <1>2, <2>1, <3>1 DEF Met
  <2>3. CASE C!Walk(r)
    <3> DEFINE next == IF C!Exists(hHeld[r].at) THEN companies[hHeld[r].at].parent ELSE None
               visited == hHeld[r].visited \cup {hHeld[r].at}
    <3>1. \/ C!Reply(r, "circular")
          \/ (next = None \/ next \in visited) /\ C!Goto(r, "writeCompany")
          \/ next # None /\ next # hCall[r].company /\ C!Continue(r, "walk", [at |-> next, visited |-> visited])
      <4> HIDE DEF next, visited
      <4> QED BY <2>3, Zenon DEF C!Walk, C!Circular, next, visited
    <3>2. /\ hPc[r] = "walk" /\ Climbing(r) /\ r \notin moved
      BY <1>2, <2>1, <2>3 DEF C!Walk, Climbing
    <3>3. /\ hCall[r].parent \in Met(r) /\ hCall[r].company \notin Met(r)
          /\ \A x \in hHeld[r].visited : C!Exists(x) => companies[x].parent \in Met(r) \cup {None}
      BY <3>2 DEF WalksStand, Met
    <3>4. visited = Met(r) /\ next = IF C!Exists(hHeld[r].at) THEN companies[hHeld[r].at].parent ELSE None
      BY DEF Met
    <3> HIDE DEF next, visited
    <3>5. CASE C!Reply(r, "circular")
      BY <1>2, <3>2, <3>5, CompanyReplies DEF Climbing, CompanyAnswers
    <3>6. CASE (next = None \/ next \in visited) /\ C!Goto(r, "writeCompany")
      <4>1. hPc'[r] = "writeCompany" /\ hHeld'[r] = hHeld[r]
        BY <3>2, <3>6, CompanyGoes DEF CompanyLabels
      <4>2. Met(r)' = Met(r)
        BY <4>1 DEF Met
      <4>3. \A x \in Met(r) : C!Exists(x) => companies[x].parent \in Met(r) \cup {None}
        BY <3>3, <3>4, <3>6 DEF Met
      <4> QED BY <1>2, <2>1, <3>3, <4>1, <4>2, <4>3 DEF C!Exists
    <3>7. CASE next # None /\ next # hCall[r].company /\ C!Continue(r, "walk", [at |-> next, visited |-> visited])
      <4>1. hPc'[r] = "walk" /\ hHeld'[r] = [at |-> next, visited |-> visited]
        BY <3>2, <3>7, CompanyContinues DEF CompanyLabels
      <4>2. Met(r)' = Met(r) \cup {next} /\ hHeld'[r].visited = Met(r)
        BY <3>4, <4>1 DEF Met
      <4>3. \A x \in Met(r) : C!Exists(x) => companies[x].parent \in Met(r) \cup {next, None}
        BY <3>3, <3>4 DEF Met
      <4> QED BY <1>2, <2>1, <3>3, <3>7, <4>1, <4>2, <4>3 DEF C!Exists
    <3> QED BY <3>1, <3>5, <3>6, <3>7
  <2> QED BY <2>1, <2>2, <2>3
<1> QED BY <1>1, <1>2

LEMMA HierarchyStep ==
    ASSUME CompaniesTyped, BornOnce, ParentsExist, WalksStand, C!HierarchyAcyclicUnlessMoved,
           NEW r \in Requests, CompanyStep(r)
    PROVE  C!HierarchyAcyclicUnlessMoved'
<1>0. /\ companies \in [CompanyIds -> C!Company \cup {None}] /\ misplaced \subseteq misplaced'
      /\ misplaced' = misplaced \/ C!WriteCompany(r)
  BY CompanyReads, CompanyInserted, CompanyWritten, CompanyDeleted, ContactLinked, ActivityWritten, DealDeleted
  DEF CompaniesTyped, C!TypeOK, CompanyWrite, ActivityWrite
<1> SUFFICES ASSUME NEW U \in SUBSET C!Live', U # {}, \A c \in U : companies'[c].parent \in U,
                    U \cap misplaced' = {}
             PROVE  FALSE
  BY DEF C!HierarchyAcyclicUnlessMoved
<1>1. ASSUME NEW V \in SUBSET U, V # {}, \A c \in V : C!Exists(c) /\ companies[c].parent \in V
      PROVE  FALSE
  <2>1. V \in (SUBSET C!Live) \ {{}} /\ V \cap misplaced = {}
    BY <1>0, <1>1 DEF C!Live
  <2> QED BY <1>1, <2>1 DEF C!HierarchyAcyclicUnlessMoved
<1>2. U \subseteq CompanyIds /\ \A c \in U : C!Exists(c)'
  BY DEF C!Live
<1>3. CASE UNCHANGED companies
  BY <1>1, <1>2, <1>3 DEF C!Exists
<1>4. CASE C!InsertCompany(r) /\ ~UNCHANGED companies
  <2> DEFINE new == hCall[r].company
  <2>1. ~C!Exists(new) /\ new \in CompanyIds
    BY <1>4, CompanyInserted, Unborn DEF BornOnce
  <2>2. \A c \in CompanyIds : C!Exists(c) => companies[c].parent # new
    BY <2>1, NoCompany DEF ParentsExist
  <2>3. hCall[r].parent # new
    BY <1>4, <2>1, RowsInserted, NoCompany
  <2>4. \A c \in U : c # new => /\ C!Exists(c) /\ companies[c].parent \in U /\ companies[c].parent # new
    BY <1>2, <1>4, <2>2, RowsInserted
  <2>5. \E c \in U : c # new
    BY <1>2, <1>4, <2>3, RowsInserted
  <2>6. U \ {new} \in SUBSET U /\ U \ {new} # {}
    BY <2>5
  <2>7. \A c \in U \ {new} : C!Exists(c) /\ companies[c].parent \in U \ {new}
    BY <2>4
  <2> QED BY <1>1, <2>6, <2>7
<1>5. CASE C!WriteCompany(r) /\ ~UNCHANGED companies
  <2> DEFINE c == hCall[r].company
             p == hCall[r].parent
  <2>1. /\ c \in CompanyIds /\ p \in CompanyIds \cup {None} /\ p # C!Keep /\ C!Exists(c)
        /\ hPc[r] = "writeCompany"
        /\ misplaced' = IF r \in moved THEN misplaced \cup {c} ELSE misplaced
    BY <1>0, <1>5, RowsWritten, CompanyWritten
  <2>2. \A o \in U : C!Exists(o) /\ companies'[o].parent = IF o = c THEN p ELSE companies[o].parent
    BY <1>2, <1>5, RowsWritten
  <2>3. CASE c \notin U
    BY <1>1, <2>2, <2>3
  <2>4. CASE c \in U
    <3>1. r \notin moved
      BY <2>1, <2>4
    <3>2. p \in U /\ p # None
      BY <1>2, <2>2, <2>4, NoCompany
    <3>3. Climbing(r)
      BY <2>1, <3>2 DEF Climbing, SetsParent
    <3>4. /\ p \in Met(r) /\ c \notin Met(r)
          /\ \A x \in Met(r) : C!Exists(x) => companies[x].parent \in Met(r) \cup {None}
      BY <2>1, <3>1, <3>3 DEF WalksStand
    <3>5. \A o \in U \cap Met(r) : C!Exists(o) /\ companies[o].parent \in U \cap Met(r)
      BY <1>2, <2>2, <3>4, NoCompany
    <3>6. U \cap Met(r) \in SUBSET U /\ U \cap Met(r) # {}
      BY <3>2, <3>4
    <3> QED BY <1>1, <3>5, <3>6
  <2> QED BY <2>3, <2>4
<1>6. CASE C!DeleteCompany(r) /\ ~UNCHANGED companies
  <2>1. \A o \in U : C!Exists(o) /\ companies'[o].parent \in {companies[o].parent, None}
    BY <1>2, <1>6, RowsRemoved
  <2> QED BY <1>1, <1>2, <2>1, NoCompany
<1>7. UNCHANGED companies \/ C!InsertCompany(r) \/ C!WriteCompany(r) \/ C!DeleteCompany(r)
  BY CompanyReads, ContactLinked, ActivityWritten, DealDeleted DEF CompanyWrite, ActivityWrite
<1> QED BY <1>3, <1>4, <1>5, <1>6, <1>7

LEMMA CompanyCountsStep ==
    ASSUME CompaniesTyped, BornOnce, CompanyCountsStand, NEW r \in Requests, CompanyStep(r)
    PROVE  CompanyCountsStand'
<1>0. CompanyMoved(r) /\ cAged \subseteq cAged'
  BY CompanyMoves, CompanyReads, CompanyInserted, CompanyWritten, CompanyDeleted, ContactLinked, ActivityWritten, DealDeleted
  DEF CompanyWrite, ActivityWrite
<1> SUFFICES ASSUME NEW q \in Requests, q \notin cAged', hPc'[q] \in {"countSubsidiaries", "deleteCompany"}
             PROVE  /\ C!ContactsOf(hCall[q].company)' = {}
                    /\ hPc'[q] = "deleteCompany" => C!SubsidiariesOf(hCall[q].company)' = {}
  BY DEF CompanyCountsStand
<1>1. CASE q = r
  <2>1. /\ C!CountContacts(r) \/ C!CountSubsidiaries(r)
        /\ hPc[r] # "idle"
    BY <1>1, CompanyContinues, CompanyGoes, CompanyReplies, CompanyBegins
    DEF CompanyStep, C!Start, C!StartWith, C!FindCompany, C!FindParent, C!Walk, C!InsertCompany, C!WriteCompany,
        C!CountContacts, C!CountSubsidiaries, C!DeleteCompany, C!FindCompanyToLink, C!LinkContact, C!FindActivity,
        C!FindContactOf, C!FindCompanyOf, C!InsertActivity, C!WriteActivity, C!DeleteActivity, C!FindDeal, C!DeleteDeal,
        C!Fails, CompanyLabels, CompanyAnswers
  <2>2. UNCHANGED <<companies, contacts, cAged>> /\ hCall'[r] = hCall[r]
    BY <1>0, <2>1 DEF C!CountContacts, C!CountSubsidiaries, C!tables, C!history, CompanyMoved
  <2>3. CASE C!CountContacts(r)
    BY <1>1, <2>2, <2>3, CompanyGoes, CompanyReplies DEF C!CountContacts, C!ContactsOf, CompanyLabels, CompanyAnswers
  <2>4. CASE C!CountSubsidiaries(r)
    <3>1. C!SubsidiariesOf(hCall[r].company) = {} /\ hPc[r] = "countSubsidiaries"
      BY <1>1, <2>4, CompanyReplies DEF C!CountSubsidiaries, CompanyAnswers
    <3> QED BY <1>1, <2>2, <3>1 DEF CompanyCountsStand, C!ContactsOf, C!SubsidiariesOf, C!Live, C!Exists
  <2> QED BY <2>1, <2>3, <2>4
<1>2. CASE q # r
  <2> DEFINE c == hCall[q].company
  <2>1. /\ hPc'[q] = hPc[q] /\ hCall'[q] = hCall[q] /\ q \notin cAged
        /\ C!ContactsOf(c) = {}
        /\ hPc[q] = "deleteCompany" => C!SubsidiariesOf(c) = {}
    BY <1>0, <1>2 DEF CompanyMoved, CompanyCountsStand
  <2>2. c \in CompanyIds
    BY <2>1, CompanyCallFields DEF CompaniesTyped, CompanyCallOK, PlacedCall, C!Kind
  <2>3. ASSUME NEW p \in ContactIds PROVE contacts'[p] # c
    <3>1. contacts[p] # c /\ contacts \in [ContactIds -> CompanyIds \cup {None}]
      BY <2>1 DEF C!ContactsOf, CompaniesTyped, C!TypeOK
    <3>2. CASE UNCHANGED contacts
      BY <3>1, <3>2
    <3>3. CASE C!DeleteCompany(r)
      BY <2>2, <3>1, <3>3, CompanyDeleted, NoCompany
    <3>4. CASE C!LinkContact(r)
      BY <2>1, <3>1, <3>4, ContactLinked DEF C!At
    <3> QED BY <3>2, <3>3, <3>4, CompanyReads, CompanyInserted, CompanyWritten, ActivityWritten, DealDeleted
        DEF CompanyWrite, ActivityWrite
  <2>4. ASSUME hPc[q] = "deleteCompany", NEW o \in CompanyIds, C!Exists(o)'
        PROVE  companies'[o].parent # c
    <3>1. C!Exists(o) => companies[o].parent # c
      BY <2>1, <2>4 DEF C!SubsidiariesOf, C!Live
    <3>2. CASE UNCHANGED companies
      BY <2>4, <3>1, <3>2 DEF C!Exists
    <3>3. CASE C!InsertCompany(r) /\ ~UNCHANGED companies
      <4>1. cAged' = cAged \cup {x \in C!At("deleteCompany") : hCall[x].company = hCall[r].parent}
        BY <3>3, CompanyInserted
      <4>2. hCall[r].parent # c
        BY <2>1, <2>4, <4>1 DEF C!At
      <4> QED BY <2>4, <3>1, <3>3, <4>2, RowsInserted
    <3>4. CASE C!WriteCompany(r) /\ ~UNCHANGED companies
      <4>1. cAged' = cAged \cup {x \in C!At("deleteCompany") : hCall[x].company = hCall[r].parent}
        BY <3>4, <2>2, RowsWritten
      <4>2. hCall[r].parent # c
        BY <2>1, <2>4, <4>1 DEF C!At
      <4> QED BY <2>4, <3>1, <3>4, <4>2, RowsWritten
    <3>5. CASE C!DeleteCompany(r) /\ ~UNCHANGED companies
      BY <2>2, <2>4, <3>1, <3>5, RowsRemoved, NoCompany
    <3>6. UNCHANGED companies \/ C!InsertCompany(r) \/ C!WriteCompany(r) \/ C!DeleteCompany(r)
      BY CompanyReads, ContactLinked, ActivityWritten, DealDeleted DEF CompanyWrite, ActivityWrite
    <3> QED BY <3>2, <3>3, <3>4, <3>5, <3>6
  <2> QED BY <2>1, <2>3, <2>4 DEF C!ContactsOf, C!SubsidiariesOf, C!Live
<1> QED BY <1>1, <1>2

LEMMA NamesStandStep ==
    ASSUME CompaniesTyped, NamesStand, NEW r \in Requests, CompanyStep(r)
    PROVE  NamesStand'
<1>0. CompanyMoved(r)
  BY CompanyMoves
<1>1. ASSUME NEW q \in Requests, q # r
      PROVE  /\ hPc'[q] = hPc[q] /\ hCall'[q] = hCall[q] /\ hHeld'[q] = hHeld[q]
  BY <1>0, <1>1 DEF CompanyMoved
<1>2. hPc'[r] \in {"companyOf", "insertActivity", "writeActivity"} =>
         C!FindContactOf(r) \/ C!FindCompanyOf(r)
  BY CompanyContinues, CompanyGoes, CompanyReplies, CompanyBegins
  DEF CompanyStep, C!Start, C!StartWith, C!FindCompany, C!FindParent, C!Walk, C!InsertCompany, C!WriteCompany,
      C!CountContacts, C!CountSubsidiaries, C!DeleteCompany, C!FindCompanyToLink, C!LinkContact, C!FindActivity,
      C!InsertActivity, C!WriteActivity, C!DeleteActivity, C!FindDeal, C!DeleteDeal, C!Fails, CompanyLabels, CompanyAnswers
<1>3. CASE C!FindContactOf(r)
  <2>1. /\ hPc'[r] \in {"done", "companyOf"} /\ hCall'[r] = hCall[r]
        /\ hPc'[r] = "companyOf" /\ C!Kind(r) = "logActivity" =>
              \E field \in C!Named : hCall[r][field] # None
    BY <1>0, <1>3, CompanyGoes, CompanyReplies DEF C!FindContactOf, CompanyLabels, CompanyAnswers, CompanyMoved
  <2> QED BY <1>1, <2>1 DEF NamesStand, C!StillNames, C!Final, C!Kind
<1>4. CASE C!FindCompanyOf(r)
  <2>1. /\ hPc[r] = "companyOf" /\ hPc'[r] \in {"done", "insertActivity", "writeActivity"}
        /\ hCall'[r] = hCall[r]
        /\ hPc'[r] = "writeActivity" => C!StillNames(r) /\ hHeld'[r] = hHeld[r]
    BY <1>0, <1>4, CompanyGoes, CompanyReplies DEF C!FindCompanyOf, CompanyLabels, CompanyAnswers, CompanyMoved
  <2> QED BY <1>1, <2>1 DEF NamesStand, C!StillNames, C!Final, C!Kind
<1>5. CASE ~C!FindContactOf(r) /\ ~C!FindCompanyOf(r)
  BY <1>1, <1>2, <1>5 DEF NamesStand, C!StillNames, C!Final, C!Kind
<1> QED BY <1>3, <1>4, <1>5

LEMMA ActivitiesStep ==
    ASSUME CompaniesTyped, NamesStand, C!ActivitiesNameSomething, NEW r \in Requests, CompanyStep(r)
    PROVE  C!ActivitiesNameSomething'
<1>0. activities \in [ActivityIds -> C!Activity \cup {None}]
  BY DEF CompaniesTyped, C!TypeOK
<1> SUFFICES ASSUME NEW a \in ActivityIds, activities'[a] # None, a \notin blurred'
             PROVE  \E field \in C!Named : activities'[a][field] # None
  BY DEF C!ActivitiesNameSomething
<1>1. CASE activities'[a] = activities[a]
  <2>1. blurred \subseteq blurred'
    BY CompanyReads, CompanyInserted, CompanyWritten, CompanyDeleted, ContactLinked, ActivityWritten, DealDeleted
    DEF CompanyWrite, ActivityWrite
  <2> QED BY <1>1, <2>1 DEF C!ActivitiesNameSomething
<1>2. CASE activities'[a] # activities[a]
  <2>1. ActivityWrite(r)
    BY <1>0, <1>2, CompanyReads, CompanyInserted, CompanyWritten, CompanyDeleted, ContactLinked, DealDeleted
    DEF CompanyWrite, ActivityWrite
  <2>2. PICK row \in C!Activity \cup {None} :
           /\ activities' = [activities EXCEPT ![hCall[r].activity] = row]
           /\ hPc[r] = "insertActivity" => \A field \in C!Named : row[field] = hCall[r][field]
           /\ hPc[r] = "writeActivity" =>
                 LET old == activities[hCall[r].activity]
                 IN  /\ \A field \in C!Named :
                           row[field] = IF hCall[r][field] = C!Keep THEN old[field] ELSE hCall[r][field]
                     /\ blurred' = IF hHeld[r] # old THEN blurred \cup {hCall[r].activity} ELSE blurred
           /\ hPc[r] = "deleteActivity" => row = None
    BY <1>2, <2>1, ActivityWritten, DealDeleted
  <2>3. a = hCall[r].activity /\ activities'[a] = row
    BY <1>0, <1>2, <2>2
  <2>4. hPc[r] \in {"insertActivity", "writeActivity", "deleteActivity"}
    BY <2>1, ActivityWritten, DealDeleted
  <2>5. CASE hPc[r] = "insertActivity"
    BY <2>2, <2>3, <2>5 DEF NamesStand, CompaniesTyped, CompanyCallOK, PlacedCall
  <2>6. CASE hPc[r] = "writeActivity"
    <3>1. hHeld[r] = activities[a] /\ C!StillNames(r)
      BY <2>2, <2>3, <2>6 DEF NamesStand
    <3>2. C!Kind(r) = "updateActivity" /\ hCall[r] \in CompanyCalls
      BY <2>6 DEF CompaniesTyped, CompanyCallOK, PlacedCall
    <3>3. \E field \in C!Named :
             (IF hCall[r][field] = C!Keep THEN hHeld[r][field] ELSE hCall[r][field]) # None
      BY <3>1 DEF C!StillNames, C!Final
    <3> QED BY <2>2, <2>3, <2>6, <3>1, <3>3
  <2> QED BY <2>2, <2>3, <2>4, <2>5, <2>6
<1> QED BY <1>1, <1>2

LEMMA CompanyInit == C!Init => CompanyInv
<1> SUFFICES ASSUME C!Init PROVE CompanyInv
  OBVIOUS
<1>1. /\ hPc = [r \in Requests |-> "idle"] /\ hCall = [r \in Requests |-> C!NoCall]
      /\ hHeld = [r \in Requests |-> None] /\ hAnswer = [r \in Requests |-> "none"]
  BY DEF C!Init, C!HandlersInit
<1>2. /\ DOMAIN SeedParents \subseteq CompanyIds
      /\ \A c \in DOMAIN SeedParents : SeedParents[c] \in DOMAIN SeedParents \cup {None}
      /\ \A U \in (SUBSET DOMAIN SeedParents) \ {{}} : \E c \in U : SeedParents[c] \notin U
  BY PartsAssumption DEF C!CompaniesAssumption, C!Acyclic
<1>3. \A c \in CompanyIds :
         /\ c \in DOMAIN SeedParents => companies[c].parent = SeedParents[c] /\ companies[c] \in C!Company
         /\ c \notin DOMAIN SeedParents => companies[c] = None
  BY <1>2 DEF C!Init, C!Company
<1>4. \A c \in CompanyIds : C!Exists(c) <=> c \in DOMAIN SeedParents
  BY <1>3, NoCompany DEF C!Exists
<1>5. CompaniesTyped
  <2>1. companies \in [CompanyIds -> C!Company \cup {None}]
    <3>1. companies = [c \in CompanyIds |-> companies[c]]
      BY DEF C!Init
    <3> QED BY <1>3, <3>1
  <2>2. C!TypeOK
    BY <1>1, <2>1 DEF C!Init, C!TypeOK, C!Handling
  <2> QED BY <1>1, <2>2 DEF CompaniesTyped, CompanyCallOK, PlacedCall
<1>6. BornOnce
  BY <1>1, <1>4 DEF BornOnce, Born, Climbing, C!Kind, C!NoCall
<1>7. ParentsExist
  <2> SUFFICES ASSUME NEW c \in DOMAIN SeedParents, companies[c].parent # None
               PROVE  C!Exists(companies[c].parent)
    BY <1>4 DEF ParentsExist
  <2>1. companies[c].parent = SeedParents[c] /\ SeedParents[c] \in DOMAIN SeedParents \cup {None}
    BY <1>2, <1>3
  <2>2. SeedParents[c] \in CompanyIds /\ SeedParents[c] \in DOMAIN SeedParents
    BY <1>2, <2>1
  <2> QED BY <1>4, <2>1, <2>2
<1>8. WalksStand /\ CompanyCountsStand /\ NamesStand
  BY <1>1 DEF WalksStand, Climbing, CompanyCountsStand, NamesStand
<1>9. C!HierarchyAcyclicUnlessMoved
  <2> SUFFICES ASSUME NEW U \in (SUBSET C!Live) \ {{}}, \A c \in U : companies[c].parent \in U
               PROVE  FALSE
    BY DEF C!HierarchyAcyclicUnlessMoved
  <2>1. U \in (SUBSET DOMAIN SeedParents) \ {{}}
    BY <1>4 DEF C!Live
  <2>2. PICK c \in U : SeedParents[c] \notin U
    BY <1>2, <2>1
  <2>3. c \in CompanyIds /\ c \in DOMAIN SeedParents /\ companies[c].parent \in U
    BY <1>2, <2>1, <2>2
  <2>4. companies[c].parent = SeedParents[c]
    BY <1>3, <2>3
  <2> QED BY <2>2, <2>3, <2>4
<1>10. C!ActivitiesNameSomething
  BY DEF C!Init, C!ActivitiesNameSomething
<1> QED BY <1>5, <1>6, <1>7, <1>8, <1>9, <1>10 DEF CompanyInv, C!CompaniesHold

LEMMA CompanyInvStep == CompanyInv /\ [C!Next]_C!vars => CompanyInv'
<1> SUFFICES ASSUME CompanyInv, [C!Next]_C!vars PROVE CompanyInv'
  OBVIOUS
<1>1. CASE C!Next
  <2>1. PICK r \in Requests : CompanyStep(r)
    BY <1>1 DEF C!Next, CompanyStep
  <2> QED BY <2>1, CompaniesTypedStep, BornOnceStep, ParentsExistStep, WalksStandStep, CompanyCountsStep,
             NamesStandStep, HierarchyStep, ActivitiesStep
      DEF CompanyInv, C!CompaniesHold
<1>2. CASE UNCHANGED C!vars
  <2>1. UNCHANGED <<hPc, hCall, hHeld, hAnswer, companies, contacts, activities, cDeals, moved, misplaced, cAged, blurred>>
    BY <1>2 DEF C!vars, C!handlers, C!tables, C!history
  <2>2. CompaniesTyped'
    BY <2>1 DEF CompanyInv, CompaniesTyped, C!TypeOK, C!Handling, CompanyCallOK, PlacedCall, C!Kind, SetsParent
  <2>3. BornOnce' /\ ParentsExist'
    BY <2>1 DEF CompanyInv, BornOnce, Born, ParentsExist, C!Exists, C!Kind, Climbing, SetsParent, Met
  <2>4. WalksStand'
    BY <2>1 DEF CompanyInv, WalksStand, C!Exists, Climbing, SetsParent, Met
  <2>5. CompanyCountsStand' /\ NamesStand'
    BY <2>1 DEF CompanyInv, CompanyCountsStand, NamesStand, C!ContactsOf, C!SubsidiariesOf, C!Live, C!Exists,
                C!StillNames, C!Final, C!Kind
  <2>6. C!CompaniesHold'
    BY <2>1 DEF CompanyInv, C!CompaniesHold, C!HierarchyAcyclicUnlessMoved, C!ActivitiesNameSomething, C!Live,
                C!Exists
  <2> QED BY <2>2, <2>3, <2>4, <2>5, <2>6 DEF CompanyInv
<1> QED BY <1>1, <1>2

LEMMA LinksStep ==
    ASSUME CompanyInv, [C!Next]_C!vars, NEW q \in Requests,
           hPc[q] = "deleteCompany", hPc'[q] = "done", q \notin cAged
    PROVE  contacts' = contacts /\ \A c \in C!Live : C!Exists(c)' => companies'[c] = companies[c]
<1>1. ~UNCHANGED C!vars
  BY DEF C!vars, C!handlers
<1>2. PICK r \in Requests : CompanyStep(r)
  BY <1>1 DEF C!Next, CompanyStep
<1>3. r = q
  BY <1>2, CompanyMoves DEF CompanyMoved, CompanyInv
<1>4. C!DeleteCompany(q)
  BY <1>2, <1>3
  DEF CompanyStep, C!Start, C!StartWith, C!Begin, C!FindCompany, C!FindParent, C!Walk, C!InsertCompany,
      C!WriteCompany, C!CountContacts, C!CountSubsidiaries, C!FindCompanyToLink, C!LinkContact, C!FindActivity,
      C!FindContactOf, C!FindCompanyOf, C!InsertActivity, C!WriteActivity, C!DeleteActivity, C!FindDeal, C!DeleteDeal
<1>5. C!ContactsOf(hCall[q].company) = {} /\ C!SubsidiariesOf(hCall[q].company) = {}
  BY DEF CompanyInv, CompanyCountsStand
<1>6. contacts' = contacts
  <2>1. contacts = [p \in ContactIds |-> contacts[p]]
    BY DEF CompanyInv, CompaniesTyped, C!TypeOK
  <2> QED BY <1>4, <1>5, <2>1, CompanyDeleted DEF CompanyInv, C!ContactsOf
<1>7. ASSUME NEW c \in C!Live, C!Exists(c)' PROVE companies'[c] = companies[c]
  <2>1. c \in CompanyIds
    BY DEF C!Live
  <2> QED BY <1>4, <1>5, <1>7, <2>1, RowsRemoved DEF CompanyInv
<1> QED BY <1>6, <1>7

\* Companies alone: a company's ancestors do not come back to it, and an
\* activity names a contact, a company or a deal, unless in either case two
\* updates crossed (companies.service.ts, activities.service.ts).
THEOREM HierarchyHolds == C!Spec => []C!CompaniesHold
<1>1. C!Spec => []CompanyInv
  BY CompanyInit, CompanyInvStep, PTL DEF C!Spec
<1> QED BY <1>1, PTL DEF CompanyInv

\* A removal detaches a contact or a subsidiary only if it was linked after
\* the removal had counted (companies.service.ts).
THEOREM LinksLost == C!Spec => C!LinksLostOnlyToAgedCounts
<1>1. CompanyInv /\ [C!Next]_C!vars =>
        [\A r \in Requests :
            hPc[r] = "deleteCompany" /\ hPc'[r] = "done" /\ r \notin cAged =>
                contacts' = contacts /\ \A c \in C!Live : C!Exists(c)' => companies'[c] = companies[c]]_C!vars
  BY LinksStep
<1> QED BY <1>1, CompanyInit, CompanyInvStep, PTL DEF C!Spec, C!LinksLostOnlyToAgedCounts

\* Where other components may run in its place, its invariant holds when it
\* is the one that runs.
LEMMA CompaniesBeside == MCSpec => [](part = "companies" => CompanyInv)
<1> DEFINE Here == part = "companies" => CompanyInv
<1>1. MCInit => Here
  BY CompanyInit DEF MCInit
<1>2. Here /\ [MCNext]_<<part, hVars, vars, tVars, cVars, sVars, mVars, rVars>> => Here'
  <2> SUFFICES ASSUME Here, [MCNext]_<<part, hVars, vars, tVars, cVars, sVars, mVars, rVars>>,
                      part' = "companies"
               PROVE  CompanyInv'
    OBVIOUS
  <2>1. part = "companies" /\ CompanyInv
    BY DEF MCNext
  <2>2. [C!Next]_C!vars
    BY <2>1 DEF MCNext, C!vars, C!handlers, C!tables, C!history, hVars, cVars
  <2> QED BY <2>1, <2>2, CompanyInvStep
<1>3. MCSpec => []Here
  <2> HIDE DEF Here
  <2> QED BY <1>1, <1>2, PTL DEF MCSpec
<1> QED BY <1>3

\* The same where other components may run in its place.
THEOREM CompaniesHolding == MCSpec => []CompaniesHold
<1>1. (part = "companies" => CompanyInv) => CompaniesHold
  BY DEF CompanyInv, CompaniesHold
<1> QED BY <1>1, CompaniesBeside, PTL


-----------------------------------------------------------------------------
(***************************************************************************)
(* Submissions                                                             *)
(***************************************************************************)

\* Submissions brings its own copy of the operators of FiniteSets.
LEMMA SameCardinality == ASSUME NEW X PROVE S!Cardinality(X) = Cardinality(X)
BY DEF S!Cardinality, Cardinality

LEMMA SameFinite == ASSUME NEW X PROVE S!IsFiniteSet(X) = IsFiniteSet(X)
BY Zenon DEF S!IsFiniteSet, IsFiniteSet

Halfway == {"values", "process", "map", "mark", "count"}
Submitting == {"form", "submitter", "newSubmitter", "submission", "notify"} \cup Halfway

\* Where a request is says what it was called with, and that the contact it
\* will write is there.
PlacedSubmission(r) ==
    /\ hPc[r] # "idle" => hCall[r] \in SubmissionCalls
    /\ hPc[r] \in Submitting => S!Kind(r) = "submit"
    /\ hPc[r] \in {"submission"} \cup Halfway => hHeld[r] \in S!ContactNames /\ people[hHeld[r]] # None
    /\ hPc[r] = "newContact" => S!Kind(r) = "createContact"
    /\ hPc[r] = "address" => S!Kind(r) \in {"createContact", "updateContact"}
    /\ hPc[r] \in {"contact", "writeContact", "dropContact"} => S!Kind(r) \in {"updateContact", "removeContact"}
    /\ hPc[r] = "writeContact" => S!Kind(r) = "updateContact"
    /\ hPc[r] \in {"writeContact", "dropContact"} => people[hCall[r].contact] # None
    /\ hPc[r] = "address" /\ S!Kind(r) = "updateContact" => people[hCall[r].contact] # None
    /\ hPc[r] = "formOf" => S!Kind(r) \in {"updateForm", "removeForm", "createColumn", "removeColumn"}
    /\ hPc[r] = "writeForm" => S!Kind(r) = "updateForm"
    /\ hPc[r] \in {"countSubmissions", "deleteForm"} => S!Kind(r) = "removeForm"
    /\ hPc[r] = "writeColumn" => S!Kind(r) \in {"createColumn", "removeColumn"}
    /\ hPc[r] # "done" => hAnswer[r] = "none"

SubmissionsTyped ==
    /\ S!TypeOK /\ hHeld = [q \in Requests |-> hHeld[q]]
    /\ \A r \in Requests : PlacedSubmission(r)

SubmissionStep(r) ==
    \/ S!Start(r)
    \/ S!FindForm(r) \/ S!FindSubmitter(r) \/ S!CreateSubmitter(r) \/ S!CreateSubmission(r)
    \/ S!CreateValues(r) \/ S!ReadSubmission(r) \/ S!MapToContact(r) \/ S!MarkProcessed(r)
    \/ S!CountSubmission(r) \/ S!NotifyCreator(r)
    \/ S!FindAddress(r) \/ S!CreateContact(r) \/ S!FindContact(r) \/ S!WriteContact(r) \/ S!DropContact(r)
    \/ S!FindFormOf(r) \/ S!WriteForm(r) \/ S!CountSubmissions(r) \/ S!DeleteForm(r) \/ S!WriteColumn(r)

LEMMA SubmissionCallFields ==
    ASSUME NEW c \in SubmissionCalls
    PROVE  /\ c.kind \in {"submit", "createContact", "updateContact", "removeContact", "updateForm",
                          "removeForm", "createColumn", "removeColumn"}
           /\ c.kind = "submit" =>
                 c.form \in Forms /\ c.email \in Emails /\ c.as \in Emails /\ c.columns \in SUBSET Columns
           /\ c.kind \in {"createContact", "updateContact"} => c.email \in Emails
           /\ c.kind \in {"updateContact", "removeContact"} => c.contact \in S!ContactNames
           /\ c.kind \in {"updateForm", "removeForm"} => c.form \in Forms
           /\ c.kind = "updateForm" => c.status \in {"draft", "published", "archived"}
           /\ c.kind \in {"createColumn", "removeColumn"} => c.column \in Columns
<1>1. \/ c \in S!SubmitCall \/ c \in S!CreateContactCall \/ c \in S!UpdateContactCall
      \/ c \in S!RemoveContactCall \/ c \in S!UpdateFormCall \/ c \in S!RemoveFormCall \/ c \in S!ColumnCall
  BY PartsAssumption DEF S!SubmissionsAssumption
<1>2. CASE c \in S!SubmitCall
  BY <1>2 DEF S!SubmitCall
<1>3. CASE c \in S!CreateContactCall
  BY <1>3 DEF S!CreateContactCall
<1>4. CASE c \in S!UpdateContactCall
  BY <1>4 DEF S!UpdateContactCall
<1>5. CASE c \in S!RemoveContactCall
  BY <1>5 DEF S!RemoveContactCall
<1>6. CASE c \in S!UpdateFormCall
  BY <1>6 DEF S!UpdateFormCall
<1>7. CASE c \in S!RemoveFormCall
  BY <1>7 DEF S!RemoveFormCall
<1>8. CASE c \in S!ColumnCall
  BY <1>8 DEF S!ColumnCall
<1> QED BY <1>1, <1>2, <1>3, <1>4, <1>5, <1>6, <1>7, <1>8

LEMMA NoSubmission ==
    /\ None \notin S!Person /\ None \notin S!Form /\ None \notin S!Submission
    /\ ColumnForm \in [Columns -> Forms]
BY PartsAssumption, Zenon DEF S!SubmissionsAssumption

LEMMA FiniteRequests == IsFiniteSet(Requests)
<1>1. S!IsFiniteSet(Requests)
  BY PartsAssumption, Zenon DEF S!SubmissionsAssumption
<1> QED BY <1>1, SameFinite

SubmissionLabels ==
    {"idle", "done"} \cup
    {"form", "submitter", "newSubmitter", "submission", "notify", "address", "newContact", "contact",
     "writeContact", "dropContact", "formOf", "writeForm", "countSubmissions", "deleteForm", "writeColumn",
     "values", "process", "map", "mark", "count"}
SubmissionAnswers == {"none", "ok", "notFound", "forbidden", "error"} \cup {"refused", "unnotified"}

\* What a step leaves of the handlers: the other requests stay as they are.
SubmissionMoved(r) ==
    /\ hPc' \in [Requests -> SubmissionLabels] /\ hAnswer' \in [Requests -> SubmissionAnswers]
    /\ hCall' \in [Requests -> {S!NoCall} \cup SubmissionCalls]
    /\ hHeld' = [q \in Requests |-> hHeld'[q]]
    /\ \A q \in Requests \ {r} :
          hPc'[q] = hPc[q] /\ hCall'[q] = hCall[q] /\ hHeld'[q] = hHeld[q] /\ hAnswer'[q] = hAnswer[q]
    /\ hPc[r] = "idle" => hCall'[r] \in SubmissionCalls
    /\ hPc[r] # "idle" => hCall'[r] = hCall[r]
    /\ hPc[r] # "done" /\ hPc'[r] # "idle"
    /\ hPc'[r] # "done" => hAnswer'[r] = "none"

LEMMA SubmissionContinues ==
    ASSUME SubmissionsTyped, NEW r \in Requests, hPc[r] \notin {"idle", "done"},
           NEW label \in SubmissionLabels \ {"idle", "done"}, NEW what, S!Continue(r, label, what)
    PROVE  SubmissionMoved(r) /\ hPc'[r] = label /\ hHeld'[r] = what
BY DEF S!Continue, SubmissionsTyped, S!TypeOK, S!Handling, S!Halfway, SubmissionLabels, SubmissionAnswers,
       SubmissionMoved, PlacedSubmission

LEMMA SubmissionGoes ==
    ASSUME SubmissionsTyped, NEW r \in Requests, hPc[r] \notin {"idle", "done"},
           NEW label \in SubmissionLabels \ {"idle", "done"}, S!Goto(r, label)
    PROVE  SubmissionMoved(r) /\ hPc'[r] = label /\ hHeld'[r] = hHeld[r]
BY SubmissionContinues DEF S!Goto

LEMMA SubmissionReplies ==
    ASSUME SubmissionsTyped, NEW r \in Requests, hPc[r] \notin {"idle", "done"},
           NEW what \in SubmissionAnswers, S!Reply(r, what)
    PROVE  SubmissionMoved(r) /\ hPc'[r] = "done" /\ hAnswer'[r] = what
BY DEF S!Reply, SubmissionsTyped, S!TypeOK, S!Handling, S!Halfway, SubmissionLabels, SubmissionAnswers,
       SubmissionMoved, PlacedSubmission

LEMMA SubmissionBegins ==
    ASSUME SubmissionsTyped, NEW r \in Requests, NEW c \in SubmissionCalls,
           NEW label \in SubmissionLabels \ {"idle", "done"}, S!Begin(r, c, label)
    PROVE  SubmissionMoved(r) /\ hPc[r] = "idle" /\ hPc'[r] = label /\ hCall'[r] = c
BY DEF S!Begin, SubmissionsTyped, S!TypeOK, S!Handling, S!Halfway, SubmissionLabels, SubmissionAnswers,
       SubmissionMoved, PlacedSubmission

LEMMA SubmissionMoves ==
    ASSUME SubmissionsTyped, NEW r \in Requests, SubmissionStep(r)
    PROVE  SubmissionMoved(r)
<1> USE SubmissionContinues, SubmissionGoes, SubmissionReplies, SubmissionBegins
    DEF S!Fails, SubmissionLabels, SubmissionAnswers
<1>1. CASE S!Start(r)
  BY <1>1 DEF S!Start, S!StartWith
<1>2. CASE S!FindForm(r)
  BY <1>2 DEF S!FindForm
<1>3. CASE S!FindSubmitter(r)
  BY <1>3 DEF S!FindSubmitter
<1>4. CASE S!CreateSubmitter(r)
  BY <1>4 DEF S!CreateSubmitter
<1>5. CASE S!CreateSubmission(r)
  BY <1>5 DEF S!CreateSubmission
<1>6. CASE S!CreateValues(r)
  BY <1>6 DEF S!CreateValues
<1>7. CASE S!ReadSubmission(r)
  BY <1>7 DEF S!ReadSubmission
<1>8. CASE S!MapToContact(r)
  BY <1>8 DEF S!MapToContact
<1>9. CASE S!MarkProcessed(r)
  BY <1>9 DEF S!MarkProcessed
<1>10. CASE S!CountSubmission(r)
  BY <1>10 DEF S!CountSubmission
<1>11. CASE S!NotifyCreator(r)
  BY <1>11 DEF S!NotifyCreator
<1>12. CASE S!FindAddress(r)
  BY <1>12 DEF S!FindAddress
<1>13. CASE S!CreateContact(r)
  BY <1>13 DEF S!CreateContact
<1>14. CASE S!FindContact(r)
  BY <1>14 DEF S!FindContact
<1>15. CASE S!WriteContact(r)
  BY <1>15 DEF S!WriteContact
<1>16. CASE S!DropContact(r)
  BY <1>16 DEF S!DropContact
<1>17. CASE S!FindFormOf(r)
  BY <1>17 DEF S!FindFormOf
<1>18. CASE S!WriteForm(r)
  BY <1>18 DEF S!WriteForm
<1>19. CASE S!CountSubmissions(r)
  BY <1>19 DEF S!CountSubmissions
<1>20. CASE S!DeleteForm(r)
  BY <1>20 DEF S!DeleteForm
<1>21. CASE S!WriteColumn(r)
  BY <1>21 DEF S!WriteColumn
<1> QED BY <1>1, <1>2, <1>3, <1>4, <1>5, <1>6, <1>7, <1>8, <1>9, <1>10, <1>11, <1>12, <1>13, <1>14, <1>15,
           <1>16, <1>17, <1>18, <1>19, <1>20, <1>21 DEF SubmissionStep

PeopleWrite(r) ==
    \/ S!CreateSubmitter(r) \/ S!CreateContact(r) \/ S!MapToContact(r) \/ S!WriteContact(r) \/ S!DropContact(r)

FormWrite(r) ==
    \/ S!CreateSubmission(r) \/ S!CreateValues(r) \/ S!MarkProcessed(r) \/ S!CountSubmission(r)
    \/ S!WriteForm(r) \/ S!DeleteForm(r) \/ S!WriteColumn(r)

LEMMA SubmissionReads ==
    ASSUME NEW r \in Requests, SubmissionStep(r), ~PeopleWrite(r), ~FormWrite(r)
    PROVE  UNCHANGED <<people, forms, columns, submissions, values, overlooked>>
<1>1. UNCHANGED <<S!tables, overlooked>>
  BY Zenon DEF SubmissionStep, PeopleWrite, FormWrite, S!Start, S!StartWith, S!FindForm, S!FindSubmitter,
     S!ReadSubmission, S!NotifyCreator, S!FindAddress, S!FindContact, S!FindFormOf, S!CountSubmissions
<1> QED BY <1>1 DEF S!tables

\* Contacts are marked and changed, never removed.
LEMMA PeopleWritten ==
    ASSUME SubmissionsTyped, NEW r \in Requests, PeopleWrite(r)
    PROVE  /\ people' \in [S!ContactNames -> S!Person \cup {None}]
           /\ \A c \in S!ContactNames : people[c] # None => people'[c] # None
           /\ hPc'[r] = "submission" => people'[hHeld'[r]] # None
           /\ UNCHANGED <<forms, columns, submissions, values, overlooked>>
<1> USE SubmissionCallFields, NoSubmission
<1>0. people \in [S!ContactNames -> S!Person \cup {None}] /\ Requests \subseteq S!ContactNames
  BY DEF SubmissionsTyped, S!TypeOK, S!ContactNames
<1>1. CASE S!CreateSubmitter(r)
  <2>1. hPc[r] = "newSubmitter" /\ hCall[r].email \in Emails
    BY <1>1 DEF S!CreateSubmitter, SubmissionsTyped, PlacedSubmission, Submitting, S!Kind
  <2>2. [email |-> hCall[r].email, isDeleted |-> FALSE] \in S!Person
    BY <2>1 DEF S!Person
  <2>3. CASE UNCHANGED people /\ S!Reply(r, "refused")
    BY <1>0, <1>1, <2>1, <2>3, SubmissionReplies DEF S!CreateSubmitter, SubmissionAnswers
  <2>4. CASE /\ people' = [people EXCEPT ![r] = [email |-> hCall[r].email, isDeleted |-> FALSE]]
             /\ S!Continue(r, "submission", r)
    <3>1. hPc'[r] = "submission" /\ hHeld'[r] = r
      BY <2>1, <2>4, SubmissionContinues DEF SubmissionLabels
    <3>2. UNCHANGED <<forms, columns, submissions, values, overlooked>>
      BY <1>1 DEF S!CreateSubmitter
    <3> QED BY <1>0, <2>2, <2>4, <3>1, <3>2
  <2> QED BY <1>1, <2>3, <2>4 DEF S!CreateSubmitter
<1>2. CASE S!CreateContact(r)
  <2>1. hPc[r] = "newContact" /\ hCall[r].email \in Emails
    BY <1>2 DEF S!CreateContact, SubmissionsTyped, PlacedSubmission, S!Kind
  <2>2. [email |-> hCall[r].email, isDeleted |-> FALSE] \in S!Person
    BY <2>1 DEF S!Person
  <2>3. hPc'[r] = "done"
    BY <1>2, <2>1, SubmissionReplies DEF S!CreateContact, SubmissionAnswers
  <2> QED BY <1>0, <1>2, <2>2, <2>3 DEF S!CreateContact
<1>3. CASE S!MapToContact(r)
  <2>1. /\ hPc[r] = "map" /\ hCall[r].as \in Emails /\ hHeld[r] \in S!ContactNames
        /\ people[hHeld[r]] # None
    BY <1>3 DEF S!MapToContact, SubmissionsTyped, PlacedSubmission, Submitting, Halfway, S!Kind
  <2>2. people[hHeld[r]] \in S!Person /\ [people[hHeld[r]] EXCEPT !.email = hCall[r].as] \in S!Person
    BY <1>0, <2>1 DEF S!Person
  <2>3. hPc'[r] \in {"done", "mark"}
    BY <1>3, <2>1, SubmissionReplies, SubmissionGoes DEF S!MapToContact, S!Fails, SubmissionAnswers, SubmissionLabels
  <2>4. \/ UNCHANGED people
        \/ people' = [people EXCEPT ![hHeld[r]] = [people[hHeld[r]] EXCEPT !.email = hCall[r].as]]
    BY <1>3 DEF S!MapToContact
  <2> HIDE DEF S!Person
  <2> QED BY <1>0, <1>3, <2>1, <2>2, <2>3, <2>4 DEF S!MapToContact
<1>4. CASE S!WriteContact(r)
  <2> DEFINE c == hCall[r].contact
  <2>1. hPc[r] = "writeContact" /\ hCall[r].email \in Emails /\ c \in S!ContactNames /\ people[c] # None
    BY <1>4 DEF S!WriteContact, SubmissionsTyped, PlacedSubmission, S!Kind
  <2>2. people[c] \in S!Person /\ [people[c] EXCEPT !.email = hCall[r].email] \in S!Person
    BY <1>0, <2>1 DEF S!Person
  <2>3. hPc'[r] = "done"
    BY <1>4, <2>1, SubmissionReplies DEF S!WriteContact, SubmissionAnswers
  <2>4. \/ UNCHANGED people
        \/ people' = [people EXCEPT ![c] = [people[c] EXCEPT !.email = hCall[r].email]]
    BY <1>4 DEF S!WriteContact
  <2>5. /\ people' \in [S!ContactNames -> S!Person \cup {None}]
        /\ \A d \in S!ContactNames : people[d] # None => people'[d] # None
    <3> HIDE DEF S!Person, c
    <3> QED BY <1>0, <2>1, <2>2, <2>4
  <2> QED BY <1>4, <2>3, <2>5 DEF S!WriteContact
<1>5. CASE S!DropContact(r)
  <2> DEFINE c == hCall[r].contact
  <2>1. hPc[r] = "dropContact" /\ c \in S!ContactNames /\ people[c] # None
    BY <1>5 DEF S!DropContact, SubmissionsTyped, PlacedSubmission, S!Kind
  <2>2. people[c] \in S!Person /\ [people[c] EXCEPT !.isDeleted = TRUE] \in S!Person
    BY <1>0, <2>1 DEF S!Person
  <2>3. hPc'[r] = "done"
    BY <1>5, <2>1, SubmissionReplies DEF S!DropContact, SubmissionAnswers
  <2>4. people' = [people EXCEPT ![c] = [people[c] EXCEPT !.isDeleted = TRUE]]
    BY <1>5 DEF S!DropContact
  <2>5. /\ people' \in [S!ContactNames -> S!Person \cup {None}]
        /\ \A d \in S!ContactNames : people[d] # None => people'[d] # None
    <3> HIDE DEF S!Person, c
    <3> QED BY <1>0, <2>1, <2>2, <2>4
  <2> QED BY <1>5, <2>3, <2>5 DEF S!DropContact
<1> QED BY <1>1, <1>2, <1>3, <1>4, <1>5 DEF PeopleWrite

\* A form takes no write but those of its fields and its deletion.
LEMMA FormsWritten ==
    ASSUME SubmissionsTyped, NEW r \in Requests, FormWrite(r)
    PROVE  /\ S!TypeOK' /\ UNCHANGED people
           /\ \A f \in Forms : forms[f] = None => forms'[f] = None
<1> USE SubmissionCallFields, NoSubmission
    DEF SubmissionsTyped, S!TypeOK, S!Kind
<1>0. S!Handling({"form", "submitter", "newSubmitter", "submission", "notify", "address",
                 "newContact", "contact", "writeContact", "dropContact", "formOf", "writeForm",
                 "countSubmissions", "deleteForm", "writeColumn"} \cup S!Halfway,
                SubmissionCalls, {"refused", "unnotified"})'
  BY SubmissionMoves DEF FormWrite, SubmissionStep, SubmissionMoved, SubmissionLabels, SubmissionAnswers,
     S!Handling, S!Halfway
<1>1. CASE S!CreateSubmission(r)
  <2>1. /\ hPc[r] = "submission" /\ hCall[r].form \in Forms /\ hHeld[r] \in S!ContactNames
    BY <1>1 DEF S!CreateSubmission, PlacedSubmission, Submitting, Halfway
  <2>2. [form |-> hCall[r].form, contact |-> hHeld[r], status |-> "pending"] \in S!Submission
    BY <2>1 DEF S!Submission
  <2>3. submissions' \in [Requests -> S!Submission \cup {None}] /\ overlooked' \in SUBSET Requests
    BY <1>1, <2>2 DEF S!CreateSubmission, S!At
  <2> QED BY <1>0, <1>1, <2>3 DEF S!CreateSubmission
<1>2. CASE S!CreateValues(r)
  <2>1. hCall[r].columns \in SUBSET Columns
    BY <1>2 DEF S!CreateValues, PlacedSubmission, Submitting, Halfway
  <2>2. values' \in SUBSET (Requests \X Columns)
    BY <1>2, <2>1 DEF S!CreateValues
  <2> QED BY <1>0, <1>2, <2>2 DEF S!CreateValues
<1>3. CASE S!MarkProcessed(r)
  <2>1. submissions' \in [Requests -> S!Submission \cup {None}]
    BY <1>3 DEF S!MarkProcessed, S!Submission
  <2> QED BY <1>0, <1>3, <2>1 DEF S!MarkProcessed
<1>4. CASE S!CountSubmission(r)
  <2>1. hCall[r].form \in Forms
    BY <1>4 DEF S!CountSubmission, PlacedSubmission, Submitting, Halfway
  <2>2. /\ forms' \in [Forms -> S!Form \cup {None}]
        /\ \A f \in Forms : forms[f] = None => forms'[f] = None
    BY <1>4, <2>1 DEF S!CountSubmission, S!Form, S!Incremented
  <2> QED BY <1>0, <1>4, <2>2 DEF S!CountSubmission
<1>5. CASE S!WriteForm(r)
  <2>1. hCall[r].form \in Forms /\ hCall[r].status \in {"draft", "published", "archived"}
    BY <1>5 DEF S!WriteForm, PlacedSubmission
  <2>2. /\ forms' \in [Forms -> S!Form \cup {None}]
        /\ \A f \in Forms : forms[f] = None => forms'[f] = None
    BY <1>5, <2>1 DEF S!WriteForm, S!Form
  <2> QED BY <1>0, <1>5, <2>2 DEF S!WriteForm
<1>6. CASE S!DeleteForm(r)
  <2>1. CASE forms[hCall[r].form] = None
    BY <1>0, <1>6, <2>1 DEF S!DeleteForm, S!tables
  <2>2. CASE forms[hCall[r].form] # None
    BY <1>0, <1>6, <2>2 DEF S!DeleteForm
  <2> QED BY <2>1, <2>2
<1>7. CASE S!WriteColumn(r)
  <2>1. hCall[r].column \in Columns
    BY <1>7 DEF S!WriteColumn, PlacedSubmission
  <2> QED BY <1>0, <1>7, <2>1 DEF S!WriteColumn
<1> QED BY <1>1, <1>2, <1>3, <1>4, <1>5, <1>6, <1>7 DEF FormWrite

LEMMA OwnSubmissionCall ==
    ASSUME SubmissionsTyped, NEW r \in Requests, SubmissionStep(r)
    PROVE  PlacedSubmission(r)'
<1>0. SubmissionMoved(r) /\ PlacedSubmission(r)
  BY SubmissionMoves DEF SubmissionsTyped
<1>a. S!CreateSubmitter(r) =>
          /\ hPc[r] = "newSubmitter"
          /\ \/ hPc'[r] = "done"
             \/ hPc'[r] = "submission" /\ hHeld'[r] = r
  BY SubmissionReplies, SubmissionContinues DEF S!CreateSubmitter, SubmissionLabels, SubmissionAnswers
<1> USE SubmissionContinues, SubmissionGoes, SubmissionReplies, SubmissionBegins, SubmissionCallFields
    DEF S!Fails, SubmissionLabels, SubmissionAnswers, SubmissionMoved, PlacedSubmission, S!Kind, Submitting, Halfway
<1>1. CASE S!Start(r)
  <2>1. ASSUME NEW kind, NEW label \in SubmissionLabels \ {"idle", "done"}, S!StartWith(r, kind, label)
        PROVE  hPc'[r] = label /\ hCall'[r] \in SubmissionCalls /\ hCall'[r].kind = kind
    BY <2>1 DEF S!StartWith
  <2>2. \/ hPc'[r] = "form" /\ hCall'[r].kind = "submit"
        \/ hPc'[r] = "address" /\ hCall'[r].kind = "createContact"
        \/ hPc'[r] = "contact" /\ hCall'[r].kind \in {"updateContact", "removeContact"}
        \/ hPc'[r] = "formOf" /\ hCall'[r].kind \in {"updateForm", "removeForm", "createColumn", "removeColumn"}
    BY <1>1, <2>1 DEF S!Start
  <2> QED BY <1>0, <2>2
<1>2. CASE S!FindForm(r)
  BY <1>0, <1>2 DEF S!FindForm
<1>3. CASE S!FindSubmitter(r)
  <2>1. CASE S!Goto(r, "newSubmitter")
    BY <1>0, <1>3, <2>1 DEF S!FindSubmitter
  <2>2. ASSUME NEW c \in S!Standing(hCall[r].email), S!Continue(r, "submission", c)
        PROVE  PlacedSubmission(r)'
    <3>1. c \in S!ContactNames /\ people[c] # None /\ UNCHANGED people
      BY <1>3, <2>2 DEF S!FindSubmitter, S!Standing, S!ByEmail, S!tables
    <3>2. hPc[r] = "submitter" /\ hPc'[r] = "submission" /\ hHeld'[r] = c
      BY <1>3, <2>2 DEF S!FindSubmitter
    <3> QED BY <1>0, <3>1, <3>2
  <2> QED BY <1>3, <2>1, <2>2 DEF S!FindSubmitter
<1>4. CASE S!CreateSubmitter(r)
  <2>1. /\ hPc[r] = "newSubmitter"
        /\ \/ hPc'[r] = "done"
           \/ hPc'[r] = "submission" /\ hHeld'[r] = r
    BY <1>4, <1>a
  <2>2. r \in S!ContactNames
    BY DEF S!ContactNames
  <2>3. hPc'[r] = "submission" => people'[hHeld'[r]] # None
    BY <1>4, PeopleWritten DEF PeopleWrite
  <2> QED BY <1>0, <2>1, <2>2, <2>3
<1>5. CASE S!CreateSubmission(r)
  <2>1. hPc[r] = "submission" /\ hPc'[r] \in {"done", "values"} /\ hHeld'[r] = hHeld[r] /\ UNCHANGED people
    BY <1>0, <1>5 DEF S!CreateSubmission, S!Reply
  <2> QED BY <1>0, <2>1
<1>6. CASE S!CreateValues(r)
  <2>1. hPc[r] = "values" /\ hPc'[r] \in {"done", "process"} /\ hHeld'[r] = hHeld[r] /\ UNCHANGED people
    BY <1>0, <1>6 DEF S!CreateValues, S!Reply
  <2> QED BY <1>0, <2>1
<1>7. CASE S!ReadSubmission(r)
  <2>1. /\ hPc[r] = "process" /\ hPc'[r] \in {"count", "map", "mark"} /\ hHeld'[r] = hHeld[r]
        /\ UNCHANGED people
    BY <1>0, <1>7 DEF S!ReadSubmission, S!tables
  <2> QED BY <1>0, <2>1
<1>8. CASE S!MapToContact(r)
  <2>1. hPc[r] = "map" /\ hPc'[r] \in {"done", "mark"} /\ hHeld'[r] = hHeld[r]
    BY <1>0, <1>8 DEF S!MapToContact, S!Reply
  <2>2. people'[hHeld[r]] # None
    BY <1>0, <1>8, <2>1, PeopleWritten DEF PeopleWrite
  <2> QED BY <1>0, <2>1, <2>2
<1>9. CASE S!MarkProcessed(r)
  <2>1. hPc[r] = "mark" /\ hPc'[r] \in {"done", "count"} /\ hHeld'[r] = hHeld[r] /\ UNCHANGED people
    BY <1>0, <1>9 DEF S!MarkProcessed, S!Reply
  <2> QED BY <1>0, <2>1
<1>10. CASE S!CountSubmission(r)
  <2>1. hPc[r] = "count" /\ hPc'[r] \in {"done", "notify"}
    BY <1>0, <1>10 DEF S!CountSubmission
  <2> QED BY <1>0, <2>1
<1>11. CASE S!NotifyCreator(r)
  BY <1>0, <1>11 DEF S!NotifyCreator
<1>12. CASE S!FindAddress(r)
  <2>1. /\ hPc[r] = "address" /\ UNCHANGED people
        /\ \/ hPc'[r] = "done"
           \/ hPc'[r] = "newContact" /\ S!Kind(r) = "createContact"
           \/ hPc'[r] = "writeContact" /\ S!Kind(r) # "createContact"
    BY <1>0, <1>12 DEF S!FindAddress, S!tables
  <2> QED BY <1>0, <2>1
<1>13. CASE S!CreateContact(r)
  <2>1. hPc'[r] = "done"
    BY <1>0, <1>13 DEF S!CreateContact
  <2> QED BY <1>0, <2>1
<1>14. CASE S!FindContact(r)
  <2>1. /\ hPc[r] = "contact" /\ UNCHANGED people
        /\ \/ hPc'[r] = "done"
           \/ /\ people[hCall[r].contact] # None
              /\ \/ hPc'[r] = "dropContact"
                 \/ hPc'[r] \in {"writeContact", "address"} /\ S!Kind(r) # "removeContact"
    BY <1>0, <1>14 DEF S!FindContact, S!tables
  <2> QED BY <1>0, <2>1
<1>15. CASE S!WriteContact(r)
  <2>1. hPc'[r] = "done"
    BY <1>0, <1>15 DEF S!WriteContact
  <2> QED BY <1>0, <2>1
<1>16. CASE S!DropContact(r)
  <2>1. hPc'[r] = "done"
    BY <1>0, <1>16 DEF S!DropContact
  <2> QED BY <1>0, <2>1
<1>17. CASE S!FindFormOf(r)
  <2>1. /\ hPc[r] = "formOf" /\ UNCHANGED people
        /\ \/ hPc'[r] = "done"
           \/ hPc'[r] = "writeForm" /\ S!Kind(r) = "updateForm"
           \/ hPc'[r] = "countSubmissions" /\ S!Kind(r) = "removeForm"
           \/ hPc'[r] = "writeColumn" /\ S!Kind(r) \notin {"updateForm", "removeForm"}
    BY <1>0, <1>17 DEF S!FindFormOf, S!tables
  <2> QED BY <1>0, <2>1
<1>18. CASE S!WriteForm(r)
  <2>1. hPc'[r] = "done"
    BY <1>0, <1>18 DEF S!WriteForm
  <2> QED BY <1>0, <2>1
<1>19. CASE S!CountSubmissions(r)
  <2>1. hPc[r] = "countSubmissions" /\ hPc'[r] \in {"done", "deleteForm"}
    BY <1>0, <1>19 DEF S!CountSubmissions
  <2> QED BY <1>0, <2>1
<1>20. CASE S!DeleteForm(r)
  <2>1. hPc'[r] = "done"
    BY <1>0, <1>20 DEF S!DeleteForm
  <2> QED BY <1>0, <2>1
<1>21. CASE S!WriteColumn(r)
  <2>1. hPc'[r] = "done"
    BY <1>0, <1>21 DEF S!WriteColumn
  <2> QED BY <1>0, <2>1
<1> QED BY <1>1, <1>2, <1>3, <1>4, <1>5, <1>6, <1>7, <1>8, <1>9, <1>10, <1>11, <1>12, <1>13, <1>14, <1>15,
           <1>16, <1>17, <1>18, <1>19, <1>20, <1>21 DEF SubmissionStep

LEMMA SubmissionsTypedStep ==
    ASSUME SubmissionsTyped, NEW r \in Requests, SubmissionStep(r)
    PROVE  SubmissionsTyped'
<1>0. SubmissionMoved(r)
  BY SubmissionMoves
<1>1. /\ people' \in [S!ContactNames -> S!Person \cup {None}]
      /\ \A c \in S!ContactNames : people[c] # None => people'[c] # None
  BY SubmissionReads, PeopleWritten, FormsWritten DEF SubmissionsTyped, S!TypeOK
<1>2. S!TypeOK'
  <2>1. CASE FormWrite(r)
    BY <2>1, FormsWritten
  <2>2. CASE ~FormWrite(r)
    <3>1. UNCHANGED <<forms, columns, submissions, values, overlooked>>
      BY <2>2, SubmissionReads, PeopleWritten
    <3> QED BY <1>0, <1>1, <3>1
        DEF SubmissionsTyped, S!TypeOK, S!Handling, S!Halfway, SubmissionMoved, SubmissionLabels, SubmissionAnswers
  <2> QED BY <2>1, <2>2
<1>3. ASSUME NEW q \in Requests PROVE PlacedSubmission(q)'
  <2>1. CASE q = r
    BY <2>1, OwnSubmissionCall
  <2>2. CASE q # r
    <3>1. /\ hPc'[q] = hPc[q] /\ hCall'[q] = hCall[q] /\ hHeld'[q] = hHeld[q] /\ hAnswer'[q] = hAnswer[q]
          /\ PlacedSubmission(q)
      BY <1>0, <2>2 DEF SubmissionMoved, SubmissionsTyped
    <3>2. S!Kind(q)' = S!Kind(q)
      BY <3>1 DEF S!Kind
    <3> QED BY <1>1, <3>1, <3>2, SubmissionCallFields DEF PlacedSubmission, S!Kind
  <2> QED BY <2>1, <2>2
<1> QED BY <1>0, <1>2, <1>3 DEF SubmissionsTyped, SubmissionMoved

-----------------------------------------------------------------------------
\* A submission is stored by a call on its way to the count, or one that is
\* over: counted and answered, or stopped by an error.
Stored ==
    \A r \in Requests : submissions[r] # None =>
        /\ S!Kind(r) = "submit" /\ submissions[r].form = hCall[r].form
        /\ hPc[r] \in {"notify", "done"} \cup Halfway

\* It stays until its form goes.
Surviving ==
    \A r \in Requests : hPc[r] \in Halfway /\ forms[hCall[r].form] # None => submissions[r] # None

\* A removal that nobody overtook has read the number of submissions there are.
RemovalsStand ==
    \A r \in Requests : hPc[r] = "deleteForm" /\ r \notin overlooked => S!Received(hCall[r].form) = {}

SubmissionInv ==
    SubmissionsTyped /\ Stored /\ Surviving /\ RemovalsStand /\ S!CountsFollowSubmissions

\* A step that stores no submission and removes no form.
Calm ==
    /\ \A q \in Requests :
          /\ submissions'[q] # None <=> submissions[q] # None
          /\ submissions[q] # None => submissions'[q].form = submissions[q].form
    /\ \A f \in Forms : forms'[f] # None <=> forms[f] # None

CountKept(f) == forms[f] # None => forms'[f].submissionCount = forms[f].submissionCount

LEMMA SubmissionStored ==
    ASSUME SubmissionsTyped, NEW r \in Requests, S!CreateSubmission(r)
    PROVE  /\ S!Kind(r) = "submit" /\ hCall[r].form \in Forms
           /\ hPc[r] = "submission" /\ UNCHANGED forms
           /\ \/ hPc'[r] = "done" /\ hAnswer'[r] = "refused" /\ UNCHANGED <<submissions, overlooked>>
              \/ /\ hPc'[r] = "values" /\ hAnswer'[r] = "none"
                 /\ submissions'[r] # None /\ submissions'[r].form = hCall[r].form
                 /\ \A q \in Requests \ {r} : submissions'[q] = submissions[q]
                 /\ overlooked' = overlooked \cup {q \in S!At("deleteForm") : hCall[q].form = hCall[r].form}
<1>1. PlacedSubmission(r) /\ hPc[r] = "submission"
  BY DEF SubmissionsTyped, S!CreateSubmission
<1>2. S!Kind(r) = "submit" /\ hCall[r].form \in Forms /\ hHeld[r] \in S!ContactNames
  BY <1>1, SubmissionCallFields DEF PlacedSubmission, Submitting, S!Kind
<1>3. CASE S!Reply(r, "refused") /\ UNCHANGED <<submissions, overlooked>>
  BY <1>1, <1>2, <1>3, SubmissionReplies DEF S!CreateSubmission, SubmissionAnswers
<1>4. CASE /\ submissions' = [submissions EXCEPT ![r] =
                  [form |-> hCall[r].form, contact |-> hHeld[r], status |-> "pending"]]
           /\ overlooked' = overlooked \cup {q \in S!At("deleteForm") : hCall[q].form = hCall[r].form}
           /\ S!Goto(r, "values")
  <2>1. [form |-> hCall[r].form, contact |-> hHeld[r], status |-> "pending"] \in S!Submission
    BY <1>2 DEF S!Submission
  <2>2. hPc'[r] = "values" /\ SubmissionMoved(r)
    BY <1>1, <1>4, SubmissionGoes DEF SubmissionLabels
  <2>3. submissions \in [Requests -> S!Submission \cup {None}]
    BY DEF SubmissionsTyped, S!TypeOK
  <2> QED BY <1>1, <1>2, <1>4, <2>1, <2>2, <2>3, NoSubmission DEF S!CreateSubmission, SubmissionMoved
<1> QED BY <1>3, <1>4 DEF S!CreateSubmission

LEMMA FormRemoved ==
    ASSUME SubmissionsTyped, NEW r \in Requests, S!DeleteForm(r)
    PROVE  /\ S!Kind(r) = "removeForm" /\ hCall[r].form \in Forms
           /\ hPc[r] = "deleteForm" /\ hPc'[r] = "done" /\ UNCHANGED overlooked
           /\ \/ UNCHANGED <<forms, submissions>>
              \/ /\ forms' = [forms EXCEPT ![hCall[r].form] = None]
                 /\ submissions' = [s \in Requests |->
                        IF s \in S!Received(hCall[r].form) THEN None ELSE submissions[s]]
<1>1. PlacedSubmission(r) /\ hPc[r] = "deleteForm"
  BY DEF SubmissionsTyped, S!DeleteForm
<1>2. S!Kind(r) = "removeForm" /\ hCall[r].form \in Forms
  BY <1>1, SubmissionCallFields DEF PlacedSubmission, S!Kind
<1>3. hPc'[r] = "done"
  BY <1>1, SubmissionReplies DEF S!DeleteForm, S!Fails, SubmissionAnswers
<1> QED BY <1>1, <1>2, <1>3 DEF S!DeleteForm, S!tables

LEMMA CountTaken ==
    ASSUME SubmissionsTyped, NEW r \in Requests, S!CountSubmission(r)
    PROVE  /\ S!Kind(r) = "submit" /\ hCall[r].form \in Forms
           /\ hPc[r] = "count" /\ UNCHANGED <<submissions, overlooked>>
           /\ \/ /\ forms[hCall[r].form] = None /\ UNCHANGED forms
                 /\ hPc'[r] = "done" /\ hAnswer'[r] = "error"
              \/ /\ forms[hCall[r].form] # None
                 /\ hPc'[r] = "notify" /\ hAnswer'[r] = "none"
                 /\ \A f \in Forms : forms'[f] # None <=> forms[f] # None
                 /\ \A f \in Forms \ {hCall[r].form} : forms'[f] = forms[f]
                 /\ forms[hCall[r].form].submissionCount \in Nat
                 /\ forms'[hCall[r].form].submissionCount = forms[hCall[r].form].submissionCount + 1
<1> DEFINE f == hCall[r].form
<1>1. PlacedSubmission(r) /\ hPc[r] = "count"
  BY DEF SubmissionsTyped, S!CountSubmission
<1>2. S!Kind(r) = "submit" /\ f \in Forms
  BY <1>1, SubmissionCallFields DEF PlacedSubmission, Submitting, Halfway, S!Kind
<1>3. CASE forms[f] = None
  BY <1>1, <1>2, <1>3, SubmissionReplies DEF S!CountSubmission, S!Fails, SubmissionAnswers
<1>4. CASE forms[f] # None
  <2>1. forms[f] \in S!Form /\ forms \in [Forms -> S!Form \cup {None}]
    BY <1>2, <1>4 DEF SubmissionsTyped, S!TypeOK
  <2>2. /\ forms' = [forms EXCEPT ![f] = [forms[f] EXCEPT !.submissionCount = forms[f].submissionCount + 1]]
        /\ S!Goto(r, "notify") /\ UNCHANGED <<submissions, overlooked>>
    BY <1>4 DEF S!CountSubmission, S!Incremented
  <2>3. /\ [forms[f] EXCEPT !.submissionCount = forms[f].submissionCount + 1] \in S!Form
        /\ [forms[f] EXCEPT !.submissionCount = forms[f].submissionCount + 1].submissionCount =
              forms[f].submissionCount + 1
        /\ forms[f].submissionCount \in Nat
    BY <2>1 DEF S!Form
  <2>4. hPc'[r] = "notify" /\ hAnswer'[r] = "none"
    BY <1>1, <2>2, SubmissionGoes DEF SubmissionLabels, SubmissionMoved
  <2> HIDE DEF S!Form
  <2> QED BY <1>1, <1>2, <1>4, <2>1, <2>2, <2>3, <2>4, NoSubmission
<1> QED BY <1>3, <1>4

\* Every other step is calm, keeps the counts, and takes a submission on or to
\* its end.
LEMMA SubmissionCalm ==
    ASSUME SubmissionsTyped, NEW r \in Requests, SubmissionStep(r),
           ~S!CreateSubmission(r), ~S!DeleteForm(r), ~S!CountSubmission(r)
    PROVE  /\ Calm /\ UNCHANGED overlooked
           /\ \A f \in Forms : CountKept(f)
           /\ hPc[r] \in Halfway => hPc'[r] \in Halfway \/ (hPc'[r] = "done" /\ hAnswer'[r] = "error")
           /\ hPc[r] = "notify" => hPc'[r] = "done" /\ hAnswer'[r] \in {"ok", "unnotified"}
           /\ hPc'[r] \in Halfway => hPc[r] \in Halfway
           /\ hPc'[r] = "deleteForm" =>
                 S!Kind(r) = "removeForm" /\ hCall'[r] = hCall[r] /\ S!Received(hCall[r].form) = {}
<1>1. Calm /\ UNCHANGED overlooked /\ \A f \in Forms : CountKept(f)
  <2>1. CASE S!MarkProcessed(r)
    <3>1. submissions \in [Requests -> S!Submission \cup {None}]
      BY DEF SubmissionsTyped, S!TypeOK
    <3>2. CASE UNCHANGED submissions
      BY <2>1, <3>2 DEF S!MarkProcessed, Calm, CountKept
    <3>3. CASE /\ submissions[r] # None
               /\ submissions' = [submissions EXCEPT ![r] = [submissions[r] EXCEPT !.status = "processed"]]
      <4>1. submissions[r] \in S!Submission
        BY <3>1, <3>3
      <4>2. /\ [submissions[r] EXCEPT !.status = "processed"] \in S!Submission
            /\ [submissions[r] EXCEPT !.status = "processed"].form = submissions[r].form
        BY <4>1 DEF S!Submission
      <4>3. submissions'[r] # None /\ submissions'[r].form = submissions[r].form
        BY <3>1, <3>3, <4>2, NoSubmission
      <4>4. \A q \in Requests \ {r} : submissions'[q] = submissions[q]
        BY <3>1, <3>3
      <4> QED BY <2>1, <3>3, <4>3, <4>4 DEF S!MarkProcessed, Calm, CountKept
    <3> QED BY <2>1, <3>2, <3>3 DEF S!MarkProcessed
  <2>2. CASE S!WriteForm(r)
    <3> DEFINE f == hCall[r].form
    <3>1. forms \in [Forms -> S!Form \cup {None}] /\ f \in Forms
      BY <2>2, SubmissionCallFields DEF SubmissionsTyped, S!TypeOK, S!WriteForm, PlacedSubmission, S!Kind
    <3>2. CASE UNCHANGED forms
      BY <2>2, <3>2 DEF S!WriteForm, Calm, CountKept
    <3>3. CASE /\ forms[f] # None
               /\ forms' = [forms EXCEPT ![f] = [forms[f] EXCEPT !.status = hCall[r].status]]
      <4>1. hCall[r].status \in {"draft", "published", "archived"} /\ forms[f] \in S!Form
        BY <2>2, <3>1, <3>3, SubmissionCallFields DEF SubmissionsTyped, S!WriteForm, PlacedSubmission, S!Kind
      <4>2. /\ [forms[f] EXCEPT !.status = hCall[r].status] \in S!Form
            /\ [forms[f] EXCEPT !.status = hCall[r].status].submissionCount = forms[f].submissionCount
        BY <4>1 DEF S!Form
      <4> HIDE DEF f
      <4>3. forms'[f] # None /\ forms'[f].submissionCount = forms[f].submissionCount
        BY <3>1, <3>3, <4>2, NoSubmission
      <4>4. \A g \in Forms \ {f} : forms'[g] = forms[g]
        BY <3>1, <3>3
      <4> QED BY <2>2, <3>3, <4>3, <4>4 DEF S!WriteForm, Calm, CountKept
    <3> QED BY <2>2, <3>2, <3>3 DEF S!WriteForm
  <2>3. CASE ~S!MarkProcessed(r) /\ ~S!WriteForm(r)
    <3>1. UNCHANGED <<forms, submissions, overlooked>>
      BY <2>3, SubmissionReads, PeopleWritten DEF FormWrite, S!CreateValues, S!WriteColumn
    <3> QED BY <3>1 DEF Calm, CountKept
  <2> QED BY <2>1, <2>2, <2>3
<1>2. hPc[r] \in Halfway => hPc'[r] \in Halfway \/ (hPc'[r] = "done" /\ hAnswer'[r] = "error")
  <2>1. hPc[r] \in Halfway => S!CreateValues(r) \/ S!ReadSubmission(r) \/ S!MapToContact(r) \/ S!MarkProcessed(r)
    BY Zenon
    DEF SubmissionStep, S!Start, S!StartWith, S!Begin, S!FindForm, S!FindSubmitter, S!CreateSubmitter,
        S!NotifyCreator, S!FindAddress, S!CreateContact, S!FindContact, S!WriteContact, S!DropContact,
        S!FindFormOf, S!WriteForm, S!CountSubmissions, S!WriteColumn, Halfway
  <2> QED BY <2>1, SubmissionReplies, SubmissionGoes
          DEF S!CreateValues, S!ReadSubmission, S!MapToContact, S!MarkProcessed, S!Fails, Halfway,
              SubmissionLabels, SubmissionAnswers
<1>3. hPc[r] = "notify" => hPc'[r] = "done" /\ hAnswer'[r] \in {"ok", "unnotified"}
  <2>1. hPc[r] = "notify" => S!NotifyCreator(r)
    BY Zenon
    DEF SubmissionStep, S!Start, S!StartWith, S!Begin, S!FindForm, S!FindSubmitter, S!CreateSubmitter,
        S!CreateValues, S!ReadSubmission, S!MapToContact, S!MarkProcessed, S!FindAddress, S!CreateContact,
        S!FindContact, S!WriteContact, S!DropContact, S!FindFormOf, S!WriteForm, S!CountSubmissions, S!WriteColumn
  <2> QED BY <2>1, SubmissionReplies DEF S!NotifyCreator, SubmissionAnswers
<1>4. hPc'[r] \in Halfway => hPc[r] \in Halfway
  BY SubmissionContinues, SubmissionGoes, SubmissionReplies, SubmissionBegins
  DEF SubmissionStep, S!Start, S!StartWith, S!FindForm, S!FindSubmitter, S!CreateSubmitter, S!CreateValues,
      S!ReadSubmission, S!MapToContact, S!MarkProcessed, S!NotifyCreator, S!FindAddress, S!CreateContact,
      S!FindContact, S!WriteContact, S!DropContact, S!FindFormOf, S!WriteForm, S!CountSubmissions,
      S!WriteColumn, S!Fails, Halfway, SubmissionLabels, SubmissionAnswers
<1>5. hPc'[r] = "deleteForm" =>
         S!Kind(r) = "removeForm" /\ hCall'[r] = hCall[r] /\ S!Received(hCall[r].form) = {}
  <2>1. hPc'[r] = "deleteForm" => S!CountSubmissions(r)
    BY SubmissionContinues, SubmissionGoes, SubmissionReplies, SubmissionBegins
    DEF SubmissionStep, S!Start, S!StartWith, S!FindForm, S!FindSubmitter, S!CreateSubmitter, S!CreateValues,
        S!ReadSubmission, S!MapToContact, S!MarkProcessed, S!NotifyCreator, S!FindAddress, S!CreateContact,
        S!FindContact, S!WriteContact, S!DropContact, S!FindFormOf, S!WriteForm,
        S!WriteColumn, S!Fails, SubmissionLabels, SubmissionAnswers
  <2>2. S!CountSubmissions(r) => S!Kind(r) = "removeForm" /\ hCall'[r] = hCall[r]
    BY SubmissionMoves DEF S!CountSubmissions, SubmissionsTyped, PlacedSubmission, SubmissionMoved
  <2>3. S!CountSubmissions(r) /\ S!HasSubmissions(hCall[r].form) => hPc'[r] # "deleteForm"
    BY SubmissionReplies DEF S!CountSubmissions, SubmissionAnswers
  <2> QED BY <2>1, <2>2, <2>3 DEF S!HasSubmissions
<1> QED BY <1>1, <1>2, <1>3, <1>4, <1>5

LEMMA StoredStep ==
    ASSUME SubmissionsTyped, Stored, NEW r \in Requests, SubmissionStep(r)
    PROVE  Stored'
<1>0. SubmissionMoved(r)
  BY SubmissionMoves
<1>1. ASSUME NEW q \in Requests, submissions[q] # None
      PROVE  /\ S!Kind(q)' = "submit" /\ hCall'[q] = hCall[q]
             /\ hPc'[q] \in {"notify", "done"} \cup Halfway
  <2>1. S!Kind(q) = "submit" /\ hPc[q] \in {"notify", "done"} \cup Halfway
    BY <1>1 DEF Stored
  <2>2. hCall'[q] = hCall[q]
    BY <1>0, <2>1 DEF SubmissionMoved, Halfway
  <2>3. CASE q # r
    BY <1>0, <2>1, <2>2, <2>3 DEF SubmissionMoved, S!Kind
  <2>4. CASE q = r
    <3>1. hPc'[r] \in {"notify", "done"} \cup Halfway
      <4>1. hPc[r] # "done" /\ hPc[r] # "submission"
        BY <1>0, <2>1, <2>4 DEF SubmissionMoved, Halfway
      <4>2. CASE S!CountSubmission(r)
        BY <4>2, CountTaken
      <4>3. CASE S!DeleteForm(r)
        BY <4>3, FormRemoved
      <4>4. CASE ~S!CountSubmission(r) /\ ~S!DeleteForm(r)
        BY <2>1, <2>4, <4>1, <4>4, SubmissionCalm, SubmissionStored
      <4> QED BY <4>2, <4>3, <4>4
    <3> QED BY <2>1, <2>2, <2>4, <3>1 DEF S!Kind
  <2> QED BY <2>3, <2>4
<1>2. CASE S!CreateSubmission(r)
  <2>1. \A q \in Requests \ {r} : submissions'[q] = submissions[q]
    BY <1>2, SubmissionStored
  <2>2. submissions'[r] # None /\ submissions[r] = None =>
           /\ S!Kind(r)' = "submit" /\ submissions'[r].form = hCall'[r].form /\ hPc'[r] \in Halfway
    BY <1>0, <1>2, SubmissionStored DEF SubmissionMoved, S!Kind, Halfway
  <2>3. submissions[r] = None
    BY <1>2, SubmissionStored DEF Stored, Halfway
  <2> QED BY <1>1, <2>1, <2>2, <2>3 DEF Stored
<1>3. CASE S!DeleteForm(r)
  <2>1. \A q \in Requests : submissions'[q] # None => submissions'[q] = submissions[q]
    BY <1>3, FormRemoved
  <2> QED BY <1>1, <2>1 DEF Stored
<1>4. CASE ~S!CreateSubmission(r) /\ ~S!DeleteForm(r)
  <2>1. \A q \in Requests : submissions'[q] # None =>
           submissions[q] # None /\ submissions'[q].form = submissions[q].form
    BY <1>4, SubmissionCalm, CountTaken DEF Calm
  <2> QED BY <1>1, <2>1 DEF Stored
<1> QED BY <1>2, <1>3, <1>4

LEMMA SurvivingStep ==
    ASSUME SubmissionsTyped, Stored, Surviving, NEW r \in Requests, SubmissionStep(r)
    PROVE  Surviving'
<1>0. SubmissionMoved(r)
  BY SubmissionMoves
<1> SUFFICES ASSUME NEW q \in Requests, hPc'[q] \in Halfway, forms'[hCall'[q].form] # None
             PROVE  submissions'[q] # None
  BY DEF Surviving
<1>1. CASE S!CreateSubmission(r)
  <2>1. CASE q = r
    BY <1>1, <2>1, SubmissionStored DEF Halfway
  <2>2. CASE q # r
    BY <1>0, <1>1, <2>2, SubmissionStored DEF SubmissionMoved, Surviving
  <2> QED BY <2>1, <2>2
<1>2. CASE ~S!CreateSubmission(r)
  <2>1. hPc[q] \in Halfway /\ hCall'[q] = hCall[q]
    <3>1. hPc[q] \in Halfway
      <4>1. CASE q # r
        BY <1>0, <4>1 DEF SubmissionMoved
      <4>2. CASE q = r
        BY <1>2, <4>2, SubmissionCalm, FormRemoved, CountTaken DEF Halfway
      <4> QED BY <4>1, <4>2
    <3> QED BY <1>0, <3>1 DEF SubmissionMoved, Halfway
  <2>2. hCall[q].form \in Forms
    BY <2>1, SubmissionCallFields DEF SubmissionsTyped, PlacedSubmission, Submitting, Halfway, S!Kind
  <2>3. CASE S!DeleteForm(r)
    <3>1. CASE UNCHANGED <<forms, submissions>>
      BY <2>1, <3>1 DEF Surviving
    <3>2. CASE /\ forms' = [forms EXCEPT ![hCall[r].form] = None]
               /\ submissions' = [s \in Requests |->
                      IF s \in S!Received(hCall[r].form) THEN None ELSE submissions[s]]
      <4>1. forms \in [Forms -> S!Form \cup {None}] /\ hCall[r].form \in Forms
        BY <2>3, FormRemoved DEF SubmissionsTyped, S!TypeOK
      <4>2. hCall[q].form # hCall[r].form /\ forms[hCall[q].form] # None
        BY <2>1, <2>2, <3>2, <4>1
      <4>3. submissions[q] # None /\ submissions[q].form = hCall[q].form
        BY <2>1, <4>2 DEF Surviving, Stored
      <4> QED BY <3>2, <4>2, <4>3 DEF S!Received
    <3> QED BY <2>3, <3>1, <3>2, FormRemoved
  <2>4. CASE ~S!DeleteForm(r)
    <3>1. /\ forms[hCall[q].form] # None
          /\ submissions[q] # None => submissions'[q] # None
      BY <1>2, <2>1, <2>2, <2>4, SubmissionCalm, CountTaken DEF Calm
    <3> QED BY <2>1, <3>1 DEF Surviving
  <2> QED BY <2>3, <2>4
<1> QED BY <1>1, <1>2

LEMMA CalmReceives ==
    ASSUME Calm, NEW f
    PROVE  S!Received(f)' = S!Received(f)
BY DEF Calm, S!Received

LEMMA RemovalsStandStep ==
    ASSUME SubmissionsTyped, RemovalsStand, NEW r \in Requests, SubmissionStep(r)
    PROVE  RemovalsStand'
<1>0. SubmissionMoved(r)
  BY SubmissionMoves
<1> SUFFICES ASSUME NEW q \in Requests, hPc'[q] = "deleteForm", q \notin overlooked'
             PROVE  S!Received(hCall[q].form)' = {}
  BY DEF RemovalsStand
<1>1. CASE q = r
  <2>1. ~S!CreateSubmission(r) /\ ~S!DeleteForm(r) /\ ~S!CountSubmission(r)
    BY <1>1, SubmissionStored, FormRemoved, CountTaken
  <2>2. Calm /\ hCall'[r] = hCall[r] /\ S!Received(hCall[r].form) = {}
    BY <1>1, <2>1, SubmissionCalm
  <2> QED BY <1>1, <2>2 DEF Calm, S!Received
<1>2. CASE q # r
  <2>1. hPc[q] = "deleteForm" /\ hCall'[q] = hCall[q]
    BY <1>0, <1>2 DEF SubmissionMoved
  <2>2. overlooked \subseteq overlooked'
    BY SubmissionStored, FormRemoved, CountTaken, SubmissionCalm
  <2>3. S!Received(hCall[q].form) = {}
    BY <2>1, <2>2 DEF RemovalsStand
  <2>4. CASE S!CreateSubmission(r)
    <3>1. CASE UNCHANGED submissions
      BY <2>1, <2>3, <3>1 DEF S!Received
    <3>2. CASE ~UNCHANGED submissions
      <4>1. /\ submissions'[r].form = hCall[r].form
            /\ \A p \in Requests \ {r} : submissions'[p] = submissions[p]
            /\ overlooked' = overlooked \cup {p \in S!At("deleteForm") : hCall[p].form = hCall[r].form}
        BY <2>4, <3>2, SubmissionStored
      <4>2. hCall[q].form # hCall[r].form
        BY <2>1, <4>1 DEF S!At
      <4> QED BY <2>1, <2>3, <4>1, <4>2 DEF S!Received
    <3> QED BY <3>1, <3>2
  <2>5. CASE S!DeleteForm(r)
    <3>1. \A p \in Requests : submissions'[p] # None => submissions'[p] = submissions[p]
      BY <2>5, FormRemoved
    <3> QED BY <2>1, <2>3, <3>1 DEF S!Received
  <2>6. CASE S!CountSubmission(r)
    BY <2>1, <2>3, <2>6, CountTaken DEF S!Received
  <2>7. CASE ~S!CreateSubmission(r) /\ ~S!DeleteForm(r) /\ ~S!CountSubmission(r)
    BY <2>1, <2>3, <2>7, SubmissionCalm DEF Calm, S!Received
  <2> QED BY <2>4, <2>5, <2>6, <2>7
<1> QED BY <1>1, <1>2

\* The submissions of a form, and those not yet in its count, are finitely many.
LEMMA FinitelyMany ==
    ASSUME NEW f
    PROVE  /\ IsFiniteSet(S!Received(f)) /\ IsFiniteSet(S!Uncounted(f))
           /\ Cardinality(S!Received(f)) \in Nat /\ Cardinality(S!Uncounted(f)) \in Nat
<1>1. S!Received(f) \subseteq Requests /\ S!Uncounted(f) \subseteq Requests
  BY DEF S!Received, S!Uncounted
<1> QED BY <1>1, FiniteRequests, FS_Subset, FS_CardinalityType

LEMMA FormCountsStep ==
    ASSUME SubmissionsTyped, Stored, Surviving, S!CountsFollowSubmissions, NEW r \in Requests, SubmissionStep(r)
    PROVE  S!CountsFollowSubmissions'
<1>0. SubmissionMoved(r)
  BY SubmissionMoves
<1> SUFFICES ASSUME NEW f \in Forms, forms'[f] # None
             PROVE  forms'[f].submissionCount + S!Cardinality(S!Uncounted(f)') = S!Cardinality(S!Received(f)')
  BY DEF S!CountsFollowSubmissions
<1>1. forms[f] # None => forms[f].submissionCount + Cardinality(S!Uncounted(f)) = Cardinality(S!Received(f))
  BY SameCardinality DEF S!CountsFollowSubmissions
<1>2. ASSUME NEW q \in Requests, q # r
      PROVE  /\ hPc'[q] = hPc[q] /\ hAnswer'[q] = hAnswer[q]
  BY <1>0, <1>2 DEF SubmissionMoved
<1>3. hAnswer[r] = "none" /\ hPc[r] # "done"
  BY <1>0 DEF SubmissionsTyped, PlacedSubmission, SubmissionMoved
<1>4. S!Halfway = Halfway
  BY DEF S!Halfway, Halfway
<1>5. ASSUME UNCHANGED forms \/ (forms[f] # None /\ CountKept(f)),
             S!Received(f)' = S!Received(f), S!Uncounted(f)' = S!Uncounted(f)
      PROVE  forms'[f].submissionCount + S!Cardinality(S!Uncounted(f)') = S!Cardinality(S!Received(f)')
  BY <1>1, <1>5, SameCardinality DEF CountKept
<1>6. CASE S!CreateSubmission(r)
  <2>1. CASE UNCHANGED submissions
    <3>1. r \notin S!Received(f)
      BY <1>6, SubmissionStored DEF S!Received, Stored, Halfway
    <3>2. S!Received(f)' = S!Received(f) /\ UNCHANGED forms
      BY <1>6, <2>1, SubmissionStored DEF S!Received
    <3>3. S!Uncounted(f)' = S!Uncounted(f)
      BY <1>2, <3>1, <3>2 DEF S!Uncounted, S!Received
    <3> QED BY <1>5, <3>2, <3>3
  <2>2. CASE ~UNCHANGED submissions
    <3>1. /\ hPc[r] = "submission" /\ hPc'[r] = "values" /\ UNCHANGED forms
          /\ submissions'[r] # None /\ submissions'[r].form = hCall[r].form
          /\ \A q \in Requests \ {r} : submissions'[q] = submissions[q]
      BY <1>6, <2>2, SubmissionStored
    <3>2. submissions[r] = None
      BY <3>1 DEF Stored, Halfway
    <3>3. CASE hCall[r].form = f
      <4>1. r \notin S!Received(f) /\ r \notin S!Uncounted(f)
        BY <3>2 DEF S!Received, S!Uncounted
      <4>2. S!Received(f)' = S!Received(f) \cup {r}
        BY <3>1, <3>3 DEF S!Received
      <4>3. S!Uncounted(f)' = S!Uncounted(f) \cup {r}
        BY <1>2, <1>4, <3>1, <4>2, <4>1 DEF S!Uncounted, S!Received, Halfway
      <4>4. /\ Cardinality(S!Received(f)') = Cardinality(S!Received(f)) + 1
            /\ Cardinality(S!Uncounted(f)') = Cardinality(S!Uncounted(f)) + 1
        BY <4>1, <4>2, <4>3, FinitelyMany, FS_AddElement
      <4>5. forms[f].submissionCount \in Nat /\ forms[f] # None
        BY <3>1 DEF SubmissionsTyped, S!TypeOK, S!Form
      <4>6. forms'[f].submissionCount + Cardinality(S!Uncounted(f)') = Cardinality(S!Received(f)')
        BY <1>1, <3>1, <4>4, <4>5, FinitelyMany
      <4> QED BY <4>6, SameCardinality
    <3>4. CASE hCall[r].form # f
      <4>1. S!Received(f)' = S!Received(f) /\ r \notin S!Received(f)
        BY <3>1, <3>2, <3>4 DEF S!Received
      <4>2. S!Uncounted(f)' = S!Uncounted(f)
        BY <1>2, <4>1 DEF S!Uncounted, S!Received
      <4> QED BY <1>5, <3>1, <4>1, <4>2
    <3> QED BY <3>3, <3>4
  <2> QED BY <2>1, <2>2
<1>7. CASE S!DeleteForm(r)
  <2>1. r \notin S!Received(f)
    BY <1>7, FormRemoved DEF S!Received, Stored
  <2>2. S!Received(f)' = S!Received(f) /\ forms[f] # None /\ CountKept(f)
    <3>1. CASE UNCHANGED <<forms, submissions>>
      BY <3>1 DEF S!Received, CountKept
    <3>2. CASE /\ forms' = [forms EXCEPT ![hCall[r].form] = None]
               /\ submissions' = [s \in Requests |->
                      IF s \in S!Received(hCall[r].form) THEN None ELSE submissions[s]]
      <4>1. forms \in [Forms -> S!Form \cup {None}] /\ hCall[r].form \in Forms
        BY <1>7, FormRemoved DEF SubmissionsTyped, S!TypeOK
      <4>2. f # hCall[r].form /\ forms'[f] = forms[f]
        BY <3>2, <4>1
      <4> QED BY <3>2, <4>2 DEF S!Received, CountKept
    <3> QED BY <1>7, <3>1, <3>2, FormRemoved
  <2>3. S!Uncounted(f)' = S!Uncounted(f)
    BY <1>2, <2>1, <2>2 DEF S!Uncounted, S!Received
  <2> QED BY <1>5, <2>2, <2>3
<1>8. CASE S!CountSubmission(r)
  <2>1. S!Received(f)' = S!Received(f) /\ hPc[r] = "count" /\ S!Kind(r) = "submit"
    BY <1>8, CountTaken DEF S!Received
  <2>2. CASE hPc'[r] = "done" /\ hAnswer'[r] = "error" /\ UNCHANGED forms
    <3>1. S!Uncounted(f)' = S!Uncounted(f)
      BY <1>2, <1>4, <2>1, <2>2 DEF S!Uncounted, S!Received, Halfway
    <3> QED BY <1>5, <2>1, <2>2, <3>1
  <2>3. CASE hPc'[r] = "notify" /\ hAnswer'[r] = "none" /\ forms[hCall[r].form] # None
    <3>1. CASE hCall[r].form = f
      <4>1. r \in S!Received(f) /\ r \in S!Uncounted(f)
        BY <1>4, <2>1, <2>3, <3>1 DEF S!Received, S!Uncounted, Surviving, Stored, Halfway
      <4>2. S!Uncounted(f)' = S!Uncounted(f) \ {r}
        BY <1>2, <1>4, <2>1, <2>3 DEF S!Uncounted, S!Received, Halfway
      <4>3. Cardinality(S!Uncounted(f)') = Cardinality(S!Uncounted(f)) - 1
        BY <4>1, <4>2, FinitelyMany, FS_RemoveElement
      <4>4. /\ forms[f].submissionCount \in Nat
            /\ forms'[f].submissionCount = forms[f].submissionCount + 1
        BY <1>8, <2>3, <3>1, CountTaken
      <4>5. forms'[f].submissionCount + Cardinality(S!Uncounted(f)') = Cardinality(S!Received(f)')
        BY <1>1, <2>1, <2>3, <3>1, <4>3, <4>4, FinitelyMany
      <4> QED BY <4>5, SameCardinality
    <3>2. CASE hCall[r].form # f
      <4>1. r \notin S!Received(f)
        BY <3>2 DEF S!Received, Stored
      <4>2. S!Uncounted(f)' = S!Uncounted(f)
        BY <1>2, <2>1, <4>1 DEF S!Uncounted, S!Received
      <4>3. forms'[f] = forms[f]
        BY <1>8, <2>3, <3>2, CountTaken
      <4> QED BY <1>5, <2>1, <4>2, <4>3 DEF CountKept
    <3> QED BY <3>1, <3>2
  <2> QED BY <1>8, <2>2, <2>3, CountTaken
<1>9. CASE ~S!CreateSubmission(r) /\ ~S!DeleteForm(r) /\ ~S!CountSubmission(r)
  <2>1. S!Received(f)' = S!Received(f) /\ forms[f] # None /\ CountKept(f)
    BY <1>9, SubmissionCalm, CalmReceives DEF Calm
  <2>2. S!Uncounted(f)' = S!Uncounted(f)
    <3>1. CASE r \notin S!Received(f)
      BY <1>2, <2>1, <3>1 DEF S!Uncounted, S!Received
    <3>2. CASE hPc[r] \in Halfway
      <4>1. hPc'[r] \in Halfway \/ hAnswer'[r] = "error"
        BY <1>9, <3>2, SubmissionCalm
      <4> QED BY <1>2, <1>4, <2>1, <3>2, <4>1 DEF S!Uncounted, S!Received
    <3>3. CASE hPc[r] = "notify"
      <4>1. hPc'[r] \notin Halfway /\ hAnswer'[r] # "error" /\ hPc[r] \notin Halfway
        BY <1>9, <3>3, SubmissionCalm DEF Halfway
      <4> QED BY <1>2, <1>3, <1>4, <2>1, <4>1 DEF S!Uncounted, S!Received
    <3> QED BY <1>3, <3>1, <3>2, <3>3 DEF S!Received, Stored
  <2> QED BY <1>5, <2>1, <2>2
<1> QED BY <1>6, <1>7, <1>8, <1>9

LEMMA SubmissionInit == S!Init => SubmissionInv
<1> SUFFICES ASSUME S!Init PROVE SubmissionInv
  OBVIOUS
<1>1. /\ hPc = [r \in Requests |-> "idle"] /\ hCall = [r \in Requests |-> S!NoCall]
      /\ hHeld = [r \in Requests |-> None] /\ hAnswer = [r \in Requests |-> "none"]
  BY DEF S!Init, S!HandlersInit
<1>2. people \in [S!ContactNames -> S!Person \cup {None}]
  <2>1. \A c \in DOMAIN SeedContacts : [email |-> SeedContacts[c], isDeleted |-> FALSE] \in S!Person
    BY PartsAssumption DEF S!SubmissionsAssumption, S!Person
  <2> QED BY <2>1 DEF S!Init
<1>3. forms \in [Forms -> S!Form \cup {None}]
  BY DEF S!Init, S!Form
<1>4. SubmissionsTyped
  BY <1>1, <1>2, <1>3
  DEF S!Init, SubmissionsTyped, S!TypeOK, S!Handling, PlacedSubmission, Submitting, Halfway
<1>5. Stored /\ Surviving /\ RemovalsStand
  BY <1>1 DEF S!Init, Stored, Surviving, RemovalsStand, Halfway
<1>6. S!CountsFollowSubmissions
  <2> SUFFICES ASSUME NEW f \in Forms
               PROVE  forms[f].submissionCount + S!Cardinality(S!Uncounted(f)) = S!Cardinality(S!Received(f))
    BY DEF S!CountsFollowSubmissions
  <2>1. S!Received(f) = {} /\ S!Uncounted(f) = {}
    BY DEF S!Init, S!Received, S!Uncounted
  <2>2. Cardinality({}) = 0 /\ forms[f].submissionCount = 0
    BY FS_EmptySet DEF S!Init
  <2> QED BY <2>1, <2>2, SameCardinality
<1> QED BY <1>4, <1>5, <1>6 DEF SubmissionInv

LEMMA SubmissionInvStep == SubmissionInv /\ [S!Next]_S!vars => SubmissionInv'
<1> SUFFICES ASSUME SubmissionInv, [S!Next]_S!vars PROVE SubmissionInv'
  OBVIOUS
<1>1. CASE S!Next
  <2>1. PICK r \in Requests : SubmissionStep(r)
    BY <1>1 DEF S!Next, SubmissionStep
  <2> QED BY <2>1, SubmissionsTypedStep, StoredStep, SurvivingStep, RemovalsStandStep, FormCountsStep
      DEF SubmissionInv
<1>2. CASE UNCHANGED S!vars
  <2>1. UNCHANGED <<hPc, hCall, hHeld, hAnswer, people, forms, columns, submissions, values, overlooked>>
    BY <1>2 DEF S!vars, S!handlers, S!tables
  <2>2. SubmissionsTyped'
    BY <2>1 DEF SubmissionInv, SubmissionsTyped, S!TypeOK, S!Handling, PlacedSubmission, S!Kind
  <2>3. Stored' /\ Surviving' /\ RemovalsStand'
    BY <2>1 DEF SubmissionInv, Stored, Surviving, RemovalsStand, S!Received, S!Kind
  <2>4. S!CountsFollowSubmissions'
    BY <2>1 DEF SubmissionInv, S!CountsFollowSubmissions, S!Received, S!Uncounted
  <2> QED BY <2>2, <2>3, <2>4 DEF SubmissionInv
<1> QED BY <1>1, <1>2

LEMMA SubmissionsLostStep ==
    ASSUME SubmissionInv, [S!Next]_S!vars, NEW q \in Requests,
           hPc[q] = "deleteForm", hPc'[q] = "done", q \notin overlooked
    PROVE  submissions' = submissions
<1>1. ~UNCHANGED S!vars
  BY DEF S!vars, S!handlers
<1>2. PICK r \in Requests : SubmissionStep(r)
  BY <1>1 DEF S!Next, SubmissionStep
<1>3. r = q
  BY <1>2, SubmissionMoves DEF SubmissionMoved, SubmissionInv
<1>4. S!DeleteForm(q)
  BY <1>2, <1>3
  DEF SubmissionStep, S!Start, S!StartWith, S!Begin, S!FindForm, S!FindSubmitter, S!CreateSubmitter,
      S!CreateSubmission, S!CreateValues, S!ReadSubmission, S!MapToContact, S!MarkProcessed, S!CountSubmission,
      S!NotifyCreator, S!FindAddress, S!CreateContact, S!FindContact, S!WriteContact, S!DropContact,
      S!FindFormOf, S!WriteForm, S!CountSubmissions, S!WriteColumn
<1>5. S!Received(hCall[q].form) = {}
  BY DEF SubmissionInv, RemovalsStand
<1>6. submissions = [s \in Requests |-> submissions[s]]
  BY DEF SubmissionInv, SubmissionsTyped, S!TypeOK
<1> QED BY <1>4, <1>5, <1>6, FormRemoved DEF SubmissionInv

\* Submissions alone: a form's count is that of its submissions, less those on
\* their way to it and those whose handler was stopped (submissions.service.ts).
THEOREM SubmissionsCounted == S!Spec => []S!CountsFollowSubmissions
<1>1. S!Spec => []SubmissionInv
  BY SubmissionInit, SubmissionInvStep, PTL DEF S!Spec
<1> QED BY <1>1, PTL DEF SubmissionInv

LEMMA SubmissionsBeside == MCSpec => [](part = "submissions" => SubmissionInv)
<1> DEFINE Here == part = "submissions" => SubmissionInv
<1>1. MCInit => Here
  BY SubmissionInit DEF MCInit
<1>2. Here /\ [MCNext]_<<part, hVars, vars, tVars, cVars, sVars, mVars, rVars>> => Here'
  <2> SUFFICES ASSUME Here, [MCNext]_<<part, hVars, vars, tVars, cVars, sVars, mVars, rVars>>,
                      part' = "submissions"
               PROVE  SubmissionInv'
    OBVIOUS
  <2>1. part = "submissions" /\ SubmissionInv
    BY DEF MCNext
  <2>2. [S!Next]_S!vars
    BY <2>1 DEF MCNext, S!vars, S!handlers, S!tables, hVars, sVars
  <2> QED BY <2>1, <2>2, SubmissionInvStep
<1>3. MCSpec => []Here
  <2> HIDE DEF Here
  <2> QED BY <1>1, <1>2, PTL DEF MCSpec
<1> QED BY <1>3

\* The same where other components may run in its place.
THEOREM SubmissionsCounting == MCSpec => []CountsFollowSubmissions
<1>1. (part = "submissions" => SubmissionInv) => CountsFollowSubmissions
  BY DEF SubmissionInv, CountsFollowSubmissions
<1> QED BY <1>1, SubmissionsBeside, PTL

\* What a removal refuses to take along (contacts and subsidiaries of a
\* company, submissions of a form) goes only when it came after the removal
\* had counted (companies.service.ts, forms.service.ts).
THEOREM LostWhenOverlooked == MCSpec => LostOnlyIfOverlooked
<1> DEFINE Detached ==
             \A r \in Requests :
                hPc[r] = "deleteCompany" /\ hPc'[r] = "done" /\ r \notin cAged =>
                    contacts' = contacts /\ \A c \in C!Live : C!Exists(c)' => companies'[c] = companies[c]
           Taken ==
             \A r \in Requests :
                hPc[r] = "deleteForm" /\ hPc'[r] = "done" /\ r \notin overlooked => submissions' = submissions
<1>1. /\ part = "companies" => CompanyInv
      /\ [MCNext]_<<part, hVars, vars, tVars, cVars, sVars, mVars, rVars>>
      => [Detached]_C!vars
  <2> SUFFICES ASSUME part = "companies" => CompanyInv,
                      [MCNext]_<<part, hVars, vars, tVars, cVars, sVars, mVars, rVars>>, ~UNCHANGED C!vars
               PROVE  Detached
    OBVIOUS
  <2>1. CASE part = "companies"
    <3>1. [C!Next]_C!vars
      BY <2>1 DEF MCNext, C!vars, C!handlers, C!tables, C!history, hVars, cVars
    <3> QED BY <2>1, <3>1, LinksStep
  <2>2. CASE part # "companies"
    <3>1. contacts' = contacts /\ companies' = companies
      BY <2>2 DEF MCNext, cVars
    <3> QED BY <3>1
  <2> QED BY <2>1, <2>2
<1>2. /\ part = "submissions" => SubmissionInv
      /\ [MCNext]_<<part, hVars, vars, tVars, cVars, sVars, mVars, rVars>>
      => [Taken]_S!vars
  <2> SUFFICES ASSUME part = "submissions" => SubmissionInv,
                      [MCNext]_<<part, hVars, vars, tVars, cVars, sVars, mVars, rVars>>, ~UNCHANGED S!vars
               PROVE  Taken
    OBVIOUS
  <2>1. CASE part = "submissions"
    <3>1. [S!Next]_S!vars
      BY <2>1 DEF MCNext, S!vars, S!handlers, S!tables, hVars, sVars
    <3> QED BY <2>1, <3>1, SubmissionsLostStep
  <2>2. CASE part # "submissions"
    <3>1. submissions' = submissions
      BY <2>2 DEF MCNext, sVars
    <3> QED BY <3>1
  <2> QED BY <2>1, <2>2
<1>3. MCSpec => [][Detached]_C!vars /\ [][Taken]_S!vars
  <2> HIDE DEF Detached, Taken
  <2> QED BY <1>1, <1>2, CompaniesBeside, SubmissionsBeside, PTL DEF MCSpec
<1> QED BY <1>3 DEF LostOnlyIfOverlooked, C!LinksLostOnlyToAgedCounts, S!SubmissionsLostOnlyIfOverlooked

-----------------------------------------------------------------------------
(***************************************************************************)
(* Segments and workflows                                                  *)
(***************************************************************************)

LEMMA RuleCardinality == ASSUME NEW X PROVE R!Cardinality(X) = Cardinality(X)
BY DEF R!Cardinality, Cardinality

LEMMA RuleFinite == ASSUME NEW X PROVE R!IsFiniteSet(X) = IsFiniteSet(X)
BY Zenon DEF R!IsFiniteSet, IsFiniteSet

RowsAndCount == {"newRows", "recount", "writeCount"}
Replacement == {"dropRows"} \cup RowsAndCount

\* Where a request is says what it was called with.
PlacedRule(r) ==
    /\ hPc[r] # "idle" => hCall[r] \in RulesetCalls
    /\ hPc[r] = "newOwner" => R!Kind(r) = "createOwner"
    /\ hPc[r] = "owner" => R!Kind(r) \in {"updateOwner", "removeOwner"}
    /\ hPc[r] \in {"writeOwner", "dropRows"} => R!Kind(r) = "updateOwner"
    /\ hPc[r] \in RowsAndCount => R!Kind(r) \in {"createOwner", "updateOwner"}
    /\ hPc[r] \in Replacement => hCall[r].list \subseteq R!Criterion \cup R!Action
    /\ hPc[r] \in {"recount", "writeCount"} => R!CountsNow(r)
    /\ hPc[r] = "writeCount" => hHeld[r] \in Nat
    /\ hPc[r] = "deleteOwner" => R!Kind(r) = "removeOwner"
    /\ hPc[r] \in {"load", "executed"} => R!Kind(r) = "execute"
    /\ hPc[r] = "saveContact" => R!Kind(r) = "saveContact"

RulesTyped ==
    /\ R!TypeOK /\ hHeld = [q \in Requests |-> hHeld[q]]
    /\ \A r \in Requests : PlacedRule(r)

RuleStep(r) ==
    \/ R!Start(r) \/ R!Refused(r)
    \/ R!CreateOwner(r) \/ R!FindOwner(r) \/ R!WriteOwner(r) \/ R!DropRows(r) \/ R!CreateRow(r)
    \/ R!RowsDone(r) \/ R!Recount(r) \/ R!WriteCount(r) \/ R!DeleteOwner(r)
    \/ R!Load(r) \/ R!CountExecution(r) \/ R!SaveContact(r)

LEMMA RuleCallFields ==
    ASSUME NEW c \in RulesetCalls
    PROVE  /\ c.kind \in {"createOwner", "updateOwner", "removeOwner", "execute", "saveContact"}
           /\ c.kind = "createOwner" => c.type \in R!Types /\ R!Fits(c, c.type)
           /\ c.kind = "createOwner" => c.list \subseteq R!Criterion \cup R!Action
           /\ c.kind \notin {"createOwner", "saveContact"} => c.owner \in R!Owners
           /\ c.kind = "saveContact" => c.value \in R!Values
           /\ c.kind = "updateOwner" => c.type \in R!Types \cup {None}
           /\ c.kind = "updateOwner" => c.list = None \/ c.list \subseteq R!Criterion \cup R!Action
<1>1. R!RulesetCall(c)
  BY PartsAssumption DEF R!RulesetsAssumption
<1>2. CASE c.kind = "createOwner"
  <2>1. R!IsSegment(c.type, c.list) \/ R!IsWorkflow(c.type, c.list)
    BY <1>1, <1>2 DEF R!RulesetCall
  <2>2. c.type \in R!Types /\ R!Fits(c, c.type) /\ c.list \subseteq R!Criterion \cup R!Action
    BY <2>1, Zenon DEF R!IsSegment, R!IsWorkflow, R!Fits, R!Types
  <2> QED BY <1>2, <2>2
<1>3. CASE c.kind = "updateOwner"
  <2>1. c.owner \in R!Owners /\ \E type \in R!Types : R!Fits(c, type)
    BY <1>1, <1>3 DEF R!RulesetCall
  <2>2. c.type \in R!Types \cup {None} /\ (c.list = None \/ c.list \subseteq R!Criterion \cup R!Action)
    BY <2>1, Zenon DEF R!Fits, R!Types, R!Keep
  <2> QED BY <1>3, <2>1, <2>2
<1>4. CASE c.kind \notin {"createOwner", "updateOwner"}
  BY <1>1, <1>4 DEF R!RulesetCall
<1> QED BY <1>2, <1>3, <1>4

LEMMA NoOwner ==
    /\ None \notin R!Types /\ None \notin [type: R!Types, count: Nat]
    /\ DOMAIN SeedOwners \cap Requests = {}
BY PartsAssumption, Zenon DEF R!RulesetsAssumption

\* A count of finitely many contacts is a number.
LEMMA CountIsNat ==
    ASSUME NEW table, R!IsFiniteSet(DOMAIN table), NEW criteria
    PROVE  R!Count(criteria, table) \in Nat
<1>1. R!Selected(criteria, table) \subseteq DOMAIN table /\ IsFiniteSet(DOMAIN table)
  BY RuleFinite DEF R!Selected
<1>2. Cardinality(R!Selected(criteria, table)) \in Nat
  BY <1>1, FS_Subset, FS_CardinalityType
<1> QED BY <1>2, RuleCardinality DEF R!Count

LEMMA CountOfItems ==
    ASSUME NEW o, R!Items(o)' = R!Items(o), valueOf' = valueOf
    PROVE  R!Count(R!Items(o), valueOf)' = R!Count(R!Items(o), valueOf)
BY DEF R!Count, R!Selected, R!Satisfies, R!Cardinality

RuleLabels ==
    {"idle", "done"} \cup
    {"owner", "newOwner", "writeOwner", "dropRows", "newRows", "recount", "writeCount",
     "deleteOwner", "load", "executed", "saveContact"}
RuleAnswers == {"none", "ok", "notFound", "forbidden", "error"} \cup {"inactive"}

\* What a step leaves of the handlers: the other requests stay as they are.
RuleMoved(r) ==
    /\ hPc' \in [Requests -> RuleLabels] /\ hAnswer' \in [Requests -> RuleAnswers]
    /\ hCall' \in [Requests -> {R!NoCall} \cup RulesetCalls]
    /\ hHeld' = [q \in Requests |-> hHeld'[q]]
    /\ \A q \in Requests \ {r} :
          hPc'[q] = hPc[q] /\ hCall'[q] = hCall[q] /\ hHeld'[q] = hHeld[q] /\ hAnswer'[q] = hAnswer[q]
    /\ hPc[r] = "idle" => hCall'[r] \in RulesetCalls
    /\ hPc[r] # "idle" => hCall'[r] = hCall[r]
    /\ hPc[r] # "done" /\ hPc'[r] # "idle"

LEMMA RuleContinues ==
    ASSUME RulesTyped, NEW r \in Requests, hPc[r] \notin {"idle", "done"},
           NEW label \in RuleLabels \ {"idle", "done"}, NEW what, R!Continue(r, label, what)
    PROVE  RuleMoved(r) /\ hPc'[r] = label /\ hHeld'[r] = what
BY DEF R!Continue, RulesTyped, R!TypeOK, R!Handling, RuleLabels, RuleAnswers, RuleMoved

LEMMA RuleGoes ==
    ASSUME RulesTyped, NEW r \in Requests, hPc[r] \notin {"idle", "done"},
           NEW label \in RuleLabels \ {"idle", "done"}, R!Goto(r, label)
    PROVE  RuleMoved(r) /\ hPc'[r] = label /\ hHeld'[r] = hHeld[r]
BY RuleContinues DEF R!Goto

LEMMA RuleReplies ==
    ASSUME RulesTyped, NEW r \in Requests, hPc[r] \notin {"idle", "done"},
           NEW what \in RuleAnswers, R!Reply(r, what)
    PROVE  RuleMoved(r) /\ hPc'[r] = "done" /\ hAnswer'[r] = what
BY DEF R!Reply, RulesTyped, R!TypeOK, R!Handling, RuleLabels, RuleAnswers, RuleMoved

LEMMA RuleBegins ==
    ASSUME RulesTyped, NEW r \in Requests, NEW c \in RulesetCalls,
           NEW label \in RuleLabels \ {"idle", "done"}, R!Begin(r, c, label)
    PROVE  RuleMoved(r) /\ hPc[r] = "idle" /\ hPc'[r] = label /\ hCall'[r] = c
BY DEF R!Begin, RulesTyped, R!TypeOK, R!Handling, RuleLabels, RuleAnswers, RuleMoved

LEMMA RuleMoves ==
    ASSUME RulesTyped, NEW r \in Requests, RuleStep(r)
    PROVE  RuleMoved(r)
<1> USE RuleContinues, RuleGoes, RuleReplies, RuleBegins DEF R!Fails, RuleLabels, RuleAnswers
<1>1. CASE R!Start(r)
  BY <1>1 DEF R!Start, R!StartWith
<1>2. CASE R!CreateOwner(r)
  BY <1>2 DEF R!CreateOwner
<1>3. CASE R!FindOwner(r)
  BY <1>3 DEF R!FindOwner
<1>4. CASE R!WriteOwner(r)
  BY <1>4 DEF R!WriteOwner
<1>5. CASE R!DropRows(r)
  BY <1>5 DEF R!DropRows
<1>6. CASE R!CreateRow(r)
  <2>1. CASE UNCHANGED R!handlers
    BY <1>6, <2>1 DEF R!CreateRow, R!handlers, RulesTyped, R!TypeOK, R!Handling, RuleMoved
  <2> QED BY <1>6, <2>1 DEF R!CreateRow
<1>7. CASE R!RowsDone(r)
  BY <1>7 DEF R!RowsDone
<1>8. CASE R!Recount(r)
  BY <1>8 DEF R!Recount
<1>9. CASE R!WriteCount(r)
  BY <1>9 DEF R!WriteCount
<1>10. CASE R!DeleteOwner(r)
  BY <1>10 DEF R!DeleteOwner
<1>11. CASE R!Load(r)
  BY <1>11 DEF R!Load
<1>12. CASE R!CountExecution(r)
  BY <1>12 DEF R!CountExecution
<1>13. CASE R!Refused(r)
  BY <1>13 DEF R!Refused
<1>14. CASE R!SaveContact(r)
  BY <1>14 DEF R!SaveContact
<1> QED BY <1>1, <1>2, <1>3, <1>4, <1>5, <1>6, <1>7, <1>8, <1>9, <1>10, <1>11, <1>12, <1>13, <1>14 DEF RuleStep

\* The owner a request works on, once its handler has started.
LEMMA OwnOwner ==
    ASSUME RulesTyped, NEW q \in Requests, hPc[q] \notin {"idle", "done", "saveContact"}
    PROVE  /\ R!Owner(q) \in R!Owners /\ hCall[q] \in RulesetCalls
           /\ R!Kind(q) = "createOwner" => R!Owner(q) = q
           /\ R!Kind(q) # "createOwner" => R!Owner(q) = hCall[q].owner
<1>1. hCall[q] \in RulesetCalls /\ PlacedRule(q) /\ hPc[q] \in RuleLabels
  BY DEF RulesTyped, PlacedRule, R!TypeOK, R!Handling, RuleLabels
<1>2. R!Kind(q) # "saveContact"
  BY <1>1 DEF PlacedRule, RuleLabels, RowsAndCount
<1> QED BY <1>1, <1>2, RuleCallFields DEF R!Owner, R!Kind, R!Owners

LEMMA OwnerStays ==
    ASSUME RulesTyped, NEW r \in Requests, RuleStep(r), NEW q \in Requests, hPc[q] # "idle"
    PROVE  R!Owner(q)' = R!Owner(q) /\ R!Kind(q)' = R!Kind(q) /\ hCall'[q] = hCall[q] /\ hPc'[q] # "idle"
<1>1. hCall'[q] = hCall[q] /\ hPc'[q] # "idle"
  BY RuleMoves DEF RuleMoved
<1> QED BY <1>1 DEF R!Owner, R!Kind

RuleRead(r) ==
    R!Start(r) \/ R!Refused(r) \/ R!FindOwner(r) \/ R!RowsDone(r) \/ R!Recount(r) \/ R!Load(r)

LEMMA RuleReads ==
    ASSUME NEW r \in Requests, RuleRead(r)
    PROVE  UNCHANGED <<owners, lists, valueOf, torn, stale, rAged, runs>>
<1>1. UNCHANGED <<R!tables, R!history>>
  BY Zenon DEF RuleRead, R!Start, R!StartWith, R!Refused, R!FindOwner, R!RowsDone, R!Recount, R!Load
<1> QED BY <1>1 DEF R!tables, R!history

OwnerTable == [R!Owners -> [type: R!Types, count: Nat] \cup {None}]
RowTable == [R!Owners -> SUBSET R!Rows]

\* One owner changes, and stays one.
LEMMA OwnerChanged ==
    ASSUME NEW o \in R!Owners, NEW row \in [type: R!Types, count: Nat],
           owners \in OwnerTable, owners' = [owners EXCEPT ![o] = row]
    PROVE  /\ owners' \in OwnerTable /\ owners'[o] = row /\ owners'[o] # None
           /\ \A p \in R!Owners \ {o} : owners'[p] = owners[p]
BY NoOwner DEF OwnerTable

LEMMA OwnerCreated ==
    ASSUME RulesTyped, NEW r \in Requests, R!CreateOwner(r)
    PROVE  /\ hPc[r] = "newOwner" /\ R!Owner(r) = r /\ r \in R!Owners
           /\ UNCHANGED <<lists, torn, runs>>
           /\ \/ UNCHANGED <<owners, stale>> /\ hPc'[r] = "done"
              \/ /\ owners' \in OwnerTable /\ owners'[r] = [type |-> hCall[r].type, count |-> 0]
                 /\ stale' = stale \cup {r}
                 /\ owners'[r] # None /\ hPc'[r] = "newRows" /\ hHeld'[r] = hHeld[r]
                 /\ \A p \in R!Owners \ {r} : owners'[p] = owners[p]
<1>1. hPc[r] = "newOwner" /\ R!Kind(r) = "createOwner" /\ hCall[r] \in RulesetCalls
  BY DEF R!CreateOwner, RulesTyped, PlacedRule
<1>2. R!Owner(r) = r /\ r \in R!Owners /\ hCall[r].type \in R!Types
  BY <1>1, RuleCallFields DEF R!Owner, R!Owners, R!Kind
<1>3. UNCHANGED <<lists, torn, runs>>
  BY DEF R!CreateOwner
<1>4. CASE R!Reply(r, "notFound") /\ UNCHANGED <<owners, stale>>
  BY <1>1, <1>2, <1>3, <1>4, RuleReplies DEF RuleAnswers
<1>5. CASE /\ owners' = [owners EXCEPT ![r] = [type |-> hCall[r].type, count |-> 0]]
           /\ stale' = stale \cup {r} /\ R!Goto(r, "newRows")
  <2>1. owners \in OwnerTable
    BY DEF RulesTyped, R!TypeOK, OwnerTable
  <2>2. hPc'[r] = "newRows" /\ hHeld'[r] = hHeld[r]
    BY <1>1, <1>5, RuleGoes DEF RuleLabels
  <2>3. /\ owners' \in OwnerTable /\ owners'[r] = [type |-> hCall[r].type, count |-> 0]
        /\ owners'[r] # None /\ \A p \in R!Owners \ {r} : owners'[p] = owners[p]
    <3> DEFINE row == [type |-> hCall[r].type, count |-> 0]
    <3>1. row \in [type: R!Types, count: Nat] /\ owners' = [owners EXCEPT ![r] = row]
      BY <1>2, <1>5
    <3> HIDE DEF row
    <3>2. /\ owners' \in OwnerTable /\ owners'[r] = row /\ owners'[r] # None
          /\ \A p \in R!Owners \ {r} : owners'[p] = owners[p]
      BY <1>2, <2>1, <3>1, OwnerChanged
    <3> QED BY <3>2 DEF row
  <2> QED BY <1>1, <1>2, <1>3, <1>5, <2>2, <2>3
<1> QED BY <1>4, <1>5 DEF R!CreateOwner

LEMMA OwnerWritten ==
    ASSUME RulesTyped, NEW r \in Requests, R!WriteOwner(r)
    PROVE  LET o == R!Owner(r)
               type == IF hCall[r].type = None THEN owners[o].type ELSE hCall[r].type
           IN  /\ hPc[r] = "writeOwner" /\ o \in R!Owners /\ UNCHANGED <<lists, runs>>
               /\ \/ owners[o] = None /\ hPc'[r] = "done" /\ UNCHANGED <<owners, torn, stale>>
                  \/ /\ owners[o] # None /\ owners' \in OwnerTable /\ type \in R!Types
                     /\ owners'[o] = [type |-> type, count |-> owners[o].count] /\ owners'[o] # None
                     /\ \A p \in R!Owners \ {o} : owners'[p] = owners[p]
                     /\ stale' = IF type # owners[o].type THEN stale \cup {o} ELSE stale
                     /\ torn' = IF type # owners[o].type /\ R!Replacing(o) # {} THEN torn \cup {o} ELSE torn
                     /\ hPc'[r] = "done" \/ (hPc'[r] = "dropRows" /\ hCall[r].list # None)
<1> DEFINE o == R!Owner(r)
           type == IF hCall[r].type = None THEN owners[o].type ELSE hCall[r].type
<1>1. hPc[r] = "writeOwner" /\ R!Kind(r) = "updateOwner" /\ hCall[r] \in RulesetCalls
  BY DEF R!WriteOwner, RulesTyped, PlacedRule
<1>2. o \in R!Owners /\ hCall[r].type \in R!Types \cup {None}
  BY <1>1, RuleCallFields, OwnOwner DEF R!Kind
<1>3. UNCHANGED <<lists, runs>>
  BY DEF R!WriteOwner
<1>4. CASE owners[o] = None
  BY <1>1, <1>2, <1>3, <1>4, RuleReplies DEF R!WriteOwner, R!Exists, R!Fails, RuleAnswers
<1>5. CASE owners[o] # None
  <2>1. owners \in OwnerTable /\ owners[o] \in [type: R!Types, count: Nat]
    BY <1>2, <1>5 DEF RulesTyped, R!TypeOK, OwnerTable
  <2>2. type \in R!Types /\ owners[o].count \in Nat
    BY <1>2, <2>1
  <2>3. [owners[o] EXCEPT !.type = type] = [type |-> type, count |-> owners[o].count]
    BY <2>1
  <2>4. /\ owners' = [owners EXCEPT ![o] = [type |-> type, count |-> owners[o].count]]
        /\ stale' = IF type # owners[o].type THEN stale \cup {o} ELSE stale
        /\ torn' = IF type # owners[o].type /\ R!Replacing(o) # {} THEN torn \cup {o} ELSE torn
    BY <1>5, <2>3 DEF R!WriteOwner, R!Exists, R!Keep
  <2>5. hPc'[r] = "done" \/ (hPc'[r] = "dropRows" /\ hCall[r].list # None)
    BY <1>1, <1>5, RuleReplies, RuleGoes DEF R!WriteOwner, R!Exists, R!Keep, RuleAnswers, RuleLabels
  <2> HIDE DEF o, type
  <2>6. /\ owners' \in OwnerTable /\ owners'[o] = [type |-> type, count |-> owners[o].count]
        /\ owners'[o] # None /\ \A p \in R!Owners \ {o} : owners'[p] = owners[p]
    <3> DEFINE row == [type |-> type, count |-> owners[o].count]
    <3>1. row \in [type: R!Types, count: Nat] /\ owners' = [owners EXCEPT ![o] = row]
      BY <1>2, <2>1, <2>2, <2>4
    <3> HIDE DEF row
    <3>2. /\ owners' \in OwnerTable /\ owners'[o] = row /\ owners'[o] # None
          /\ \A p \in R!Owners \ {o} : owners'[p] = owners[p]
      BY <1>2, <2>1, <3>1, OwnerChanged
    <3> QED BY <3>2 DEF row
  <2>7. /\ owners[o] # None /\ type \in R!Types
        /\ stale' = IF type # owners[o].type THEN stale \cup {o} ELSE stale
        /\ torn' = IF type # owners[o].type /\ R!Replacing(o) # {} THEN torn \cup {o} ELSE torn
    BY <1>5, <2>2, <2>4
  <2> QED BY <1>1, <1>2, <1>3, <2>5, <2>6, <2>7 DEF o, type
<1> QED BY <1>4, <1>5

LEMMA RowsDropped ==
    ASSUME RulesTyped, NEW r \in Requests, R!DropRows(r)
    PROVE  LET o == R!Owner(r)
           IN  /\ hPc[r] = "dropRows" /\ hPc'[r] = "newRows" /\ o \in R!Owners /\ UNCHANGED <<owners, runs>>
               /\ lists' \in RowTable /\ lists'[o] = {} /\ \A p \in R!Owners \ {o} : lists'[p] = lists[p]
               /\ torn' = IF R!Replacing(o) # {} THEN torn \cup {o} ELSE torn
               /\ stale' = stale \cup {o}
<1>1. hPc[r] = "dropRows" /\ hPc'[r] = "newRows"
  BY RuleGoes DEF R!DropRows, RuleLabels
<1>2. R!Owner(r) \in R!Owners
  BY <1>1, OwnOwner
<1>3. lists \in RowTable
  BY DEF RulesTyped, R!TypeOK, RowTable
<1> QED BY <1>1, <1>2, <1>3 DEF R!DropRows, R!DropAll, RowTable

LEMMA RowCreated ==
    ASSUME RulesTyped, NEW r \in Requests, R!CreateRow(r)
    PROVE  LET o == R!Owner(r)
           IN  /\ hPc[r] = "newRows" /\ o \in R!Owners /\ UNCHANGED <<owners, torn, stale, runs>>
               /\ \/ owners[o] = None /\ hPc'[r] = "done" /\ UNCHANGED lists
                  \/ /\ owners[o] # None /\ UNCHANGED <<hPc, hCall, hHeld, hAnswer>> /\ lists' \in RowTable
                     /\ \A p \in R!Owners \ {o} : lists'[p] = lists[p]
                     /\ \E i \in hCall[r].list : lists'[o] = lists[o] \cup {[by |-> r, item |-> i]}
<1>1. hPc[r] = "newRows" /\ UNCHANGED <<owners, torn, stale, runs>>
  BY DEF R!CreateRow, R!history
<1>2. R!Owner(r) \in R!Owners /\ hCall[r].list \subseteq R!Criterion \cup R!Action
  BY <1>1, OwnOwner DEF RulesTyped, PlacedRule, Replacement, RowsAndCount
<1>3. lists \in RowTable
  BY DEF RulesTyped, R!TypeOK, RowTable
<1>4. CASE owners[R!Owner(r)] = None
  BY <1>1, <1>2, <1>4, RuleReplies DEF R!CreateRow, R!Exists, R!Fails, RuleAnswers
<1>5. CASE owners[R!Owner(r)] # None
  <2>1. /\ UNCHANGED R!handlers
        /\ \E i \in R!Pending(r) : lists' = [lists EXCEPT ![R!Owner(r)] = @ \cup {[by |-> r, item |-> i]}]
    BY <1>5 DEF R!CreateRow, R!Exists
  <2>2. PICK i \in hCall[r].list :
               lists' = [lists EXCEPT ![R!Owner(r)] = lists[R!Owner(r)] \cup {[by |-> r, item |-> i]}]
    BY <2>1 DEF R!Pending
  <2>3. [by |-> r, item |-> i] \in R!Rows
    BY <1>2, <2>2 DEF R!Rows, R!Owners
  <2>4. lists[R!Owner(r)] \cup {[by |-> r, item |-> i]} \in SUBSET R!Rows
    BY <1>2, <1>3, <2>3 DEF RowTable
  <2>5. /\ lists' \in RowTable /\ lists'[R!Owner(r)] = lists[R!Owner(r)] \cup {[by |-> r, item |-> i]}
        /\ \A p \in R!Owners \ {R!Owner(r)} : lists'[p] = lists[p]
    BY <1>2, <1>3, <2>2, <2>4 DEF RowTable
  <2> QED BY <1>1, <1>2, <1>5, <2>1, <2>5 DEF R!handlers
<1> QED BY <1>4, <1>5

LEMMA RuleCountWritten ==
    ASSUME RulesTyped, NEW r \in Requests, R!WriteCount(r)
    PROVE  LET o == R!Owner(r)
           IN  /\ hPc[r] = "writeCount" /\ hPc'[r] = "done" /\ o \in R!Owners
               /\ UNCHANGED <<lists, torn, runs>>
               /\ \/ owners[o] = None /\ UNCHANGED <<owners, stale>>
                  \/ /\ owners[o] # None /\ owners' \in OwnerTable /\ owners'[o] # None
                     /\ owners'[o] = [type |-> owners[o].type, count |-> hHeld[r]]
                     /\ \A p \in R!Owners \ {o} : owners'[p] = owners[p]
                     /\ stale' = IF r \in rAged THEN stale ELSE stale \ {o}
<1> DEFINE o == R!Owner(r)
<1>1. hPc[r] = "writeCount" /\ UNCHANGED <<lists, torn, runs>>
  BY DEF R!WriteCount
<1>2. o \in R!Owners /\ hHeld[r] \in Nat /\ hPc'[r] = "done"
  BY <1>1, OwnOwner, RuleReplies DEF RulesTyped, PlacedRule, R!WriteCount, R!Fails, RuleAnswers
<1>3. CASE owners[o] = None
  BY <1>1, <1>2, <1>3 DEF R!WriteCount, R!Exists
<1>4. CASE owners[o] # None
  <2>1. owners \in OwnerTable /\ owners[o] \in [type: R!Types, count: Nat]
    BY <1>2, <1>4 DEF RulesTyped, R!TypeOK, OwnerTable
  <2>2. [owners[o] EXCEPT !.count = hHeld[r]] = [type |-> owners[o].type, count |-> hHeld[r]]
        /\ owners[o].type \in R!Types
    BY <2>1
  <2>3. /\ owners' = [owners EXCEPT ![o] = [type |-> owners[o].type, count |-> hHeld[r]]]
        /\ stale' = IF r \in rAged THEN stale ELSE stale \ {o}
    BY <1>4, <2>2 DEF R!WriteCount, R!Exists
  <2> HIDE DEF o
  <2>4. /\ owners' \in OwnerTable /\ owners'[o] = [type |-> owners[o].type, count |-> hHeld[r]]
        /\ owners'[o] # None /\ \A p \in R!Owners \ {o} : owners'[p] = owners[p]
    <3> DEFINE row == [type |-> owners[o].type, count |-> hHeld[r]]
    <3>1. row \in [type: R!Types, count: Nat] /\ owners' = [owners EXCEPT ![o] = row]
      BY <1>2, <2>1, <2>2, <2>3
    <3> HIDE DEF row
    <3>2. /\ owners' \in OwnerTable /\ owners'[o] = row /\ owners'[o] # None
          /\ \A p \in R!Owners \ {o} : owners'[p] = owners[p]
      BY <1>2, <2>1, <3>1, OwnerChanged
    <3> QED BY <3>2 DEF row
  <2> QED BY <1>1, <1>2, <1>4, <2>3, <2>4 DEF o
<1> QED BY <1>3, <1>4

LEMMA OwnerDeleted ==
    ASSUME RulesTyped, NEW r \in Requests, R!DeleteOwner(r)
    PROVE  LET o == R!Owner(r)
           IN  /\ hPc[r] = "deleteOwner" /\ hPc'[r] = "done" /\ o \in R!Owners
               /\ UNCHANGED <<torn, stale, runs>>
               /\ \/ owners[o] = None /\ UNCHANGED <<owners, lists>>
                  \/ /\ owners' \in OwnerTable /\ lists' \in RowTable /\ owners'[o] = None /\ lists'[o] = {}
                     /\ \A p \in R!Owners \ {o} : owners'[p] = owners[p] /\ lists'[p] = lists[p]
<1>1. hPc[r] = "deleteOwner" /\ UNCHANGED <<torn, stale, runs>>
  BY DEF R!DeleteOwner, R!history
<1>2. R!Owner(r) \in R!Owners /\ hPc'[r] = "done"
  BY <1>1, OwnOwner, RuleReplies DEF R!DeleteOwner, R!Fails, RuleAnswers
<1>3. lists \in RowTable /\ owners \in OwnerTable
  BY DEF RulesTyped, R!TypeOK, RowTable, OwnerTable
<1> QED BY <1>1, <1>2, <1>3 DEF R!DeleteOwner, R!Exists, R!tables, RowTable, OwnerTable

LEMMA ExecutionCounted ==
    ASSUME RulesTyped, NEW r \in Requests, R!CountExecution(r)
    PROVE  LET o == R!Owner(r)
           IN  /\ hPc[r] = "executed" /\ hPc'[r] = "done" /\ o \in R!Owners
               /\ UNCHANGED <<lists, torn, stale>>
               /\ \/ owners[o] = None /\ UNCHANGED <<owners, runs>>
                  \/ /\ owners[o] # None /\ owners' \in OwnerTable /\ owners'[o] # None
                     /\ owners'[o] = [type |-> owners[o].type, count |-> owners[o].count + 1]
                     /\ \A p \in R!Owners \ {o} : owners'[p] = owners[p]
                     /\ runs' = runs \cup {<<r, o>>}
<1> DEFINE o == R!Owner(r)
<1>1. hPc[r] = "executed" /\ UNCHANGED <<lists, torn, stale>>
  BY DEF R!CountExecution
<1>2. o \in R!Owners /\ hPc'[r] = "done"
  BY <1>1, OwnOwner, RuleReplies DEF R!CountExecution, R!Fails, RuleAnswers
<1>3. CASE owners[o] = None
  BY <1>1, <1>2, <1>3 DEF R!CountExecution, R!Exists
<1>4. CASE owners[o] # None
  <2>1. owners \in OwnerTable /\ owners[o] \in [type: R!Types, count: Nat]
    BY <1>2, <1>4 DEF RulesTyped, R!TypeOK, OwnerTable
  <2>2. /\ [owners[o] EXCEPT !.count = owners[o].count + 1] = [type |-> owners[o].type, count |-> owners[o].count + 1]
        /\ owners[o].type \in R!Types /\ owners[o].count + 1 \in Nat
    BY <2>1
  <2>3. /\ owners' = [owners EXCEPT ![o] = [type |-> owners[o].type, count |-> owners[o].count + 1]]
        /\ runs' = runs \cup {<<r, o>>}
    BY <1>4, <2>2 DEF R!CountExecution, R!Exists, R!CountUp
  <2> HIDE DEF o
  <2>4. /\ owners' \in OwnerTable /\ owners'[o] = [type |-> owners[o].type, count |-> owners[o].count + 1]
        /\ owners'[o] # None /\ \A p \in R!Owners \ {o} : owners'[p] = owners[p]
    <3> DEFINE row == [type |-> owners[o].type, count |-> owners[o].count + 1]
    <3>1. row \in [type: R!Types, count: Nat] /\ owners' = [owners EXCEPT ![o] = row]
      BY <1>2, <2>1, <2>2, <2>3
    <3> HIDE DEF row
    <3>2. /\ owners' \in OwnerTable /\ owners'[o] = row /\ owners'[o] # None
          /\ \A p \in R!Owners \ {o} : owners'[p] = owners[p]
      BY <1>2, <2>1, <3>1, OwnerChanged
    <3> QED BY <3>2 DEF row
  <2> QED BY <1>1, <1>2, <1>4, <2>3, <2>4 DEF o
<1> QED BY <1>3, <1>4

LEMMA ContactSaved ==
    ASSUME RulesTyped, NEW r \in Requests, R!SaveContact(r)
    PROVE  /\ hPc[r] = "saveContact" /\ hPc'[r] = "done" /\ UNCHANGED <<owners, lists, torn, runs>>
           /\ valueOf' \in [DOMAIN valueOf' -> R!Values] /\ IsFiniteSet(DOMAIN valueOf')
           /\ stale' = stale \cup R!Shifted(valueOf')
           /\ rAged' = rAged \cup {q \in R!At("writeCount") : R!Owner(q) \in R!Shifted(valueOf')}
<1>1. hPc[r] = "saveContact" /\ R!Kind(r) = "saveContact" /\ hCall[r] \in RulesetCalls
  BY DEF R!SaveContact, RulesTyped, PlacedRule
<1>2. hPc'[r] = "done"
  BY <1>1, RuleReplies DEF R!SaveContact, RuleAnswers
<1>3. hCall[r].value \in R!Values
  BY <1>1, RuleCallFields DEF R!Kind
<1>4. /\ valueOf' = [p \in DOMAIN valueOf \cup {hCall[r].contact} |->
             IF p = hCall[r].contact THEN hCall[r].value ELSE valueOf[p]]
      /\ valueOf \in [DOMAIN valueOf -> R!Values]
  BY DEF R!SaveContact, RulesTyped, R!TypeOK
<1>5. DOMAIN valueOf' = DOMAIN valueOf \cup {hCall[r].contact}
  BY <1>4
<1>6. valueOf' \in [DOMAIN valueOf' -> R!Values]
  BY <1>3, <1>4
<1>7. IsFiniteSet(DOMAIN valueOf')
  <2>1. IsFiniteSet(DOMAIN valueOf)
    BY RuleFinite DEF RulesTyped, R!TypeOK
  <2> QED BY <1>5, <2>1, FS_AddElement
<1> QED BY <1>1, <1>2, <1>6, <1>7 DEF R!SaveContact

\* Only a call that saves a contact touches contacts.
LEMMA ContactsKept ==
    ASSUME NEW r \in Requests, RuleStep(r), ~R!SaveContact(r)
    PROVE  UNCHANGED <<valueOf, rAged>>
<1>1. CASE RuleRead(r)
  BY <1>1, RuleReads
<1>2. CASE ~RuleRead(r)
  BY <1>2 DEF RuleStep, RuleRead, R!CreateOwner, R!WriteOwner, R!DropRows, R!CreateRow, R!WriteCount,
     R!DeleteOwner, R!CountExecution, R!tables, R!history
<1> QED BY <1>1, <1>2

RuleWrite(r) ==
    \/ R!CreateOwner(r) \/ R!WriteOwner(r) \/ R!DropRows(r) \/ R!CreateRow(r) \/ R!WriteCount(r)
    \/ R!DeleteOwner(r) \/ R!CountExecution(r) \/ R!SaveContact(r)

LEMMA RuleCases == ASSUME NEW r \in Requests, RuleStep(r) PROVE RuleRead(r) \/ RuleWrite(r)
BY DEF RuleStep, RuleRead, RuleWrite

LEMMA RuleTablesTyped ==
    ASSUME RulesTyped, NEW r \in Requests, RuleStep(r)
    PROVE  /\ owners' \in OwnerTable /\ lists' \in RowTable
           /\ torn' \in SUBSET R!Owners /\ stale' \in SUBSET R!Owners /\ runs' \subseteq (Requests \X R!Owners)
<1>0. /\ owners \in OwnerTable /\ lists \in RowTable
      /\ torn \in SUBSET R!Owners /\ stale \in SUBSET R!Owners /\ runs \subseteq (Requests \X R!Owners)
  BY DEF RulesTyped, R!TypeOK, OwnerTable, RowTable
<1>1. CASE RuleRead(r)
  BY <1>0, <1>1, RuleReads
<1>2. CASE R!CreateOwner(r)
  BY <1>0, <1>2, OwnerCreated
<1>3. CASE R!WriteOwner(r)
  BY <1>0, <1>3, OwnerWritten
<1>4. CASE R!DropRows(r)
  BY <1>0, <1>4, RowsDropped
<1>5. CASE R!CreateRow(r)
  BY <1>0, <1>5, RowCreated
<1>6. CASE R!WriteCount(r)
  BY <1>0, <1>6, RuleCountWritten
<1>7. CASE R!DeleteOwner(r)
  BY <1>0, <1>7, OwnerDeleted
<1>8. CASE R!CountExecution(r)
  <2>1. <<r, R!Owner(r)>> \in Requests \X R!Owners
    BY <1>8, ExecutionCounted
  <2>2. runs' = runs \/ runs' = runs \cup {<<r, R!Owner(r)>>}
    BY <1>8, ExecutionCounted
  <2>3. runs' \subseteq (Requests \X R!Owners)
    BY <1>0, <2>1, <2>2
  <2>4. owners' \in OwnerTable /\ UNCHANGED <<lists, torn, stale>>
    BY <1>0, <1>8, ExecutionCounted
  <2> QED BY <1>0, <2>3, <2>4
<1>9. CASE R!SaveContact(r)
  BY <1>0, <1>9, ContactSaved DEF R!Shifted
<1> QED BY <1>1, <1>2, <1>3, <1>4, <1>5, <1>6, <1>7, <1>8, <1>9, RuleCases DEF RuleWrite

LEMMA RuleContactsTyped ==
    ASSUME RulesTyped, NEW r \in Requests, RuleStep(r)
    PROVE  /\ valueOf' \in [DOMAIN valueOf' -> R!Values] /\ R!IsFiniteSet(DOMAIN valueOf')
           /\ rAged' \in SUBSET Requests
<1>1. CASE R!SaveContact(r)
  <2>1. {q \in R!At("writeCount") : R!Owner(q) \in R!Shifted(valueOf')} \subseteq Requests
    BY DEF R!At
  <2> QED BY <1>1, <2>1, ContactSaved, RuleFinite DEF RulesTyped, R!TypeOK
<1>2. CASE ~R!SaveContact(r)
  <2>1. UNCHANGED <<valueOf, rAged>>
    BY <1>2, ContactsKept
  <2> QED BY <2>1 DEF RulesTyped, R!TypeOK
<1> QED BY <1>1, <1>2

\* What the handler of a request does next, and what it knows then.
RuleGoesOn(r) ==
    \/ /\ hPc[r] = "idle"
       /\ \/ hPc'[r] = "newOwner" /\ R!Kind(r)' = "createOwner"
          \/ hPc'[r] = "owner" /\ R!Kind(r)' \in {"updateOwner", "removeOwner"}
          \/ hPc'[r] = "load" /\ R!Kind(r)' = "execute"
          \/ hPc'[r] = "saveContact" /\ R!Kind(r)' = "saveContact"
    \/ hPc[r] \notin {"idle", "done"} /\ hPc'[r] = "done"
    \/ hPc[r] = "newOwner" /\ hPc'[r] = "newRows"
    \/ /\ hPc[r] = "owner" /\ owners[R!Owner(r)] # None
       /\ \/ hPc'[r] = "deleteOwner" /\ R!Kind(r) = "removeOwner"
          \/ /\ hPc'[r] = "writeOwner" /\ R!Kind(r) # "removeOwner"
             /\ R!Kind(r) = "updateOwner" => R!Fits(hCall[r], owners[R!Owner(r)].type)
    \/ hPc[r] = "writeOwner" /\ hPc'[r] = "dropRows" /\ hCall[r].list # None
    \/ hPc[r] = "dropRows" /\ hPc'[r] = "newRows"
    \/ hPc[r] = "newRows" /\ hPc'[r] = "newRows"
    \/ hPc[r] = "newRows" /\ hPc'[r] = "recount" /\ R!CountsNow(r) /\ R!Pending(r) = {}
    \/ /\ hPc[r] = "recount" /\ hPc'[r] = "writeCount"
       /\ hHeld'[r] = IF owners[R!Owner(r)] = None \/ owners[R!Owner(r)].type = "static" THEN 0
                      ELSE R!Count(R!Items(R!Owner(r)), valueOf)
    \/ /\ hPc[r] = "load" /\ hPc'[r] = "executed" /\ owners[R!Owner(r)] # None
       /\ owners[R!Owner(r)].type \notin R!OfSegments

LEMMA RuleGoingOn ==
    ASSUME RulesTyped, NEW r \in Requests, RuleStep(r)
    PROVE  RuleGoesOn(r)
<1> USE RuleGoes, RuleContinues, RuleReplies DEF R!Fails, RuleLabels, RuleAnswers
<1>1. CASE R!Start(r)
  <2>1. ASSUME NEW kind, NEW label \in RuleLabels \ {"idle", "done"}, R!StartWith(r, kind, label)
        PROVE  hPc[r] = "idle" /\ hPc'[r] = label /\ hCall'[r].kind = kind
    BY <2>1, RuleBegins DEF R!StartWith
  <2>2. hPc[r] = "idle"
        /\ \/ hPc'[r] = "newOwner" /\ hCall'[r].kind = "createOwner"
           \/ hPc'[r] = "owner" /\ hCall'[r].kind \in {"updateOwner", "removeOwner"}
           \/ hPc'[r] = "load" /\ hCall'[r].kind = "execute"
           \/ hPc'[r] = "saveContact" /\ hCall'[r].kind = "saveContact"
    BY <1>1, <2>1 DEF R!Start
  <2> QED BY <2>2 DEF RuleGoesOn, R!Kind
<1>2. CASE R!CreateOwner(r)
  BY <1>2, OwnerCreated DEF RuleGoesOn
<1>3. CASE R!FindOwner(r)
  <2>1. hPc[r] = "owner"
    BY <1>3 DEF R!FindOwner
  <2>2. CASE R!Reply(r, "notFound")
    BY <2>1, <2>2 DEF RuleGoesOn
  <2>3. CASE /\ owners[R!Owner(r)] # None
             /\ R!Kind(r) = "updateOwner" => R!Fits(hCall[r], owners[R!Owner(r)].type)
             /\ R!Goto(r, IF R!Kind(r) = "removeOwner" THEN "deleteOwner" ELSE "writeOwner")
    <3>1. CASE R!Kind(r) = "removeOwner"
      <4>1. R!Goto(r, "deleteOwner")
        BY <2>3, <3>1
      <4> QED BY <2>1, <2>3, <3>1, <4>1 DEF RuleGoesOn
    <3>2. CASE R!Kind(r) # "removeOwner"
      <4>1. R!Goto(r, "writeOwner")
        BY <2>3, <3>2
      <4> QED BY <2>1, <2>3, <3>2, <4>1 DEF RuleGoesOn
    <3> QED BY <3>1, <3>2
  <2> QED BY <1>3, <2>2, <2>3 DEF R!FindOwner, R!Exists
<1>4. CASE R!WriteOwner(r)
  BY <1>4, OwnerWritten DEF RuleGoesOn
<1>5. CASE R!DropRows(r)
  BY <1>5, RowsDropped DEF RuleGoesOn
<1>6. CASE R!CreateRow(r)
  BY <1>6, RowCreated DEF RuleGoesOn
<1>7. CASE R!RowsDone(r)
  <2>1. hPc[r] = "newRows" /\ R!Pending(r) = {}
    BY <1>7 DEF R!RowsDone
  <2> QED BY <1>7, <2>1 DEF R!RowsDone, RuleGoesOn
<1>8. CASE R!Recount(r)
  BY <1>8 DEF R!Recount, R!Exists, RuleGoesOn
<1>9. CASE R!WriteCount(r)
  BY <1>9, RuleCountWritten DEF RuleGoesOn
<1>10. CASE R!DeleteOwner(r)
  BY <1>10, OwnerDeleted DEF RuleGoesOn
<1>11. CASE R!Load(r)
  BY <1>11 DEF R!Load, R!Exists, RuleGoesOn
<1>12. CASE R!CountExecution(r)
  BY <1>12, ExecutionCounted DEF RuleGoesOn
<1>13. CASE R!Refused(r)
  BY <1>13 DEF R!Refused, RuleGoesOn
<1>14. CASE R!SaveContact(r)
  BY <1>14, ContactSaved DEF RuleGoesOn
<1> QED BY <1>1, <1>2, <1>3, <1>4, <1>5, <1>6, <1>7, <1>8, <1>9, <1>10, <1>11, <1>12, <1>13, <1>14 DEF RuleStep

LEMMA OwnRuleCall ==
    ASSUME RulesTyped, NEW r \in Requests, RuleStep(r)
    PROVE  PlacedRule(r)'
<1>1. PlacedRule(r) /\ RuleMoved(r) /\ RuleGoesOn(r)
  BY RuleMoves, RuleGoingOn DEF RulesTyped
<1>2. hCall'[r] \in RulesetCalls
  BY <1>1 DEF PlacedRule, RuleMoved
<1>3. CASE hPc[r] = "idle"
  BY <1>1, <1>2, <1>3 DEF RuleGoesOn, PlacedRule, RowsAndCount, Replacement
<1>4. CASE hPc[r] # "idle"
  <2>1. hCall'[r] = hCall[r] /\ R!Kind(r)' = R!Kind(r)
    BY <1>1, <1>4 DEF RuleMoved, R!Kind
  <2>2. CASE hPc'[r] = "done"
    BY <1>2, <2>2 DEF PlacedRule, RowsAndCount, Replacement
  <2>3. CASE hPc'[r] = "newRows"
    <3>1. R!Kind(r) \in {"createOwner", "updateOwner"} /\ hCall[r].list \subseteq R!Criterion \cup R!Action
      BY <1>1, <1>4, <2>3, RuleCallFields DEF RuleGoesOn, PlacedRule, RowsAndCount, Replacement, R!Kind
    <3> QED BY <1>2, <2>1, <2>3, <3>1 DEF PlacedRule, RowsAndCount, Replacement
  <2>4. CASE hPc'[r] = "writeOwner"
    <3>1. R!Kind(r) = "updateOwner"
      BY <1>1, <1>4, <2>4 DEF RuleGoesOn, PlacedRule
    <3> QED BY <1>2, <2>1, <2>4, <3>1 DEF PlacedRule, RowsAndCount, Replacement
  <2>5. CASE hPc'[r] = "deleteOwner"
    <3>1. R!Kind(r) = "removeOwner"
      BY <1>1, <1>4, <2>5 DEF RuleGoesOn
    <3> QED BY <1>2, <2>1, <2>5, <3>1 DEF PlacedRule, RowsAndCount, Replacement
  <2>6. CASE hPc'[r] = "dropRows"
    <3>1. R!Kind(r) = "updateOwner" /\ hCall[r].list \subseteq R!Criterion \cup R!Action
      BY <1>1, <1>4, <2>6, RuleCallFields DEF RuleGoesOn, PlacedRule, R!Kind
    <3> QED BY <1>2, <2>1, <2>6, <3>1 DEF PlacedRule, RowsAndCount, Replacement
  <2>7. CASE hPc'[r] = "recount"
    <3>1. /\ R!Kind(r) \in {"createOwner", "updateOwner"} /\ R!CountsNow(r)
          /\ hCall[r].list \subseteq R!Criterion \cup R!Action
      BY <1>1, <1>4, <2>7 DEF RuleGoesOn, PlacedRule, RowsAndCount, Replacement
    <3> QED BY <1>2, <2>1, <2>7, <3>1 DEF PlacedRule, RowsAndCount, Replacement, R!CountsNow
  <2>8. CASE hPc'[r] = "writeCount"
    <3>1. hPc[r] = "recount" /\ hHeld'[r] \in Nat
      BY <1>1, <1>4, <2>8, CountIsNat DEF RuleGoesOn, RulesTyped, R!TypeOK
    <3>2. /\ R!Kind(r) \in {"createOwner", "updateOwner"} /\ R!CountsNow(r)
          /\ hCall[r].list \subseteq R!Criterion \cup R!Action
      BY <1>1, <3>1 DEF PlacedRule, RowsAndCount, Replacement
    <3> QED BY <1>2, <2>1, <2>8, <3>1, <3>2 DEF PlacedRule, RowsAndCount, Replacement, R!CountsNow
  <2>9. CASE hPc'[r] = "executed"
    <3>1. R!Kind(r) = "execute"
      BY <1>1, <1>4, <2>9 DEF RuleGoesOn, PlacedRule
    <3> QED BY <1>2, <2>1, <2>9, <3>1 DEF PlacedRule, RowsAndCount, Replacement
  <2> QED BY <1>1, <1>4, <2>2, <2>3, <2>4, <2>5, <2>6, <2>7, <2>8, <2>9 DEF RuleGoesOn
<1> QED BY <1>3, <1>4

LEMMA RulesTypedStep ==
    ASSUME RulesTyped, NEW r \in Requests, RuleStep(r)
    PROVE  RulesTyped'
<1>0. RuleMoved(r)
  BY RuleMoves
<1>1. R!TypeOK'
  BY <1>0, RuleTablesTyped, RuleContactsTyped DEF R!TypeOK, R!Handling, RuleMoved, RuleLabels, RuleAnswers, OwnerTable, RowTable
<1>2. ASSUME NEW q \in Requests PROVE PlacedRule(q)'
  <2>1. CASE q = r
    BY <2>1, OwnRuleCall
  <2>2. CASE q # r
    <3>1. hPc'[q] = hPc[q] /\ hCall'[q] = hCall[q] /\ hHeld'[q] = hHeld[q] /\ PlacedRule(q)
      BY <1>0, <2>2 DEF RuleMoved, RulesTyped
    <3> QED BY <3>1 DEF PlacedRule, R!Kind, R!CountsNow
  <2> QED BY <2>1, <2>2
<1> QED BY <1>0, <1>1, <1>2 DEF RulesTyped, RuleMoved

-----------------------------------------------------------------------------
\* There at first, or created by its request: an owner begins once.
Begun(o) == o \in DOMAIN SeedOwners \/ (o \in Requests /\ hPc[o] \notin {"idle", "newOwner"})

Aimed == {"writeOwner", "deleteOwner", "executed"} \cup Replacement

BegunFirst ==
    /\ \A o \in R!Owners : owners[o] # None => Begun(o)
    /\ \A o \in R!Owners : lists[o] # {} => owners[o] # None
    /\ \A q \in Requests : hPc[q] \in Aimed => Begun(R!Owner(q))
    /\ \A x \in runs : hPc[x[1]] = "done" /\ Begun(x[2])
    /\ \A o \in R!Owners : \A row \in lists[o] : row.by \in Requests => hPc[row.by] # "idle"
    /\ IsFiniteSet(runs)

\* A segment stays a segment, and a workflow one: what an update was checked
\* against still holds when it writes.
Families ==
    \A q \in Requests : owners[R!Owner(q)] # None =>
        /\ hPc[q] \in {"writeOwner"} \cup Replacement => R!Fits(hCall[q], owners[R!Owner(q)].type)
        /\ hPc[q] = "executed" => owners[R!Owner(q)].type \in R!OfWorkflows

\* A request that replaces a list no other touches finds its own rows there,
\* and writes the count of these unless the contacts changed since it counted.
Writing(q, o) ==
    /\ \A row \in lists[o] : row.by = q /\ row.item \in hCall[q].list
    /\ hPc[q] # "newRows" => hCall[q].list \subseteq R!Items(o)
    /\ o \in stale
    /\ hPc[q] = "writeCount" /\ q \notin rAged /\ owners[o].type = "dynamic" =>
          hHeld[q] = R!Count(R!Items(o), valueOf)

Alone(o) ==
    /\ \A p, q \in R!Replacing(o) : p = q
    /\ \A q \in R!Replacing(o) : Writing(q, o)

\* Where the list of a call that is answered may be: all of it, or what was
\* there when a statement failed.
Left(q, o) ==
    /\ hPc[q] = "done" /\ R!Items(o) \subseteq hCall[q].list
    /\ hAnswer[q] # "error" => R!Items(o) = hCall[q].list

\* When none replaces it, a list is that of one call and the count is its own.
Rested(o) ==
    R!Quiet(o) =>
        /\ \A x, y \in lists[o] : x.by = y.by
        /\ \A row \in lists[o] : row.by \in Requests => Left(row.by, o)
        /\ owners[o].type = "dynamic" /\ o \notin stale => owners[o].count = R!Count(R!Items(o), valueOf)

ListsInv == \A o \in R!Owners : owners[o] # None /\ o \notin torn => Alone(o) /\ Rested(o)

Runs(o) == {x \in runs : x[2] = o}

Executions ==
    \A o \in R!Owners : owners[o] # None /\ owners[o].type \in R!OfWorkflows =>
        owners[o].count = Cardinality(Runs(o))

RuleInv == RulesTyped /\ BegunFirst /\ Families /\ ListsInv /\ Executions

LEMMA BegunStays ==
    ASSUME RulesTyped, NEW r \in Requests, RuleStep(r), NEW o, Begun(o)
    PROVE  Begun(o)'
<1>1. RuleMoved(r) /\ RuleGoesOn(r)
  BY RuleMoves, RuleGoingOn
<1>2. CASE o \in DOMAIN SeedOwners
  BY <1>2 DEF Begun
<1>3. CASE o \in Requests /\ o # r
  BY <1>1, <1>3 DEF Begun, RuleMoved
<1>4. CASE o = r /\ o \in Requests
  BY <1>1, <1>4 DEF Begun, RuleGoesOn
<1> QED BY <1>2, <1>3, <1>4 DEF Begun

\* A request about to create its owner is the first to name it.
LEMMA NotBegun ==
    ASSUME RulesTyped, BegunFirst, NEW r \in Requests, hPc[r] = "newOwner"
    PROVE  /\ ~Begun(r) /\ owners[r] = None /\ lists[r] = {} /\ R!Replacing(r) = {} /\ Runs(r) = {}
           /\ \A q \in Requests : hPc[q] \in Aimed => R!Owner(q) # r
<1>1. ~Begun(r) /\ r \in R!Owners
  BY NoOwner DEF Begun, R!Owners
<1>2. \A q \in Requests : hPc[q] \in Aimed => R!Owner(q) # r
  BY <1>1 DEF BegunFirst
<1>3. R!Replacing(r) = {}
  BY <1>2 DEF R!Replacing, R!At, Aimed, Replacement, RowsAndCount
<1>4. Runs(r) = {}
  BY <1>1 DEF Runs, BegunFirst
<1> QED BY <1>1, <1>2, <1>3, <1>4 DEF BegunFirst

\* Who replaces the list of an owner after a step of a request on it.
LEMMA ReplacingNext ==
    ASSUME RulesTyped, NEW r \in Requests, RuleStep(r), NEW o \in R!Owners, hPc[r] # "idle", o = R!Owner(r)
    PROVE  R!Replacing(o)' = (R!Replacing(o) \ {r}) \cup (IF hPc'[r] \in RowsAndCount THEN {r} ELSE {})
<1>1. RuleMoved(r)
  BY RuleMoves
<1>2. ASSUME NEW q \in Requests, q # r
      PROVE  q \in R!Replacing(o)' <=> q \in R!Replacing(o)
  <2>1. hPc'[q] = hPc[q]
    BY <1>1, <1>2 DEF RuleMoved
  <2>2. hPc[q] # "idle" => R!Owner(q)' = R!Owner(q)
    BY OwnerStays
  <2> QED BY <2>1, <2>2 DEF R!Replacing, R!At
<1>3. r \in R!Replacing(o)' <=> hPc'[r] \in RowsAndCount
  <2>1. R!Owner(r)' = R!Owner(r)
    BY OwnerStays
  <2> QED BY <2>1 DEF R!Replacing, R!At, RowsAndCount
<1>4. R!Replacing(o) \subseteq Requests /\ R!Replacing(o)' \subseteq Requests
  BY DEF R!Replacing, R!At
<1> QED BY <1>2, <1>3, <1>4

LEMMA Elsewhere ==
    ASSUME RulesTyped, NEW r \in Requests, RuleStep(r), NEW o \in R!Owners,
           hPc[r] \in {"idle", "saveContact"} \/ o # R!Owner(r)
    PROVE  /\ owners'[o] = owners[o] /\ lists'[o] = lists[o]
           /\ o \in torn' <=> o \in torn
           /\ o \in stale => o \in stale'
           /\ R!Replacing(o)' = R!Replacing(o) /\ r \notin R!Replacing(o)
           /\ Runs(o)' = Runs(o)
<1>1. RuleMoved(r) /\ RuleGoesOn(r)
  BY RuleMoves, RuleGoingOn
<1>2. r \notin R!Replacing(o)
  BY DEF R!Replacing, R!At
<1>3. R!Replacing(o)' = R!Replacing(o)
  <2>1. ASSUME NEW q \in Requests, q # r
        PROVE  q \in R!Replacing(o)' <=> q \in R!Replacing(o)
    <3>1. hPc'[q] = hPc[q]
      BY <1>1, <2>1 DEF RuleMoved
    <3>2. hPc[q] # "idle" => R!Owner(q)' = R!Owner(q)
      BY OwnerStays
    <3> QED BY <3>1, <3>2 DEF R!Replacing, R!At
  <2>2. r \notin R!Replacing(o)'
    <3>1. CASE hPc[r] \in {"idle", "saveContact"}
      BY <1>1, <3>1 DEF RuleGoesOn, R!Replacing, R!At
    <3>2. CASE hPc[r] \notin {"idle", "saveContact"}
      <4>1. R!Owner(r)' = R!Owner(r) /\ R!Owner(r) # o
        BY <3>2, OwnerStays
      <4> QED BY <4>1 DEF R!Replacing, R!At
    <3> QED BY <3>1, <3>2
  <2>3. R!Replacing(o) \subseteq Requests /\ R!Replacing(o)' \subseteq Requests
    BY DEF R!Replacing, R!At
  <2> QED BY <1>2, <2>1, <2>2, <2>3
<1>4. /\ owners'[o] = owners[o] /\ lists'[o] = lists[o]
      /\ o \in torn' <=> o \in torn
      /\ o \in stale => o \in stale'
      /\ Runs(o)' = Runs(o)
  <2>1. CASE RuleRead(r)
    BY <2>1, RuleReads DEF Runs
  <2>2. CASE RuleWrite(r)
    <3>0. CASE R!SaveContact(r)
      BY <3>0, ContactSaved DEF Runs
    <3>1. ~R!SaveContact(r) => o # R!Owner(r)
      <4>1. ~R!SaveContact(r) => hPc[r] \notin {"idle", "saveContact"}
        BY <2>2, OwnerCreated, OwnerWritten, RowsDropped, RowCreated, RuleCountWritten, OwnerDeleted,
           ExecutionCounted DEF RuleWrite
      <4> QED BY <4>1
    <3>2. CASE ~R!SaveContact(r)
      <4>1. o # R!Owner(r)
        BY <3>1, <3>2
      <4>2. CASE R!CreateOwner(r)
        BY <4>1, <4>2, OwnerCreated DEF Runs
      <4>3. CASE R!WriteOwner(r)
        <5>1. /\ torn' = torn \/ torn' = torn \cup {R!Owner(r)}
              /\ stale' = stale \/ stale' = stale \cup {R!Owner(r)}
              /\ UNCHANGED <<lists, runs>> /\ (UNCHANGED owners \/ owners'[o] = owners[o])
          BY <4>1, <4>3, OwnerWritten
        <5> QED BY <4>1, <5>1 DEF Runs
      <4>4. CASE R!DropRows(r)
        <5>1. torn' = torn \/ torn' = torn \cup {R!Owner(r)}
          BY <4>4, RowsDropped
        <5> QED BY <4>1, <4>4, <5>1, RowsDropped DEF Runs
      <4>5. CASE R!CreateRow(r)
        BY <4>1, <4>5, RowCreated DEF Runs
      <4>6. CASE R!WriteCount(r)
        BY <4>1, <4>6, RuleCountWritten DEF Runs
      <4>7. CASE R!DeleteOwner(r)
        BY <4>1, <4>7, OwnerDeleted DEF Runs
      <4>8. CASE R!CountExecution(r)
        <5>1. runs' = runs \/ runs' = runs \cup {<<r, R!Owner(r)>>}
          BY <4>8, ExecutionCounted
        <5>2. Runs(o)' = Runs(o)
          BY <4>1, <5>1 DEF Runs
        <5> QED BY <4>1, <4>8, <5>2, ExecutionCounted
      <4> QED BY <2>2, <3>2, <4>2, <4>3, <4>4, <4>5, <4>6, <4>7, <4>8 DEF RuleWrite
    <3> QED BY <3>0, <3>2
  <2> QED BY <2>1, <2>2, RuleCases
<1> QED BY <1>2, <1>3, <1>4

LEMMA BegunFirstStep ==
    ASSUME RulesTyped, BegunFirst, NEW r \in Requests, RuleStep(r)
    PROVE  BegunFirst'
<1>0. RuleMoved(r) /\ RuleGoesOn(r) /\ \A o : Begun(o) => Begun(o)'
  BY RuleMoves, RuleGoingOn, BegunStays
<1>1. ASSUME NEW o \in R!Owners
      PROVE  /\ owners'[o] # None => Begun(o)'
             /\ lists'[o] # {} => owners'[o] # None
             /\ \A row \in lists'[o] : row.by \in Requests => hPc'[row.by] # "idle"
  <2>0. \A q \in Requests : hPc[q] # "idle" => hPc'[q] # "idle"
    BY OwnerStays
  <2>1. CASE owners'[o] = owners[o] /\ lists'[o] = lists[o]
    BY <1>0, <2>0, <2>1 DEF BegunFirst
  <2>2. CASE hPc[r] \notin {"idle", "saveContact"} /\ o = R!Owner(r)
    <3>1. CASE RuleRead(r)
      BY <2>1, <3>1, RuleReads
    <3>2. CASE R!CreateOwner(r)
      <4>1. lists'[o] = {} /\ (owners'[o] = owners[o] \/ hPc'[r] = "newRows") /\ o = r
        BY <2>2, <3>2, OwnerCreated, NotBegun
      <4>2. hPc'[r] = "newRows" => Begun(o)'
        BY <4>1 DEF Begun
      <4> QED BY <1>0, <4>1, <4>2 DEF BegunFirst
    <3>3. CASE R!WriteOwner(r)
      <4>1. lists'[o] = lists[o] /\ (owners'[o] = owners[o] \/ (owners[o] # None /\ owners'[o] # None))
        BY <2>2, <3>3, OwnerWritten
      <4> QED BY <1>0, <2>0, <4>1 DEF BegunFirst
    <3>4. CASE R!DropRows(r)
      BY <1>0, <2>2, <3>4, RowsDropped DEF BegunFirst
    <3>5. CASE R!CreateRow(r)
      <4>1. CASE lists' = lists
        BY <2>1, <3>5, <4>1, RowCreated
      <4>2. CASE /\ owners[o] # None /\ hPc' = hPc
                 /\ \E i \in hCall[r].list : lists'[o] = lists[o] \cup {[by |-> r, item |-> i]}
        <5>1. PICK i \in hCall[r].list : lists'[o] = lists[o] \cup {[by |-> r, item |-> i]}
          BY <4>2
        <5>2. \A row \in lists'[o] : row \in lists[o] \/ row.by = r
          BY <5>1
        <5>3. owners'[o] = owners[o]
          BY <3>5, RowCreated
        <5> QED BY <1>0, <2>2, <4>2, <5>2, <5>3 DEF BegunFirst
      <4> QED BY <2>2, <3>5, <4>1, <4>2, RowCreated
    <3>6. CASE R!WriteCount(r)
      <4>1. lists'[o] = lists[o] /\ (owners'[o] = owners[o] \/ (owners[o] # None /\ owners'[o] # None))
        BY <2>2, <3>6, RuleCountWritten
      <4> QED BY <1>0, <2>0, <4>1 DEF BegunFirst
    <3>7. CASE R!DeleteOwner(r)
      <4>1. CASE UNCHANGED <<owners, lists>>
        BY <2>1, <4>1
      <4>2. CASE owners'[o] = None /\ lists'[o] = {}
        BY <4>2
      <4> QED BY <2>2, <3>7, <4>1, <4>2, OwnerDeleted
    <3>8. CASE R!CountExecution(r)
      <4>1. lists'[o] = lists[o] /\ (owners'[o] = owners[o] \/ (owners[o] # None /\ owners'[o] # None))
        BY <2>2, <3>8, ExecutionCounted
      <4> QED BY <1>0, <2>0, <4>1 DEF BegunFirst
    <3>9. ~R!SaveContact(r)
      BY <2>2, ContactSaved
    <3> QED BY <3>1, <3>2, <3>3, <3>4, <3>5, <3>6, <3>7, <3>8, <3>9, RuleCases DEF RuleWrite
  <2>3. CASE hPc[r] \in {"idle", "saveContact"} \/ o # R!Owner(r)
    BY <2>1, <2>3, Elsewhere
  <2> QED BY <2>2, <2>3
<1>2. ASSUME NEW q \in Requests, hPc'[q] \in Aimed
      PROVE  Begun(R!Owner(q))'
  <2>1. CASE hPc[q] \in Aimed
    <3>1. Begun(R!Owner(q)) /\ R!Owner(q)' = R!Owner(q)
      BY <2>1, OwnerStays DEF BegunFirst, Aimed, Replacement, RowsAndCount
    <3> QED BY <1>0, <3>1 DEF Begun
  <2>2. CASE hPc[q] \notin Aimed
    <3>1. q = r
      BY <1>0, <1>2, <2>2 DEF RuleMoved
    <3>2. /\ hPc[r] \notin {"idle", "done", "saveContact"}
          /\ hPc[r] = "newOwner" \/ owners[R!Owner(r)] # None
      BY <1>0, <1>2, <2>2, <3>1 DEF RuleGoesOn, Aimed, Replacement, RowsAndCount
    <3>3. R!Owner(r)' = R!Owner(r) /\ R!Owner(r) \in R!Owners
      BY <3>2, OwnerStays, OwnOwner
    <3>4. CASE hPc[r] = "newOwner"
      <4>1. R!Owner(r) = r
        BY <3>4, OwnOwner DEF RulesTyped, PlacedRule
      <4>2. hPc'[r] \notin {"idle", "newOwner"}
        BY <1>2, <3>1 DEF Aimed, Replacement, RowsAndCount
      <4> QED BY <3>1, <3>3, <4>1, <4>2 DEF Begun
    <3>5. CASE owners[R!Owner(r)] # None
      <4>1. Begun(R!Owner(r))
        BY <3>3, <3>5 DEF BegunFirst
      <4> QED BY <1>0, <3>1, <3>3, <4>1 DEF Begun
    <3> QED BY <3>2, <3>4, <3>5
  <2> QED BY <2>1, <2>2
<1>3. (\A x \in runs' : hPc'[x[1]] = "done" /\ Begun(x[2])') /\ IsFiniteSet(runs')
  <2>0. runs \subseteq (Requests \X R!Owners)
    BY DEF RulesTyped, R!TypeOK
  <2>1. \A x \in runs : hPc'[x[1]] = "done" /\ Begun(x[2])'
    <3> SUFFICES ASSUME NEW x \in runs PROVE hPc'[x[1]] = "done" /\ Begun(x[2])'
      OBVIOUS
    <3>1. x[1] \in Requests /\ hPc[x[1]] = "done" /\ Begun(x[2])
      BY <2>0 DEF BegunFirst
    <3>2. x[1] # r
      BY <1>0, <3>1 DEF RuleMoved
    <3> QED BY <1>0, <3>1, <3>2 DEF RuleMoved
  <2>2. CASE runs' = runs
    BY <2>1, <2>2 DEF BegunFirst
  <2>3. CASE R!CountExecution(r) /\ runs' = runs \cup {<<r, R!Owner(r)>>}
    <3>1. hPc[r] = "executed" /\ hPc'[r] = "done"
      BY <2>3, ExecutionCounted
    <3>2. Begun(R!Owner(r))
      BY <3>1 DEF BegunFirst, Aimed
    <3>3. IsFiniteSet(runs')
      BY <2>3, FS_AddElement DEF BegunFirst
    <3> QED BY <1>0, <2>1, <2>3, <3>1, <3>2, <3>3
  <2>4. runs' = runs \/ (R!CountExecution(r) /\ runs' = runs \cup {<<r, R!Owner(r)>>})
    <3>1. CASE RuleRead(r)
      BY <3>1, RuleReads
    <3>2. CASE RuleWrite(r)
      BY <3>2, OwnerCreated, OwnerWritten, RowsDropped, RowCreated, RuleCountWritten, OwnerDeleted,
         ExecutionCounted, ContactSaved DEF RuleWrite
    <3> QED BY <3>1, <3>2, RuleCases
  <2> QED BY <2>2, <2>3, <2>4
<1> QED BY <1>1, <1>2, <1>3 DEF BegunFirst

SameFamily(t, u) == (t \in R!OfSegments /\ u \in R!OfSegments) \/ (t \in R!OfWorkflows /\ u \in R!OfWorkflows)

LEMMA FitsFamily ==
    ASSUME NEW c, NEW t, NEW u, R!Fits(c, t), SameFamily(t, u)
    PROVE  R!Fits(c, u)
BY Zenon DEF R!Fits, SameFamily, R!OfSegments, R!OfWorkflows

LEMMA FitsSets ==
    ASSUME NEW c, NEW t \in R!Types, R!Fits(c, t), c.type # None
    PROVE  SameFamily(t, c.type)
BY DEF R!Fits, SameFamily, R!OfSegments, R!OfWorkflows, R!Keep

LEMMA FamilyStays ==
    ASSUME RulesTyped, BegunFirst, Families, NEW r \in Requests, RuleStep(r),
           NEW o \in R!Owners, owners[o] # None, owners'[o] # None
    PROVE  SameFamily(owners[o].type, owners'[o].type)
<1>1. owners[o].type \in R!Types
  BY DEF RulesTyped, R!TypeOK
<1>2. CASE owners'[o].type = owners[o].type
  BY <1>1, <1>2 DEF SameFamily, R!Types
<1>3. CASE hPc[r] \in {"idle", "saveContact"} \/ o # R!Owner(r)
  BY <1>2, <1>3, Elsewhere
<1>4. CASE o = R!Owner(r) /\ R!WriteOwner(r)
  <2> DEFINE type == IF hCall[r].type = None THEN owners[o].type ELSE hCall[r].type
  <2>a. hPc[r] = "writeOwner" /\ owners'[o] = [type |-> type, count |-> owners[o].count]
    BY <1>4, OwnerWritten
  <2>b. hPc[r] = "writeOwner" /\ owners'[o].type = type
    <3> HIDE DEF type
    <3> QED BY <2>a
  <2>1. /\ hPc[r] = "writeOwner"
        /\ owners'[o].type = IF hCall[r].type = None THEN owners[o].type ELSE hCall[r].type
    BY <2>b
  <2>2. R!Fits(hCall[r], owners[o].type)
    BY <1>4, <2>1 DEF Families
  <2> QED BY <1>1, <1>2, <2>1, <2>2, FitsSets
<1>5. CASE hPc[r] \notin {"idle", "saveContact"} /\ o = R!Owner(r) /\ ~R!WriteOwner(r)
  <2>1. ~R!CreateOwner(r)
    BY <1>5, OwnerCreated, NotBegun
  <2>2. CASE RuleRead(r)
    BY <1>2, <2>2, RuleReads
  <2>3. CASE R!DropRows(r) \/ R!CreateRow(r)
    BY <1>2, <2>3, RowsDropped, RowCreated
  <2>4. CASE R!DeleteOwner(r)
    BY <1>2, <1>5, <2>4, OwnerDeleted
  <2>5. CASE R!WriteCount(r)
    <3>1. UNCHANGED owners \/ owners'[o] = [type |-> owners[o].type, count |-> hHeld[r]]
      BY <1>5, <2>5, RuleCountWritten
    <3> QED BY <1>2, <3>1
  <2>6. CASE R!CountExecution(r)
    <3>1. UNCHANGED owners \/ owners'[o] = [type |-> owners[o].type, count |-> owners[o].count + 1]
      BY <1>5, <2>6, ExecutionCounted
    <3> QED BY <1>2, <3>1
  <2>7. ~R!SaveContact(r)
    BY <1>5, ContactSaved
  <2> QED BY <1>5, <2>1, <2>2, <2>3, <2>4, <2>5, <2>6, <2>7, RuleCases DEF RuleWrite
<1> QED BY <1>3, <1>4, <1>5

LEMMA FamiliesStep ==
    ASSUME RulesTyped, BegunFirst, Families, NEW r \in Requests, RuleStep(r)
    PROVE  Families'
<1>0. RuleMoved(r) /\ RuleGoesOn(r)
  BY RuleMoves, RuleGoingOn
<1> DEFINE Checked == {"writeOwner"} \cup Replacement
<1> SUFFICES ASSUME NEW q \in Requests, owners'[R!Owner(q)'] # None
             PROVE  /\ hPc'[q] \in Checked => R!Fits(hCall'[q], owners'[R!Owner(q)'].type)
                    /\ hPc'[q] = "executed" => owners'[R!Owner(q)'].type \in R!OfWorkflows
  BY DEF Families, R!Fits, R!OfSegments, R!OfWorkflows, R!Keep, R!Criterion, R!Operators, R!Action
<1>1. CASE hPc'[q] \notin Checked \cup {"executed"}
  BY <1>1
<1>2. CASE hPc'[q] \in Checked \cup {"executed"}
  <2>1. hPc[q] \notin {"idle", "done", "saveContact"}
    BY <1>0, <1>2 DEF RuleMoved, RuleGoesOn, Replacement, RowsAndCount
  <2> DEFINE o == R!Owner(q)
  <2>2. o \in R!Owners /\ R!Owner(q)' = o /\ hCall'[q] = hCall[q] /\ owners'[o] # None
    BY <2>1, OwnOwner, OwnerStays
  <2>3. CASE owners[o] # None
    <3>1. SameFamily(owners[o].type, owners'[o].type) /\ owners[o].type \in R!Types
      BY <2>2, <2>3, FamilyStays DEF RulesTyped, R!TypeOK
    <3>2. hPc'[q] \in Checked => R!Fits(hCall[q], owners[o].type)
      <4>1. hPc'[q] \in Checked => hPc[q] \in Checked \/ hPc[q] \in {"owner", "newOwner"}
        BY <1>0, <2>1 DEF RuleMoved, RuleGoesOn, Replacement, RowsAndCount
      <4>2. CASE hPc[q] \in Checked
        BY <2>3, <4>2 DEF Families
      <4>3. CASE hPc[q] = "owner" /\ hPc'[q] \in Checked
        <5>1. q = r /\ R!Kind(q) = "updateOwner"
          BY <1>0, <4>3 DEF RuleMoved, RuleGoesOn, Replacement, RowsAndCount, RulesTyped, PlacedRule
        <5> QED BY <1>0, <4>3, <5>1 DEF RuleGoesOn, Replacement, RowsAndCount
      <4>4. CASE hPc[q] = "newOwner"
        <5>1. o = q
          BY <4>4, OwnOwner DEF RulesTyped, PlacedRule
        <5> QED BY <2>3, <4>4, <5>1, NotBegun
      <4> QED BY <4>1, <4>2, <4>3, <4>4
    <3>3. hPc'[q] = "executed" => owners[o].type \in R!OfWorkflows
      <4>1. CASE hPc[q] = "executed"
        BY <2>3, <4>1 DEF Families
      <4>2. CASE hPc[q] # "executed" /\ hPc'[q] = "executed"
        <5>1. q = r
          BY <1>0, <4>2 DEF RuleMoved
        <5> QED BY <1>0, <3>1, <4>2, <5>1 DEF RuleGoesOn, R!Types
      <4> QED BY <4>1, <4>2
    <3>4. hPc'[q] = "executed" => owners'[o].type \in R!OfWorkflows
      BY <3>1, <3>3 DEF SameFamily, R!OfSegments, R!OfWorkflows
    <3>5. hPc'[q] \in Checked => R!Fits(hCall[q], owners'[o].type)
      BY <3>1, <3>2, FitsFamily
    <3> QED BY <2>2, <3>4, <3>5
  <2>4. CASE owners[o] = None
    <3>1. R!CreateOwner(r) /\ o = r
      <4>1. owners'[o] # owners[o]
        BY <2>2, <2>4
      <4>2. o = R!Owner(r) /\ RuleWrite(r)
        BY <2>2, <4>1, Elsewhere, RuleCases, RuleReads
      <4>3. R!CreateOwner(r)
        BY <2>2, <2>4, <4>1, <4>2, OwnerWritten, RowsDropped, RowCreated, RuleCountWritten, OwnerDeleted,
           ExecutionCounted, ContactSaved DEF RuleWrite
      <4> QED BY <4>2, <4>3, OwnerCreated
    <3>2. /\ hPc[r] = "newOwner" /\ hPc'[r] = "newRows" /\ owners'[r].type = hCall[r].type
          /\ R!Kind(r) = "createOwner" /\ hCall[r] \in RulesetCalls
      <4>1. /\ hPc[r] = "newOwner" /\ hPc'[r] = "newRows"
            /\ owners'[r] = [type |-> hCall[r].type, count |-> 0]
        BY <2>2, <2>4, <3>1, OwnerCreated
      <4>2. owners'[r].type = hCall[r].type
        BY <4>1
      <4> QED BY <4>1, <4>2 DEF RulesTyped, PlacedRule
    <3>3. q = r
      <4>1. hPc[q] \notin Aimed
        BY <3>1, <3>2, NotBegun
      <4>2. q # r => hPc[q] \in Aimed
        BY <1>0, <1>2 DEF RuleMoved, Aimed
      <4> QED BY <4>1, <4>2
    <3>4. R!Fits(hCall[r], hCall[r].type)
      BY <3>2, RuleCallFields DEF R!Kind
    <3> QED BY <2>2, <3>1, <3>2, <3>3, <3>4
  <2> QED BY <2>3, <2>4
<1> QED BY <1>1, <1>2

\* The contacts that a segment selects change, and the calls that have counted
\* them are known for it.
CountAges(o) ==
    owners[o].type = "dynamic" =>
        o \in stale' /\ \A q \in R!Replacing(o) : hPc[q] = "writeCount" => q \in rAged'

LEMMA AgedStay == ASSUME NEW r \in Requests, RuleStep(r) PROVE rAged \subseteq rAged'
<1>1. CASE R!SaveContact(r)
  BY <1>1 DEF R!SaveContact
<1>2. CASE ~R!SaveContact(r)
  BY <1>2, ContactsKept
<1> QED BY <1>1, <1>2

\* A step of a request that does not replace the list leaves what is known of it.
LEMMA ListKept ==
    ASSUME RulesTyped, BegunFirst, NEW r \in Requests, RuleStep(r), NEW o \in R!Owners,
           Alone(o), Rested(o), R!Replacing(o)' = R!Replacing(o), r \notin R!Replacing(o),
           owners'[o].type = owners[o].type, lists'[o] = lists[o],
           owners[o].type = "dynamic" => owners'[o].count = owners[o].count,
           o \in stale => o \in stale',
           R!Selected(R!Items(o), valueOf') = R!Selected(R!Items(o), valueOf) \/ CountAges(o)
    PROVE  Alone(o)' /\ Rested(o)'
<1>0. /\ RuleMoved(r) /\ R!Items(o)' = R!Items(o) /\ rAged \subseteq rAged'
      /\ \/ R!Count(R!Items(o), valueOf)' = R!Count(R!Items(o), valueOf)
         \/ CountAges(o)
  <2>1. R!Items(o)' = R!Items(o)
    BY DEF R!Items
  <2>2. R!Count(R!Items(o), valueOf)' = R!Count(R!Items(o), valueOf')
    BY <2>1 DEF R!Count, R!Selected, R!Satisfies, R!Cardinality
  <2> QED BY <2>1, <2>2, RuleMoves, AgedStay DEF R!Count
<1>1. ASSUME NEW q \in R!Replacing(o)
      PROVE  Writing(q, o)'
  <2>1. q \in Requests /\ q # r /\ hPc[q] # "idle" /\ Writing(q, o)
    BY <1>1 DEF R!Replacing, R!At, Alone
  <2>2. hPc'[q] = hPc[q] /\ hCall'[q] = hCall[q] /\ hHeld'[q] = hHeld[q]
    BY <1>0, <2>1 DEF RuleMoved
  <2>3. hPc[q] = "writeCount" /\ q \notin rAged' /\ owners[o].type = "dynamic" =>
           hHeld[q] = R!Count(R!Items(o), valueOf)'
    BY <1>0, <1>1, <2>1 DEF Writing, CountAges
  <2> QED BY <1>0, <2>1, <2>2, <2>3 DEF Writing
<1>2. Alone(o)'
  BY <1>1 DEF Alone
<1>3. Rested(o)'
  <2> SUFFICES ASSUME R!Quiet(o)'
               PROVE  /\ \A x, y \in lists'[o] : x.by = y.by
                      /\ \A row \in lists'[o] : row.by \in Requests => Left(row.by, o)'
                      /\ owners'[o].type = "dynamic" /\ o \notin stale' =>
                            owners'[o].count = R!Count(R!Items(o), valueOf)'
    BY DEF Rested
  <2>1. R!Quiet(o)
    BY DEF R!Quiet
  <2>2. \A row \in lists[o] : row.by \in Requests => Left(row.by, o)'
    <3> SUFFICES ASSUME NEW row \in lists[o], row.by \in Requests PROVE Left(row.by, o)'
      OBVIOUS
    <3>1. Left(row.by, o)
      BY <2>1 DEF Rested
    <3>2. row.by # r
      BY <1>0, <3>1 DEF Left, RuleMoved
    <3> QED BY <1>0, <3>1, <3>2 DEF Left, RuleMoved
  <2>3. owners[o].type = "dynamic" /\ o \notin stale' => R!Count(R!Items(o), valueOf)' = R!Count(R!Items(o), valueOf)
    BY <1>0 DEF CountAges
  <2> QED BY <2>1, <2>2, <2>3 DEF Rested
<1> QED BY <1>2, <1>3

LEMMA ListsStep ==
    ASSUME RulesTyped, BegunFirst, Families, ListsInv, NEW r \in Requests, RuleStep(r)
    PROVE  ListsInv'
<1> SUFFICES ASSUME NEW o \in R!Owners, owners'[o] # None, o \notin torn'
             PROVE  Alone(o)' /\ Rested(o)'
  BY DEF ListsInv, R!Owners
<1>0. RuleMoved(r)
  BY RuleMoves
<1>a. ~R!SaveContact(r) => UNCHANGED <<valueOf, rAged>>
  BY ContactsKept
<1>1. CASE hPc[r] \in {"idle", "saveContact"} \/ o # R!Owner(r)
  <2>1. /\ owners'[o] = owners[o] /\ lists'[o] = lists[o] /\ (o \in torn' <=> o \in torn)
        /\ o \in stale => o \in stale'
        /\ R!Replacing(o)' = R!Replacing(o) /\ r \notin R!Replacing(o)
    BY <1>1, Elsewhere
  <2>2. Alone(o) /\ Rested(o)
    BY <2>1 DEF ListsInv
  <2>3. R!Selected(R!Items(o), valueOf') = R!Selected(R!Items(o), valueOf) \/ CountAges(o)
    <3>1. CASE ~R!SaveContact(r)
      BY <1>a, <3>1
    <3>2. CASE R!SaveContact(r) /\ R!Selected(R!Items(o), valueOf') # R!Selected(R!Items(o), valueOf)
      <4>1. owners[o].type = "dynamic" => o \in R!Shifted(valueOf')
        BY <2>1, <3>2 DEF R!Shifted, R!Segment
      <4>2. ASSUME NEW q \in R!Replacing(o), hPc[q] = "writeCount"
            PROVE  q \in R!At("writeCount") /\ R!Owner(q) = o
        BY <4>2 DEF R!Replacing, R!At
      <4> QED BY <3>2, <4>1, <4>2, ContactSaved DEF CountAges
    <3> QED BY <3>1, <3>2
  <2> QED BY <2>1, <2>2, <2>3, ListKept
<1>2. CASE hPc[r] \notin {"idle", "saveContact"} /\ o = R!Owner(r)
  <2>k. UNCHANGED <<valueOf, rAged>>
    BY <1>a, <1>2, ContactSaved
  <2>0. /\ R!Replacing(o)' = (R!Replacing(o) \ {r}) \cup (IF hPc'[r] \in RowsAndCount THEN {r} ELSE {})
        /\ r \in R!Replacing(o) <=> hPc[r] \in RowsAndCount
        /\ hCall'[r] = hCall[r] /\ R!Kind(r)' = R!Kind(r)
    BY <1>2, ReplacingNext, OwnerStays DEF R!Replacing, R!At, RowsAndCount
  <2>a. R!Items(o) = {row.item : row \in lists[o]} /\ R!Items(o)' = {row.item : row \in lists'[o]}
    BY DEF R!Items
  <2>1. CASE R!CreateOwner(r)
    <3>1. /\ hPc[r] = "newOwner" /\ o = r /\ lists'[o] = {} /\ R!Replacing(o) = {} /\ owners[o] = None
      BY <1>2, <2>1, OwnerCreated, NotBegun
    <3>2. hPc'[r] = "newRows" /\ owners'[r] = [type |-> hCall[r].type, count |-> 0]
      BY <2>1, <3>1, OwnerCreated
    <3>3. R!Replacing(o)' = {r} /\ o \in stale'
      BY <2>0, <2>1, <3>1, <3>2, OwnerCreated DEF RowsAndCount
    <3>4. Writing(r, o)'
      BY <2>0, <3>1, <3>2, <3>3 DEF Writing
    <3> QED BY <3>1, <3>3, <3>4 DEF Alone, Rested, R!Quiet
  <2>2. CASE R!WriteOwner(r)
    <3> DEFINE type == IF hCall[r].type = None THEN owners[o].type ELSE hCall[r].type
    <3>1. /\ hPc[r] = "writeOwner" /\ lists'[o] = lists[o] /\ owners[o] # None
          /\ owners'[o] = [type |-> type, count |-> owners[o].count]
          /\ stale' = IF type # owners[o].type THEN stale \cup {o} ELSE stale
          /\ torn' = IF type # owners[o].type /\ R!Replacing(o) # {} THEN torn \cup {o} ELSE torn
          /\ hPc'[r] \in {"done", "dropRows"}
      BY <1>2, <2>2, OwnerWritten
    <3> HIDE DEF type
    <3>2. R!Replacing(o)' = R!Replacing(o) /\ r \notin R!Replacing(o)
      BY <2>0, <3>1 DEF RowsAndCount
    <3>3. owners'[o].type = type /\ owners'[o].count = owners[o].count /\ o \notin torn
      BY <3>1
    <3>4. Alone(o) /\ Rested(o)
      BY <3>1, <3>3 DEF ListsInv
    <3>5. CASE type = owners[o].type
      BY <2>k, <3>1, <3>2, <3>3, <3>4, <3>5, ListKept
    <3>6. CASE type # owners[o].type
      <4>1. R!Replacing(o) = {} /\ o \in stale'
        BY <3>1, <3>6
      <4>2. Alone(o)'
        BY <3>2, <4>1 DEF Alone
      <4>3. ASSUME NEW row \in lists[o], row.by \in Requests
            PROVE  Left(row.by, o)'
        <5>1. Left(row.by, o)
          BY <3>4, <4>1, <4>3 DEF Rested, R!Quiet
        <5>2. row.by # r
          BY <3>1, <5>1 DEF Left
        <5> QED BY <1>0, <2>a, <3>1, <4>3, <5>1, <5>2 DEF Left, RuleMoved
      <4>4. Rested(o)'
        BY <3>1, <3>4, <4>1, <4>3 DEF Rested, R!Quiet
      <4> QED BY <4>2, <4>4
    <3> QED BY <3>5, <3>6
  <2>3. CASE R!DropRows(r)
    <3>1. /\ hPc'[r] = "newRows" /\ lists'[o] = {} /\ R!Replacing(o) = {} /\ o \in stale'
          /\ hPc[r] = "dropRows"
      BY <1>2, <2>3, RowsDropped
    <3>2. R!Replacing(o)' = {r}
      BY <2>0, <3>1 DEF RowsAndCount
    <3>3. Writing(r, o)'
      BY <2>0, <3>1, <3>2 DEF Writing
    <3> QED BY <3>1, <3>2, <3>3 DEF Alone, Rested, R!Quiet
  <2>4. CASE R!CreateRow(r)
    <3>1. /\ hPc[r] = "newRows" /\ UNCHANGED <<owners, torn, stale, hPc, hCall, hHeld>>
          /\ \E i \in hCall[r].list : lists'[o] = lists[o] \cup {[by |-> r, item |-> i]}
      BY <1>2, <2>4, RowCreated
    <3>2. Alone(o) /\ r \in R!Replacing(o) /\ R!Replacing(o)' = R!Replacing(o)
      BY <2>0, <3>1 DEF ListsInv, RowsAndCount
    <3>3. R!Replacing(o) = {r} /\ Writing(r, o)
      BY <3>2 DEF Alone
    <3>4. PICK i \in hCall[r].list : lists'[o] = lists[o] \cup {[by |-> r, item |-> i]}
      BY <3>1
    <3>5. \A row \in lists'[o] : row.by = r /\ row.item \in hCall[r].list
      <4>1. \A row \in lists[o] : row.by = r /\ row.item \in hCall[r].list
        BY <3>3 DEF Writing
      <4> QED BY <3>4, <4>1
    <3>6. Writing(r, o)'
      <4>1. o \in stale
        BY <3>3 DEF Writing
      <4> QED BY <2>0, <3>1, <3>5, <4>1 DEF Writing
    <3> QED BY <3>2, <3>3, <3>6 DEF Alone, Rested, R!Quiet
  <2>5. CASE R!RowsDone(r)
    <3>1. hPc[r] = "newRows" /\ R!Pending(r) = {} /\ UNCHANGED <<owners, lists, torn, stale, runs>>
      BY <2>5, RuleReads DEF R!RowsDone, RuleRead
    <3>2. Alone(o) /\ r \in R!Replacing(o)
      BY <2>0, <3>1 DEF ListsInv, RowsAndCount
    <3>3. R!Replacing(o) = {r} /\ Writing(r, o)
      BY <3>2 DEF Alone
    <3>4. hCall[r].list \subseteq R!Items(o)
      BY <1>2, <2>a, <3>1 DEF R!Pending
    <3>5. \A row \in lists[o] : row.by = r /\ row.item \in hCall[r].list
      BY <3>3 DEF Writing
    <3>6. CASE R!CountsNow(r)
      <4>1. hPc'[r] = "recount" /\ R!Replacing(o)' = {r}
        BY <2>0, <2>5, <3>1, <3>3, <3>6, RuleGoes DEF R!RowsDone, RowsAndCount, RuleLabels
      <4>2. Writing(r, o)'
        BY <2>0, <2>a, <3>1, <3>3, <3>4, <4>1 DEF Writing
      <4> QED BY <4>1, <4>2 DEF Alone, Rested, R!Quiet
    <3>7. CASE ~R!CountsNow(r)
      <4>1. hPc'[r] = "done" /\ R!Replacing(o)' = {}
        BY <2>0, <2>5, <3>1, <3>3, <3>7, RuleReplies DEF R!RowsDone, RowsAndCount, RuleAnswers
      <4>2. R!Items(o)' = hCall'[r].list
        BY <2>0, <2>a, <3>1, <3>4, <3>5
      <4>3. o \in stale'
        BY <3>1, <3>3 DEF Writing
      <4> QED BY <3>1, <3>5, <4>1, <4>2, <4>3 DEF Alone, Rested, Left, R!Quiet
    <3> QED BY <3>6, <3>7
  <2>6. CASE R!Recount(r)
    <3>1. hPc[r] = "recount" /\ UNCHANGED <<owners, lists, torn, stale, runs>>
      BY <2>6, RuleReads DEF R!Recount, RuleRead
    <3>2. Alone(o) /\ r \in R!Replacing(o)
      BY <2>0, <3>1 DEF ListsInv, RowsAndCount
    <3>3. R!Replacing(o) = {r} /\ Writing(r, o)
      BY <3>2 DEF Alone
    <3>4. /\ hPc'[r] = "writeCount"
          /\ owners[o].type = "dynamic" => hHeld'[r] = R!Count(R!Items(o), valueOf)
      BY <1>2, <2>6, <3>1, RuleContinues DEF R!Recount, R!Exists, RuleLabels
    <3>5. R!Replacing(o)' = {r}
      BY <2>0, <3>3, <3>4 DEF RowsAndCount
    <3>6. R!Items(o)' = R!Items(o) /\ R!Count(R!Items(o), valueOf)' = R!Count(R!Items(o), valueOf)
      <4>1. R!Items(o)' = R!Items(o)
        BY <2>a, <3>1
      <4> QED BY <2>k, <4>1, CountOfItems
    <3>7. Writing(r, o)'
      BY <2>0, <3>1, <3>3, <3>4, <3>6 DEF Writing
    <3> QED BY <3>5, <3>7 DEF Alone, Rested, R!Quiet
  <2>7. CASE R!WriteCount(r)
    <3>1. /\ hPc[r] = "writeCount" /\ hPc'[r] = "done" /\ lists'[o] = lists[o] /\ torn' = torn
          /\ owners[o] # None /\ owners'[o] = [type |-> owners[o].type, count |-> hHeld[r]]
          /\ r \in rAged => stale' = stale
      BY <1>2, <2>7, RuleCountWritten
    <3>2. Alone(o) /\ r \in R!Replacing(o)
      BY <2>0, <3>1 DEF ListsInv, RowsAndCount
    <3>3. R!Replacing(o) = {r} /\ Writing(r, o) /\ R!Replacing(o)' = {}
      BY <2>0, <3>1, <3>2 DEF Alone, RowsAndCount
    <3>4. \A row \in lists[o] : row.by = r /\ row.item \in hCall[r].list
      BY <3>3 DEF Writing
    <3>5. R!Items(o)' = hCall'[r].list
      BY <2>0, <2>a, <3>1, <3>3, <3>4 DEF Writing
    <3>6. owners'[o].type = "dynamic" /\ o \notin stale' => owners'[o].count = R!Count(R!Items(o), valueOf)'
      <4>1. R!Count(R!Items(o), valueOf)' = R!Count(R!Items(o), valueOf)
        <5>1. R!Items(o)' = R!Items(o)
          BY <2>a, <3>1
        <5> QED BY <2>k, <5>1, CountOfItems
      <4>2. owners[o].type = "dynamic" /\ r \notin rAged => hHeld[r] = R!Count(R!Items(o), valueOf)
        BY <3>1, <3>3 DEF Writing
      <4>3. owners'[o].type = owners[o].type /\ owners'[o].count = hHeld[r]
        BY <3>1
      <4>4. o \notin stale' => r \notin rAged
        BY <3>1, <3>3 DEF Writing
      <4> QED BY <4>1, <4>2, <4>3, <4>4
    <3> QED BY <3>1, <3>3, <3>4, <3>5, <3>6 DEF Alone, Rested, Left, R!Quiet
  <2>8. CASE R!DeleteOwner(r)
    <3>1. owners'[o] = None
      BY <1>2, <2>8, OwnerDeleted
    <3> QED BY <3>1
  <2>9. CASE R!FindOwner(r) \/ R!Load(r)
    <3>1. hPc[r] \in {"owner", "load"} /\ UNCHANGED <<owners, lists, torn, stale, runs>>
      BY <2>9, RuleReads DEF R!FindOwner, R!Load, RuleRead
    <3>2. R!Replacing(o)' = R!Replacing(o) /\ r \notin R!Replacing(o)
      BY <2>0, <3>1, RuleGoingOn DEF RowsAndCount, RuleGoesOn
    <3> QED BY <2>k, <3>1, <3>2, ListKept DEF ListsInv
  <2>10. CASE R!CountExecution(r)
    <3>1. /\ hPc[r] = "executed" /\ hPc'[r] = "done" /\ UNCHANGED <<lists, torn, stale>> /\ owners[o] # None
          /\ owners'[o] = [type |-> owners[o].type, count |-> owners[o].count + 1]
      BY <1>2, <2>10, ExecutionCounted
    <3>2. R!Replacing(o)' = R!Replacing(o) /\ r \notin R!Replacing(o)
      BY <2>0, <3>1 DEF RowsAndCount
    <3>3. owners'[o].type = owners[o].type /\ owners[o].type # "dynamic"
      BY <1>2, <3>1 DEF Families, R!OfWorkflows
    <3>4. Alone(o) /\ Rested(o)
      BY <3>1 DEF ListsInv
    <3> QED BY <2>k, <3>1, <3>2, <3>3, <3>4, ListKept
  <2>11. CASE R!Refused(r)
    <3>1. /\ UNCHANGED <<owners, lists, torn, stale, runs>>
          /\ hPc'[r] = "done" /\ hAnswer'[r] = "error"
      <4>1. hPc[r] \notin {"idle", "done"} /\ R!Reply(r, "error") /\ "error" \in RuleAnswers
        BY <2>11 DEF R!Refused, R!Fails, RuleAnswers
      <4> QED BY <2>11, <4>1, RuleReads, RuleReplies DEF RuleRead
    <3>2. Alone(o) /\ Rested(o)
      BY <3>1 DEF ListsInv
    <3>3. CASE r \notin R!Replacing(o)
      <4>1. R!Replacing(o)' = R!Replacing(o)
        BY <2>0, <3>1, <3>3 DEF RowsAndCount
      <4> QED BY <2>k, <3>1, <3>2, <3>3, <4>1, ListKept
    <3>4. CASE r \in R!Replacing(o)
      <4>1. R!Replacing(o) = {r} /\ Writing(r, o)
        BY <3>2, <3>4 DEF Alone
      <4>2. R!Replacing(o)' = {} /\ o \in stale'
        BY <2>0, <3>1, <4>1 DEF RowsAndCount, Writing
      <4>3. \A row \in lists[o] : row.by = r /\ row.item \in hCall[r].list
        BY <4>1 DEF Writing
      <4>4. R!Items(o)' \subseteq hCall'[r].list
        BY <2>0, <2>a, <3>1, <4>3
      <4> QED BY <3>1, <4>2, <4>3, <4>4 DEF Alone, Rested, Left, R!Quiet
    <3> QED BY <3>3, <3>4
  <2>12. ~R!Start(r) /\ ~R!SaveContact(r)
    <3>1. R!Start(r) => hPc[r] = "idle"
      BY DEF R!Start, R!StartWith, R!Begin
    <3> QED BY <1>2, <3>1, ContactSaved
  <2> QED BY <2>1, <2>2, <2>3, <2>4, <2>5, <2>6, <2>7, <2>8, <2>9, <2>10, <2>11, <2>12 DEF RuleStep
<1> QED BY <1>1, <1>2

LEMMA ExecutionsStep ==
    ASSUME RulesTyped, BegunFirst, Families, Executions, NEW r \in Requests, RuleStep(r)
    PROVE  Executions'
<1> SUFFICES ASSUME NEW o \in R!Owners, owners'[o] # None, owners'[o].type \in R!OfWorkflows
             PROVE  owners'[o].count = Cardinality(Runs(o)')
  BY DEF Executions, R!Owners, R!OfWorkflows
<1>1. CASE hPc[r] \in {"idle", "saveContact"} \/ o # R!Owner(r)
  <2>1. owners'[o] = owners[o] /\ Runs(o)' = Runs(o)
    BY <1>1, Elsewhere
  <2> QED BY <2>1 DEF Executions
<1>2. CASE hPc[r] \notin {"idle", "saveContact"} /\ o = R!Owner(r)
  <2>0. owners[o] # None => owners[o].type \in R!OfWorkflows /\ owners[o].count = Cardinality(Runs(o))
    <3>1. owners[o] # None => SameFamily(owners[o].type, owners'[o].type)
      BY FamilyStays
    <3> QED BY <3>1 DEF SameFamily, R!OfSegments, R!OfWorkflows, Executions
  <2>1. CASE R!CreateOwner(r)
    <3>1. hPc[r] = "newOwner" /\ o = r /\ runs' = runs /\ owners[o] = None /\ Runs(o) = {}
      BY <1>2, <2>1, OwnerCreated, NotBegun
    <3>2. owners'[r] = [type |-> hCall[r].type, count |-> 0]
      BY <2>1, <3>1, OwnerCreated
    <3>3. Runs(o)' = {}
      BY <3>1 DEF Runs
    <3> QED BY <3>1, <3>2, <3>3, FS_EmptySet
  <2>2. CASE R!WriteOwner(r)
    <3> DEFINE type == IF hCall[r].type = None THEN owners[o].type ELSE hCall[r].type
    <3>1. owners[o] # None /\ runs' = runs /\ owners'[o] = [type |-> type, count |-> owners[o].count]
      BY <1>2, <2>2, OwnerWritten
    <3> HIDE DEF type
    <3>2. owners'[o].count = owners[o].count /\ Runs(o)' = Runs(o)
      BY <3>1 DEF Runs
    <3> QED BY <2>0, <3>1, <3>2
  <2>3. CASE RuleRead(r) \/ R!DropRows(r) \/ R!CreateRow(r)
    <3>1. UNCHANGED <<owners, runs>>
      BY <2>3, RuleReads, RowsDropped, RowCreated
    <3> QED BY <2>0, <3>1 DEF Runs
  <2>4. CASE R!WriteCount(r)
    <3>1. hPc[r] = "writeCount" /\ owners[o] # None
      BY <1>2, <2>4, RuleCountWritten
    <3>2. hCall[r].type = "dynamic" /\ R!Fits(hCall[r], owners[o].type)
      BY <1>2, <3>1 DEF RulesTyped, PlacedRule, R!CountsNow, Families, Replacement, RowsAndCount
    <3>3. SameFamily(owners[o].type, "dynamic")
      <4>1. hCall[r].type # None /\ owners[o].type \in R!Types
        BY <2>0, <3>1, <3>2, NoOwner DEF R!Types, R!OfSegments
      <4> QED BY <3>2, <4>1, FitsSets
    <3> QED BY <2>0, <3>1, <3>3 DEF SameFamily, R!OfSegments, R!OfWorkflows
  <2>5. CASE R!DeleteOwner(r)
    <3>1. owners'[o] = None
      BY <1>2, <2>5, OwnerDeleted
    <3> QED BY <3>1
  <2>6. CASE R!CountExecution(r)
    <3>1. /\ hPc[r] = "executed" /\ owners[o] # None /\ runs' = runs \cup {<<r, o>>}
          /\ owners'[o] = [type |-> owners[o].type, count |-> owners[o].count + 1]
      BY <1>2, <2>6, ExecutionCounted
    <3>2. <<r, o>> \notin runs
      BY <3>1 DEF BegunFirst
    <3>3. Runs(o)' = Runs(o) \cup {<<r, o>>} /\ <<r, o>> \notin Runs(o)
      BY <3>1, <3>2 DEF Runs
    <3>4. IsFiniteSet(Runs(o))
      <4>1. Runs(o) \subseteq runs /\ IsFiniteSet(runs)
        BY DEF Runs, BegunFirst
      <4> QED BY <4>1, FS_Subset
    <3>5. Cardinality(Runs(o)') = Cardinality(Runs(o)) + 1
      BY <3>3, <3>4, FS_AddElement
    <3>6. owners'[o].count = owners[o].count + 1
      BY <3>1
    <3> QED BY <2>0, <3>1, <3>5, <3>6
  <2>7. ~R!SaveContact(r)
    BY <1>2, ContactSaved
  <2> QED BY <2>1, <2>2, <2>3, <2>4, <2>5, <2>6, <2>7, RuleCases DEF RuleWrite
<1> QED BY <1>1, <1>2

LEMMA RuleInit == R!Init => RuleInv
<1> SUFFICES ASSUME R!Init PROVE RuleInv
  OBVIOUS
<1>1. /\ hPc = [r \in Requests |-> "idle"] /\ hCall = [r \in Requests |-> R!NoCall]
      /\ hHeld = [r \in Requests |-> None] /\ hAnswer = [r \in Requests |-> "none"]
      /\ torn = {} /\ stale = {} /\ rAged = {} /\ runs = {} /\ valueOf = Contacts
  BY DEF R!Init, R!HandlersInit
<1>a. Contacts \in [DOMAIN Contacts -> R!Values] /\ R!IsFiniteSet(DOMAIN Contacts)
  BY PartsAssumption DEF R!RulesetsAssumption
<1>2. ASSUME NEW o \in DOMAIN SeedOwners
      PROVE  /\ SeedOwners[o].type \in R!Types /\ SeedOwners[o].list \subseteq R!Criterion \cup R!Action
             /\ R!Initial(o) \in [type: R!Types, count: Nat]
             /\ R!Initial(o).type = SeedOwners[o].type
             /\ R!Initial(o).count = IF SeedOwners[o].type = "dynamic" THEN R!Count(SeedOwners[o].list, Contacts) ELSE 0
  <2>1. R!IsSegment(SeedOwners[o].type, SeedOwners[o].list) \/ R!IsWorkflow(SeedOwners[o].type, SeedOwners[o].list)
    BY <1>2, PartsAssumption DEF R!RulesetsAssumption
  <2>2. SeedOwners[o].type \in R!Types /\ SeedOwners[o].list \subseteq R!Criterion \cup R!Action
    BY <2>1, Zenon DEF R!IsSegment, R!IsWorkflow, R!Types
  <2> QED BY <1>a, <2>2, CountIsNat DEF R!Initial
<1>3. owners \in OwnerTable
  BY <1>2 DEF R!Init, OwnerTable
<1>4. ASSUME NEW o \in DOMAIN SeedOwners
      PROVE  /\ o \in R!Owners /\ owners[o] = R!Initial(o)
             /\ lists[o] = {[by |-> o, item |-> i] : i \in SeedOwners[o].list}
             /\ R!Items(o) = SeedOwners[o].list
  <2> DEFINE seed == SeedOwners[o].list
  <2>1. /\ o \in R!Owners /\ owners[o] = R!Initial(o)
        /\ lists[o] = {[by |-> o, item |-> i] : i \in SeedOwners[o].list}
    BY <1>4 DEF R!Init, R!Owners
  <2>2. lists[o] = {[by |-> o, item |-> i] : i \in seed}
    BY <2>1
  <2> HIDE DEF seed
  <2>3. \A row \in lists[o] : row.item \in seed
    BY <2>2
  <2>4. {row.item : row \in lists[o]} = seed
    <3>1. ASSUME NEW i \in seed PROVE i \in {row.item : row \in lists[o]}
      <4>1. [by |-> o, item |-> i] \in lists[o] /\ [by |-> o, item |-> i].item = i
        BY <2>2
      <4> QED BY <4>1
    <3> QED BY <2>3, <3>1
  <2> QED BY <2>1, <2>4 DEF R!Items, seed
<1>5. \A o \in R!Owners : o \notin DOMAIN SeedOwners => owners[o] = None /\ lists[o] = {}
  BY DEF R!Init
<1>6. lists \in RowTable
  <2>1. ASSUME NEW o \in R!Owners PROVE lists[o] \subseteq R!Rows
    <3>1. CASE o \in DOMAIN SeedOwners
      BY <1>2, <1>4, <3>1 DEF R!Rows
    <3> QED BY <1>5, <3>1
  <2> QED BY <2>1 DEF R!Init, RowTable
<1>7. RulesTyped
  BY <1>1, <1>a, <1>3, <1>6 DEF RulesTyped, R!TypeOK, R!Handling, PlacedRule, RowsAndCount, Replacement, OwnerTable, RowTable
<1>8. BegunFirst
  <2>1. \A o \in R!Owners : (owners[o] # None \/ lists[o] # {}) => o \in DOMAIN SeedOwners
    BY <1>5
  <2>2. \A o \in DOMAIN SeedOwners : owners[o] # None
    BY <1>2, <1>4, NoOwner
  <2>3. \A o \in R!Owners : \A row \in lists[o] : row.by \notin Requests
    <3>1. ASSUME NEW o \in R!Owners, NEW row \in lists[o] PROVE row.by \notin Requests
      <4>1. o \in DOMAIN SeedOwners
        BY <1>5, <3>1
      <4>2. row.by = o
        BY <1>4, <3>1, <4>1
      <4> QED BY <4>1, <4>2, NoOwner
    <3> QED BY <3>1
  <2>4. IsFiniteSet(runs)
    BY <1>1, FS_EmptySet
  <2> QED BY <1>1, <2>1, <2>2, <2>3, <2>4 DEF BegunFirst, Begun, Aimed, Replacement, RowsAndCount
<1>9. Families
  BY <1>1 DEF Families, Replacement, RowsAndCount
<1>10. ListsInv
  <2> SUFFICES ASSUME NEW o \in R!Owners, owners[o] # None PROVE Alone(o) /\ Rested(o)
    BY DEF ListsInv
  <2>1. o \in DOMAIN SeedOwners /\ R!Replacing(o) = {}
    BY <1>1, <1>5 DEF R!Replacing, R!At
  <2>2. \A row \in lists[o] : row.by = o /\ row.by \notin Requests
    BY <1>4, <2>1, NoOwner
  <2>3. owners[o].type = "dynamic" => owners[o].count = R!Count(R!Items(o), valueOf)
    BY <1>1, <1>2, <1>4, <2>1
  <2> QED BY <2>1, <2>2, <2>3 DEF Alone, Rested
<1>11. Executions
  <2> SUFFICES ASSUME NEW o \in R!Owners, owners[o] # None, owners[o].type \in R!OfWorkflows
               PROVE  owners[o].count = Cardinality(Runs(o))
    BY DEF Executions
  <2>1. o \in DOMAIN SeedOwners /\ Runs(o) = {}
    BY <1>1, <1>5 DEF Runs
  <2>2. owners[o].count = 0
    BY <1>2, <1>4, <2>1 DEF R!OfWorkflows
  <2> QED BY <2>1, <2>2, FS_EmptySet
<1> QED BY <1>7, <1>8, <1>9, <1>10, <1>11 DEF RuleInv

LEMMA RuleInvStep == RuleInv /\ [R!Next]_R!vars => RuleInv'
<1> SUFFICES ASSUME RuleInv, [R!Next]_R!vars PROVE RuleInv'
  OBVIOUS
<1>1. CASE R!Next
  <2>1. PICK r \in Requests : RuleStep(r)
    BY <1>1 DEF R!Next, RuleStep
  <2> QED BY <2>1, RulesTypedStep, BegunFirstStep, FamiliesStep, ListsStep, ExecutionsStep DEF RuleInv
<1>2. CASE UNCHANGED R!vars
  <2>1. UNCHANGED <<hPc, hCall, hHeld, hAnswer, owners, lists, valueOf, torn, stale, rAged, runs>>
    BY <1>2 DEF R!vars, R!handlers, R!tables, R!history
  <2>2. RulesTyped'
    BY <2>1 DEF RuleInv, RulesTyped, R!TypeOK, R!Handling, PlacedRule, R!Kind, R!CountsNow
  <2>3. BegunFirst' /\ Families' /\ Executions'
    BY <2>1 DEF RuleInv, BegunFirst, Begun, Families, Executions, Runs, R!Owner, R!Kind
  <2>4. ListsInv'
    <3>1. ASSUME NEW o PROVE R!Replacing(o)' = R!Replacing(o) /\ R!Items(o)' = R!Items(o)
      BY <2>1 DEF R!Replacing, R!At, R!Owner, R!Kind, R!Items
    <3>2. ASSUME NEW o PROVE R!Count(R!Items(o), valueOf)' = R!Count(R!Items(o), valueOf)
      BY <2>1, <3>1, CountOfItems
    <3> QED BY <2>1, <3>1, <3>2 DEF RuleInv, ListsInv, Alone, Writing, Rested, Left, R!Quiet
  <2> QED BY <2>2, <2>3, <2>4 DEF RuleInv
<1> QED BY <1>1, <1>2

LEMMA RulesHold == RuleInv => R!ListsAreOneCalls /\ R!CountsHold
<1> SUFFICES ASSUME RuleInv PROVE R!ListsAreOneCalls /\ R!CountsHold
  OBVIOUS
<1>1. R!ListsAreOneCalls
  <2> SUFFICES ASSUME NEW o \in R!Owners, owners[o] # None, R!Quiet(o), o \notin torn
               PROVE  /\ R!Cardinality({row.by : row \in lists[o]}) <= 1
                      /\ \A row \in lists[o] :
                            row.by \in Requests =>
                                /\ R!Items(o) \subseteq hCall[row.by].list
                                /\ hAnswer[row.by] # "error" => R!Items(o) = hCall[row.by].list
    BY DEF R!ListsAreOneCalls
  <2>1. Rested(o)
    BY DEF RuleInv, ListsInv
  <2> DEFINE authors == {row.by : row \in lists[o]}
  <2>2. \A x, y \in authors : x = y
    BY <2>1 DEF Rested
  <2> HIDE DEF authors
  <2>3. Cardinality(authors) <= 1
    <3>1. CASE authors = {}
      BY <3>1, FS_EmptySet
    <3>2. CASE authors # {}
      <4>1. PICK b \in authors : authors = {b}
        BY <2>2, <3>2
      <4>2. Cardinality(authors) = 1
        BY <4>1, FS_Singleton
      <4> QED BY <4>2
    <3> QED BY <3>1, <3>2
  <2>4. R!Cardinality(authors) <= 1
    BY <2>3, RuleCardinality
  <2> QED BY <2>1, <2>4 DEF Rested, Left, authors
<1>2. R!CountsHold
  <2> SUFFICES ASSUME NEW o \in R!Owners, owners[o] # None
               PROVE  /\ (R!Segment(o) /\ R!Quiet(o) /\ o \notin torn \cup stale) =>
                            owners[o].count = R!Count(R!Items(o), valueOf)
                      /\ owners[o].type \in R!OfWorkflows =>
                            owners[o].count = R!Cardinality({x \in runs : x[2] = o})
    BY DEF R!CountsHold
  <2>1. (R!Segment(o) /\ R!Quiet(o) /\ o \notin torn \cup stale) => owners[o].count = R!Count(R!Items(o), valueOf)
    BY DEF RuleInv, ListsInv, Rested, R!Segment
  <2>2. owners[o].type \in R!OfWorkflows => owners[o].count = R!Cardinality({x \in runs : x[2] = o})
    BY RuleCardinality DEF RuleInv, Executions, Runs
  <2> QED BY <2>1, <2>2
<1> QED BY <1>1, <1>2

\* Rulesets alone, for any contacts, criteria, actions and calls, any statement
\* of which may fail: a list that no two calls wrote at a time is of one, and
\* all of that call's unless it was answered with an error; a dynamic segment's
\* stored count is that of its criteria unless these or the contacts they
\* select changed and were not counted since; a workflow's is that of its
\* executions (segments.service.ts, workflows.service.ts).
THEOREM RulesHoldAlone == R!Spec => [](R!ListsAreOneCalls /\ R!CountsHold)
<1>1. R!Spec => []RuleInv
  BY RuleInit, RuleInvStep, PTL DEF R!Spec
<1> QED BY <1>1, RulesHold, PTL

LEMMA RulesBeside == MCSpec => [](part = "rulesets" => RuleInv)
<1> DEFINE Here == part = "rulesets" => RuleInv
<1>1. MCInit => Here
  BY RuleInit DEF MCInit
<1>2. Here /\ [MCNext]_<<part, hVars, vars, tVars, cVars, sVars, mVars, rVars>> => Here'
  <2> SUFFICES ASSUME Here, [MCNext]_<<part, hVars, vars, tVars, cVars, sVars, mVars, rVars>>,
                      part' = "rulesets"
               PROVE  RuleInv'
    OBVIOUS
  <2>1. part = "rulesets" /\ RuleInv
    BY DEF MCNext
  <2>2. [R!Next]_R!vars
    BY <2>1 DEF MCNext, R!vars, R!handlers, R!tables, R!history, hVars, rVars
  <2> QED BY <2>1, <2>2, RuleInvStep
<1>3. MCSpec => []Here
  <2> HIDE DEF Here
  <2> QED BY <1>1, <1>2, PTL DEF MCSpec
<1> QED BY <1>3

\* The same where other components may run in its place.
THEOREM RulesHolding == MCSpec => []RulesetsHold
<1>1. (part = "rulesets" => RuleInv) => RulesetsHold
  BY RulesHold DEF RulesetsHold
<1> QED BY <1>1, RulesBeside, PTL

-----------------------------------------------------------------------------
(***************************************************************************)
(* Campaigns                                                               *)
(***************************************************************************)

LEMMA EventCardinality == ASSUME NEW X PROVE M!Cardinality(X) = Cardinality(X)
BY DEF M!Cardinality, Cardinality

LEMMA EventFinite == ASSUME NEW X PROVE M!IsFiniteSet(X) = IsFiniteSet(X)
BY Zenon DEF M!IsFiniteSet, IsFiniteSet

Reporting == {"send", "event", "updateSend", "total"}

\* Where a request is says what it was called with, what it has read and
\* whether its event is stored: one that is stored belongs to a send that is
\* there.
PlacedCampaign(r) ==
    /\ hPc[r] = "idle" => hCall[r] = M!NoCall
    /\ hPc[r] # "idle" => hCall[r] \in CampaignCalls
    /\ hPc[r] \in {"toSegment", "newCampaign"} => M!Kind(r) = "createCampaign"
    /\ hPc[r] = "campaign" => M!Kind(r) \in {"updateCampaign", "removeCampaign"}
    /\ hPc[r] = "writeCampaign" => M!Kind(r) = "updateCampaign"
    /\ hPc[r] = "deleteCampaign" => M!Kind(r) = "removeCampaign"
    /\ hPc[r] \in {"segment", "deleteSegment"} => M!Kind(r) = "removeSegment"
    /\ hPc[r] \in Reporting => M!Kind(r) = "record"
    /\ hPc[r] = "event" => hHeld[r] \in M!Send
    /\ hPc[r] = "updateSend" => hCall[r].type \in M!Timed
    /\ hPc[r] = "total" => hCall[r].type \in M!Counted
    /\ events[r] # 0 => /\ M!Kind(r) = "record" /\ sends[hCall[r].send] # None
                        /\ hPc[r] \in {"updateSend", "total", "done"}
                        /\ events[r] <= reported
    /\ hPc[r] \in {"updateSend", "total"} /\ sends[hCall[r].send] # None => events[r] # 0

\* A send is there as long as its campaign is.
SendsOfCampaigns == \A s \in M!Sends : sends[s] # None <=> campaigns[SeedSends[s]] # None

CampaignsTyped ==
    /\ M!TypeOK /\ hHeld = [q \in Requests |-> hHeld[q]]
    /\ SendsOfCampaigns
    /\ \A r \in Requests : PlacedCampaign(r)

CampaignStep(r) ==
    \/ M!Start(r)
    \/ M!FindSegment(r) \/ M!FindCampaign(r) \/ M!CreateCampaign(r) \/ M!WriteCampaign(r)
    \/ M!DeleteCampaign(r) \/ M!DeleteSegment(r)
    \/ M!FindSend(r) \/ M!CreateEvent(r) \/ M!UpdateSend(r) \/ M!UpdateTotal(r)

LEMMA CampaignCallFields ==
    ASSUME NEW c \in CampaignCalls
    PROVE  /\ c.kind \in {"createCampaign", "updateCampaign", "removeCampaign", "removeSegment", "record"}
           /\ c.kind \in {"createCampaign", "updateCampaign", "removeSegment"} => c.segment \in Segments
           /\ c.kind \in {"updateCampaign", "removeCampaign"} => c.campaign \in M!CampaignNames
           /\ c.kind = "record" => c.send \in M!Sends /\ c.type \in M!EventTypes
<1>1. c \in M!CampaignCall \cup M!EventCall
  BY PartsAssumption DEF M!CampaignsAssumption
<1> QED BY <1>1 DEF M!CampaignCall, M!EventCall

LEMMA NoCampaign ==
    /\ None \notin M!Campaign /\ None \notin M!Send
    /\ DOMAIN SeedCampaigns \cap Requests = {}
    /\ \A c \in DOMAIN SeedCampaigns : SeedCampaigns[c] \in Segments
    /\ \A s \in M!Sends : SeedSends[s] \in DOMAIN SeedCampaigns
    /\ M!NoCall.kind = "none"
BY PartsAssumption, Zenon DEF M!CampaignsAssumption, M!NoCall

CampaignLabels ==
    {"idle", "done"} \cup
    {"toSegment", "newCampaign", "campaign", "writeCampaign", "deleteCampaign",
     "segment", "deleteSegment", "send", "event", "updateSend", "total"}
CampaignAnswers == {"none", "ok", "notFound", "forbidden", "error"}

\* What a step leaves of the handlers: the other requests stay as they are.
CampaignMoved(r) ==
    /\ hPc' \in [Requests -> CampaignLabels] /\ hAnswer' \in [Requests -> CampaignAnswers]
    /\ hCall' \in [Requests -> {M!NoCall} \cup CampaignCalls]
    /\ hHeld' = [q \in Requests |-> hHeld'[q]]
    /\ \A q \in Requests \ {r} : hPc'[q] = hPc[q] /\ hCall'[q] = hCall[q] /\ hHeld'[q] = hHeld[q]
    /\ hPc[r] = "idle" => hCall'[r] \in CampaignCalls
    /\ hPc[r] # "idle" => hCall'[r] = hCall[r]
    /\ hPc[r] # "done" /\ hPc'[r] # "idle"

LEMMA CampaignContinues ==
    ASSUME CampaignsTyped, NEW r \in Requests, hPc[r] \notin {"idle", "done"},
           NEW label \in CampaignLabels \ {"idle", "done"}, NEW what, M!Continue(r, label, what)
    PROVE  CampaignMoved(r) /\ hPc'[r] = label /\ hHeld'[r] = what
BY DEF M!Continue, CampaignsTyped, M!TypeOK, M!Handling, CampaignLabels, CampaignAnswers, CampaignMoved

LEMMA CampaignGoes ==
    ASSUME CampaignsTyped, NEW r \in Requests, hPc[r] \notin {"idle", "done"},
           NEW label \in CampaignLabels \ {"idle", "done"}, M!Goto(r, label)
    PROVE  CampaignMoved(r) /\ hPc'[r] = label /\ hHeld'[r] = hHeld[r]
BY CampaignContinues DEF M!Goto

LEMMA CampaignReplies ==
    ASSUME CampaignsTyped, NEW r \in Requests, hPc[r] \notin {"idle", "done"},
           NEW what \in CampaignAnswers, M!Reply(r, what)
    PROVE  CampaignMoved(r) /\ hPc'[r] = "done"
BY DEF M!Reply, CampaignsTyped, M!TypeOK, M!Handling, CampaignLabels, CampaignAnswers, CampaignMoved

LEMMA CampaignBegins ==
    ASSUME CampaignsTyped, NEW r \in Requests, NEW c \in CampaignCalls,
           NEW label \in CampaignLabels \ {"idle", "done"}, M!Begin(r, c, label)
    PROVE  CampaignMoved(r) /\ hPc[r] = "idle" /\ hPc'[r] = label /\ hCall'[r] = c
BY DEF M!Begin, CampaignsTyped, M!TypeOK, M!Handling, CampaignLabels, CampaignAnswers, CampaignMoved

LEMMA CampaignMoves ==
    ASSUME CampaignsTyped, NEW r \in Requests, CampaignStep(r)
    PROVE  CampaignMoved(r)
<1> USE CampaignContinues, CampaignGoes, CampaignReplies, CampaignBegins
    DEF M!Fails, CampaignLabels, CampaignAnswers
<1>1. CASE M!Start(r)
  BY <1>1 DEF M!Start, M!StartWith
<1>2. CASE M!FindSegment(r)
  BY <1>2 DEF M!FindSegment
<1>3. CASE M!FindCampaign(r)
  BY <1>3 DEF M!FindCampaign
<1>4. CASE M!CreateCampaign(r)
  BY <1>4 DEF M!CreateCampaign
<1>5. CASE M!WriteCampaign(r)
  BY <1>5 DEF M!WriteCampaign
<1>6. CASE M!DeleteCampaign(r)
  BY <1>6 DEF M!DeleteCampaign
<1>7. CASE M!DeleteSegment(r)
  BY <1>7 DEF M!DeleteSegment
<1>8. CASE M!FindSend(r)
  BY <1>8 DEF M!FindSend
<1>9. CASE M!CreateEvent(r)
  BY <1>9 DEF M!CreateEvent, M!ToTotal
<1>10. CASE M!UpdateSend(r)
  BY <1>10 DEF M!UpdateSend, M!ToTotal
<1>11. CASE M!UpdateTotal(r)
  BY <1>11 DEF M!UpdateTotal
<1> QED BY <1>1, <1>2, <1>3, <1>4, <1>5, <1>6, <1>7, <1>8, <1>9, <1>10, <1>11 DEF CampaignStep

LEMMA CampaignHandled ==
    ASSUME NEW r, CampaignMoved(r)
    PROVE  M!Handling({"toSegment", "newCampaign", "campaign", "writeCampaign", "deleteCampaign",
                       "segment", "deleteSegment", "send", "event", "updateSend", "total"},
                      CampaignCalls, {})'
BY DEF M!Handling, CampaignMoved, CampaignLabels, CampaignAnswers

\* The campaigns there are at first keep their places and their totals.
TotalsKept ==
    \A c \in DOMAIN SeedCampaigns :
        /\ campaigns'[c] # None <=> campaigns[c] # None
        /\ campaigns[c] # None => campaigns'[c].totals = campaigns[c].totals

LEMMA CampaignCreated ==
    ASSUME CampaignsTyped, NEW r \in Requests, M!CreateCampaign(r)
    PROVE  M!TypeOK' /\ TotalsKept
<1>1. PlacedCampaign(r) /\ hPc[r] = "newCampaign" /\ CampaignMoved(r)
  BY CampaignMoves DEF CampaignsTyped, M!CreateCampaign, CampaignStep
<1>2. hCall[r].segment \in Segments
  BY <1>1, CampaignCallFields DEF PlacedCampaign, M!Kind
<1> DEFINE row == M!New(hCall[r].segment)
<1>3. row \in M!Campaign
  BY <1>2 DEF M!New, M!Campaign
<1>4. campaigns \in [M!CampaignNames -> M!Campaign \cup {None}] /\ r \in M!CampaignNames
  BY DEF CampaignsTyped, M!TypeOK, M!CampaignNames
<1>5. UNCHANGED campaigns \/ campaigns' = [campaigns EXCEPT ![r] = row]
  BY DEF M!CreateCampaign
<1> HIDE DEF row
<1>6. campaigns' \in [M!CampaignNames -> M!Campaign \cup {None}]
  BY <1>3, <1>4, <1>5
<1>7. r \notin DOMAIN SeedCampaigns /\ DOMAIN SeedCampaigns \subseteq M!CampaignNames
  BY NoCampaign DEF M!CampaignNames
<1>8. TotalsKept
  BY <1>4, <1>5, <1>7 DEF TotalsKept
<1> QED BY <1>1, <1>6, <1>8, CampaignHandled DEF M!CreateCampaign, CampaignsTyped, M!TypeOK

LEMMA CampaignWritten ==
    ASSUME CampaignsTyped, NEW r \in Requests, M!WriteCampaign(r)
    PROVE  M!TypeOK' /\ TotalsKept
<1> DEFINE c == hCall[r].campaign
<1>1. PlacedCampaign(r) /\ hPc[r] = "writeCampaign" /\ CampaignMoved(r)
  BY CampaignMoves DEF CampaignsTyped, M!WriteCampaign, CampaignStep
<1>2. hCall[r].segment \in Segments /\ c \in M!CampaignNames
  BY <1>1, CampaignCallFields DEF PlacedCampaign, M!Kind
<1>3. campaigns \in [M!CampaignNames -> M!Campaign \cup {None}]
  BY DEF CampaignsTyped, M!TypeOK
<1> DEFINE row == [campaigns[c] EXCEPT !.segment = hCall[r].segment]
<1>4. \/ UNCHANGED campaigns
      \/ campaigns[c] # None /\ campaigns' = [campaigns EXCEPT ![c] = row]
  BY DEF M!WriteCampaign
<1>5. CASE UNCHANGED campaigns
  BY <1>1, <1>5, CampaignHandled DEF M!WriteCampaign, CampaignsTyped, M!TypeOK, TotalsKept
<1>6. CASE campaigns[c] # None /\ campaigns' = [campaigns EXCEPT ![c] = row]
  <2>1. row \in M!Campaign /\ row.totals = campaigns[c].totals
    BY <1>2, <1>3, <1>6 DEF M!Campaign
  <2> HIDE DEF row, c
  <2>2. campaigns' \in [M!CampaignNames -> M!Campaign \cup {None}]
    BY <1>2, <1>3, <1>6, <2>1
  <2>3. \A d \in M!CampaignNames :
            /\ campaigns'[d] # None <=> campaigns[d] # None
            /\ campaigns[d] # None => campaigns'[d].totals = campaigns[d].totals
    BY <1>2, <1>3, <1>6, <2>1, NoCampaign
  <2>4. TotalsKept
    BY <2>3 DEF TotalsKept, M!CampaignNames
  <2> QED BY <1>1, <2>2, <2>4, CampaignHandled DEF M!WriteCampaign, CampaignsTyped, M!TypeOK
<1> QED BY <1>4, <1>5, <1>6

CampaignWrite(r) ==
    \/ M!CreateCampaign(r) \/ M!WriteCampaign(r) \/ M!DeleteCampaign(r) \/ M!DeleteSegment(r)
    \/ M!CreateEvent(r) \/ M!UpdateSend(r) \/ M!UpdateTotal(r)

LEMMA CampaignReads ==
    ASSUME CampaignsTyped, NEW r \in Requests, CampaignStep(r), ~CampaignWrite(r)
    PROVE  M!TypeOK' /\ UNCHANGED <<segments, campaigns, sends, events, reported>>
<1>1. CampaignMoved(r)
  BY CampaignMoves
<1>2. UNCHANGED M!tables
  BY DEF CampaignStep, CampaignWrite, M!Start, M!StartWith, M!FindSegment, M!FindCampaign, M!FindSend
<1>3. mixed' \in SUBSET M!Sends
  <2>1. M!FindSend(r) => hCall[r].send \in M!Sends
    BY CampaignCallFields DEF M!FindSend, CampaignsTyped, PlacedCampaign, Reporting, M!Kind
  <2> QED BY <2>1 DEF CampaignStep, CampaignWrite, M!Start, M!StartWith, M!FindSegment, M!FindCampaign,
             M!FindSend, CampaignsTyped, M!TypeOK
<1> QED BY <1>1, <1>2, <1>3, CampaignHandled DEF M!tables, CampaignsTyped, M!TypeOK

\* What a removal leaves: rows as they were, and the events of the sends that
\* are left.
Removing ==
    /\ \A s \in M!Sends : sends'[s] = sends[s] \/ sends'[s] = None
    /\ \A c \in M!CampaignNames : campaigns'[c] = campaigns[c] \/ campaigns'[c] = None
    /\ \A e \in Requests :
          /\ events'[e] = events[e] \/ events'[e] = 0
          /\ events'[e] # 0 => sends'[hCall[e].send] # None
          /\ events[e] # 0 /\ sends'[hCall[e].send] # None => events'[e] = events[e]
    /\ UNCHANGED <<reported, mixed>>

LEMMA CascadeRemoves ==
    ASSUME CampaignsTyped, NEW gone \in SUBSET M!CampaignNames, M!Cascade(gone), UNCHANGED mixed
    PROVE  /\ Removing /\ SendsOfCampaigns'
           /\ campaigns' \in [M!CampaignNames -> M!Campaign \cup {None}]
           /\ sends' \in [M!Sends -> M!Send \cup {None}]
           /\ events' \in [Requests -> Nat]
<1> DEFINE lost == {s \in M!Sends : SeedSends[s] \in gone}
<1>1. /\ campaigns \in [M!CampaignNames -> M!Campaign \cup {None}]
      /\ sends \in [M!Sends -> M!Send \cup {None}] /\ events \in [Requests -> Nat]
  BY DEF CampaignsTyped, M!TypeOK
<1>2. /\ campaigns' = [c \in M!CampaignNames |-> IF c \in gone THEN None ELSE campaigns[c]]
      /\ sends' = [s \in M!Sends |-> IF s \in lost THEN None ELSE sends[s]]
      /\ events' = [e \in Requests |-> IF events[e] # 0 /\ hCall[e].send \in lost THEN 0 ELSE events[e]]
      /\ UNCHANGED reported
  BY DEF M!Cascade
<1>3. \A s \in M!Sends : SeedSends[s] \in M!CampaignNames
  BY NoCampaign DEF M!CampaignNames
<1>4. ASSUME NEW e \in Requests, events[e] # 0
      PROVE  hCall[e].send \in M!Sends /\ sends[hCall[e].send] # None
  BY <1>4, CampaignCallFields DEF CampaignsTyped, PlacedCampaign, M!Kind
<1>5. SendsOfCampaigns'
  BY <1>2, <1>3 DEF SendsOfCampaigns, CampaignsTyped
<1>6. /\ campaigns' \in [M!CampaignNames -> M!Campaign \cup {None}]
      /\ sends' \in [M!Sends -> M!Send \cup {None}]
      /\ events' \in [Requests -> Nat]
  BY <1>1, <1>2
<1>7. \A e \in Requests :
          /\ events'[e] = events[e] \/ events'[e] = 0
          /\ events'[e] # 0 => sends'[hCall[e].send] # None
          /\ events[e] # 0 /\ sends'[hCall[e].send] # None => events'[e] = events[e]
  <2> HIDE DEF lost
  <2> QED BY <1>1, <1>2, <1>4
<1>8. /\ \A s \in M!Sends : sends'[s] = sends[s] \/ sends'[s] = None
      /\ \A c \in M!CampaignNames : campaigns'[c] = campaigns[c] \/ campaigns'[c] = None
  <2> HIDE DEF lost
  <2> QED BY <1>2
<1> QED BY <1>2, <1>5, <1>6, <1>7, <1>8 DEF Removing

LEMMA CampaignRemoved ==
    ASSUME CampaignsTyped, NEW r \in Requests, M!DeleteCampaign(r) \/ M!DeleteSegment(r)
    PROVE  M!TypeOK' /\ SendsOfCampaigns' /\ Removing /\ hPc'[r] = "done"
<1>1. PlacedCampaign(r) /\ CampaignMoved(r)
  BY CampaignMoves DEF CampaignsTyped, CampaignStep
<1>2. hPc[r] \in {"deleteCampaign", "deleteSegment"} /\ hPc'[r] = "done"
  BY CampaignReplies DEF M!DeleteCampaign, M!DeleteSegment, M!Fails, CampaignAnswers
<1>3. CASE UNCHANGED M!tables /\ UNCHANGED mixed
  <2>1. Removing /\ SendsOfCampaigns'
    BY <1>3 DEF M!tables, Removing, CampaignsTyped, SendsOfCampaigns, PlacedCampaign
  <2> QED BY <1>1, <1>2, <1>3, <2>1, CampaignHandled DEF M!tables, CampaignsTyped, M!TypeOK
<1>4. CASE /\ \E gone \in SUBSET M!CampaignNames : M!Cascade(gone)
           /\ segments' \in SUBSET Segments /\ UNCHANGED mixed
  <2>1. /\ Removing /\ SendsOfCampaigns'
        /\ campaigns' \in [M!CampaignNames -> M!Campaign \cup {None}]
        /\ sends' \in [M!Sends -> M!Send \cup {None}]
        /\ events' \in [Requests -> Nat]
    BY <1>4, CascadeRemoves
  <2> QED BY <1>1, <1>2, <1>4, <2>1, CampaignHandled DEF Removing, CampaignsTyped, M!TypeOK
<1>5. CASE M!DeleteCampaign(r)
  <2>1. hCall[r].campaign \in M!CampaignNames
    BY <1>1, <1>5, CampaignCallFields DEF M!DeleteCampaign, PlacedCampaign, M!Kind
  <2>2. {hCall[r].campaign} \in SUBSET M!CampaignNames
    BY <2>1
  <2>3. \/ UNCHANGED M!tables
        \/ M!Cascade({hCall[r].campaign}) /\ UNCHANGED segments
    BY <1>5 DEF M!DeleteCampaign
  <2> QED BY <1>3, <1>4, <1>5, <2>2, <2>3 DEF M!DeleteCampaign, CampaignsTyped, M!TypeOK
<1>6. CASE M!DeleteSegment(r)
  <2> DEFINE gone == {c \in M!CampaignNames : campaigns[c] # None /\ campaigns[c].segment = hCall[r].segment}
  <2>1. gone \in SUBSET M!CampaignNames
    OBVIOUS
  <2>2. \/ UNCHANGED M!tables
        \/ M!Cascade(gone) /\ segments' = segments \ {hCall[r].segment}
    BY <1>6 DEF M!DeleteSegment
  <2> HIDE DEF gone
  <2> QED BY <1>3, <1>4, <1>6, <2>1, <2>2 DEF M!DeleteSegment, CampaignsTyped, M!TypeOK
<1> QED BY <1>5, <1>6

\* The event is stored last; whether it sets a time is read off what the
\* request has found.
LEMMA EventCreated ==
    ASSUME CampaignsTyped, NEW r \in Requests, M!CreateEvent(r)
    PROVE  /\ M!TypeOK' /\ UNCHANGED <<campaigns, sends, mixed>>
           /\ hPc[r] = "event" /\ M!Kind(r) = "record" /\ hHeld[r] \in M!Send
           /\ events[r] = 0
           /\ \A q \in Requests \ {r} : events'[q] = events[q] /\ events[q] <= reported
           /\ \/ /\ sends[hCall[r].send] = None /\ hPc'[r] = "done" /\ UNCHANGED <<events, reported>>
              \/ /\ sends[hCall[r].send] # None
                 /\ reported' = reported + 1 /\ events'[r] = reported'
                 /\ \/ /\ hCall[r].type \in M!Timed \ hHeld[r].times
                       /\ hPc'[r] = "updateSend"
                    \/ /\ hCall[r].type \notin M!Timed \ hHeld[r].times
                       /\ hPc'[r] = IF hCall[r].type \in M!Counted THEN "total" ELSE "done"
<1>1. PlacedCampaign(r) /\ hPc[r] = "event" /\ CampaignMoved(r)
  BY CampaignMoves DEF CampaignsTyped, M!CreateEvent, CampaignStep
<1>2. events \in [Requests -> Nat] /\ reported \in Nat
  BY DEF CampaignsTyped, M!TypeOK
<1>3. events[r] = 0 /\ hHeld[r] \in M!Send /\ M!Kind(r) = "record"
  BY <1>1 DEF PlacedCampaign, Reporting
<1>4. \A q \in Requests : events[q] <= reported
  BY <1>2 DEF CampaignsTyped, PlacedCampaign
<1>5. CASE sends[hCall[r].send] = None
  <2>1. hPc'[r] = "done" /\ UNCHANGED <<segments, campaigns, sends, mixed, events, reported>>
    BY <1>1, <1>5, CampaignReplies DEF M!CreateEvent, M!Fails, CampaignAnswers
  <2> QED BY <1>1, <1>3, <1>4, <1>5, <2>1, CampaignHandled DEF CampaignsTyped, M!TypeOK
<1>6. CASE sends[hCall[r].send] # None
  <2>1. /\ reported' = reported + 1 /\ events' = [events EXCEPT ![r] = reported']
        /\ UNCHANGED <<segments, campaigns, sends, mixed>>
    BY <1>6 DEF M!CreateEvent
  <2>2. /\ events' \in [Requests -> Nat] /\ reported' \in Nat /\ events'[r] = reported'
        /\ \A q \in Requests \ {r} : events'[q] = events[q]
    BY <1>2, <2>1
  <2>3. CASE M!SetsTime(hHeld[r], hCall[r].type)
    <3>1. hPc'[r] = "updateSend"
      BY <1>1, <1>6, <2>3, CampaignGoes DEF M!CreateEvent, CampaignLabels
    <3> QED BY <1>1, <1>3, <1>4, <1>6, <2>1, <2>2, <2>3, <3>1, CampaignHandled
            DEF M!SetsTime, CampaignsTyped, M!TypeOK
  <2>4. CASE ~M!SetsTime(hHeld[r], hCall[r].type)
    <3>1. hPc'[r] = IF hCall[r].type \in M!Counted THEN "total" ELSE "done"
      BY <1>1, <1>6, <2>4, CampaignGoes, CampaignReplies
      DEF M!CreateEvent, M!ToTotal, CampaignLabels, CampaignAnswers
    <3> QED BY <1>1, <1>3, <1>4, <1>6, <2>1, <2>2, <2>4, <3>1, CampaignHandled
            DEF M!SetsTime, CampaignsTyped, M!TypeOK
  <2> QED BY <2>3, <2>4
<1> QED BY <1>5, <1>6

LEMMA SendUpdated ==
    ASSUME CampaignsTyped, NEW r \in Requests, M!UpdateSend(r)
    PROVE  /\ M!TypeOK' /\ UNCHANGED <<campaigns, events, reported, mixed>>
           /\ hPc[r] = "updateSend" /\ M!Kind(r) = "record" /\ hCall[r].send \in M!Sends
           /\ hCall[r].type \in M!Timed
           /\ \A s \in M!Sends \ {hCall[r].send} : sends'[s] = sends[s]
           /\ \/ /\ sends[hCall[r].send] = None /\ hPc'[r] = "done" /\ UNCHANGED sends
              \/ /\ sends[hCall[r].send] # None /\ sends'[hCall[r].send] # None
                 /\ sends'[hCall[r].send].times = sends[hCall[r].send].times \cup {hCall[r].type}
                 /\ sends'[hCall[r].send].status = IF hCall[r].type \in M!Deliveries THEN hCall[r].type
                                                   ELSE sends[hCall[r].send].status
                 /\ hPc'[r] = IF hCall[r].type \in M!Counted THEN "total" ELSE "done"
<1> DEFINE s == hCall[r].send
           type == hCall[r].type
           told == IF type \in {"sent", "delivered"} THEN type ELSE sends[s].status
           row == [status |-> told, times |-> sends[s].times \cup {type}]
<1>1. PlacedCampaign(r) /\ hPc[r] = "updateSend" /\ CampaignMoved(r)
  BY CampaignMoves DEF CampaignsTyped, M!UpdateSend, CampaignStep
<1>2. s \in M!Sends /\ type \in M!Timed /\ M!Kind(r) = "record"
  BY <1>1, CampaignCallFields DEF PlacedCampaign, Reporting, M!Kind
<1>3. sends \in [M!Sends -> M!Send \cup {None}]
  BY DEF CampaignsTyped, M!TypeOK
<1>4. CASE sends[s] = None
  <2>1. hPc'[r] = "done" /\ UNCHANGED <<segments, campaigns, sends, mixed, events, reported>>
    BY <1>1, <1>4, CampaignReplies DEF M!UpdateSend, M!Fails, CampaignAnswers
  <2> QED BY <1>1, <1>2, <1>4, <2>1, CampaignHandled DEF CampaignsTyped, M!TypeOK
<1>5. CASE sends[s] # None
  <2>1. sends' = [sends EXCEPT ![s] = row] /\ UNCHANGED <<segments, campaigns, events, reported, mixed>>
    BY <1>5 DEF M!UpdateSend
  <2>2. row \in M!Send
    <3>1. sends[s] \in M!Send
      BY <1>2, <1>3, <1>5
    <3>2. sends[s].status \in {"queued", "sent", "delivered"} /\ sends[s].times \in SUBSET M!Timed
      BY <3>1 DEF M!Send
    <3> QED BY <1>2, <3>2 DEF M!Send
  <2>3. hPc'[r] = IF type \in M!Counted THEN "total" ELSE "done"
    BY <1>1, <1>5, CampaignGoes, CampaignReplies
    DEF M!UpdateSend, M!ToTotal, CampaignLabels, CampaignAnswers
  <2>4. row.times = sends[s].times \cup {type} /\ row.status = told
    OBVIOUS
  <2>5. /\ sends' \in [M!Sends -> M!Send \cup {None}] /\ sends'[s] = row
        /\ \A t \in M!Sends \ {s} : sends'[t] = sends[t]
    <3> HIDE DEF row, s
    <3> QED BY <1>2, <1>3, <2>1, <2>2
  <2>6. M!TypeOK'
    <3> HIDE DEF row, s
    <3> QED BY <1>1, <2>1, <2>5, CampaignHandled DEF CampaignsTyped, M!TypeOK
  <2>7. row # None
    BY <2>2, NoCampaign
  <2>8. told = IF type \in M!Deliveries THEN type ELSE sends[s].status
    BY DEF M!Deliveries
  <2> HIDE DEF row, told
  <2> QED BY <1>1, <1>2, <1>5, <2>1, <2>3, <2>4, <2>5, <2>6, <2>7, <2>8
<1> QED BY <1>4, <1>5

LEMMA TotalUpdated ==
    ASSUME CampaignsTyped, NEW r \in Requests, M!UpdateTotal(r)
    PROVE  /\ M!TypeOK' /\ UNCHANGED <<sends, events, reported, mixed>>
           /\ hPc[r] = "total" /\ hPc'[r] = "done" /\ M!Kind(r) = "record"
           /\ hCall[r].send \in M!Sends /\ hCall[r].type \in M!Counted
           /\ \A c \in M!CampaignNames : campaigns'[c] # None <=> campaigns[c] # None
           /\ \A c \in M!CampaignNames \ {SeedSends[hCall[r].send]} : campaigns'[c] = campaigns[c]
           /\ campaigns[SeedSends[hCall[r].send]] # None =>
                 \A type \in M!Counted :
                    campaigns'[SeedSends[hCall[r].send]].totals[type] =
                       IF type = hCall[r].type THEN campaigns[SeedSends[hCall[r].send]].totals[type] + 1
                       ELSE campaigns[SeedSends[hCall[r].send]].totals[type]
<1> DEFINE c == SeedSends[hCall[r].send]
           type == hCall[r].type
<1>1. PlacedCampaign(r) /\ hPc[r] = "total" /\ CampaignMoved(r)
  BY CampaignMoves DEF CampaignsTyped, M!UpdateTotal, CampaignStep
<1>2. hCall[r].send \in M!Sends /\ type \in M!Counted /\ M!Kind(r) = "record"
  BY <1>1, CampaignCallFields DEF PlacedCampaign, Reporting, M!Kind
<1>3. campaigns \in [M!CampaignNames -> M!Campaign \cup {None}] /\ c \in M!CampaignNames
  BY <1>2, NoCampaign DEF CampaignsTyped, M!TypeOK, M!CampaignNames
<1>4. hPc'[r] = "done"
  BY <1>1, CampaignReplies DEF M!UpdateTotal, M!Fails, CampaignAnswers
<1>5. CASE campaigns[c] = None
  <2>1. UNCHANGED <<segments, campaigns, sends, mixed, events, reported>>
    BY <1>5 DEF M!UpdateTotal
  <2> QED BY <1>1, <1>2, <1>4, <1>5, <2>1, CampaignHandled DEF CampaignsTyped, M!TypeOK
<1>6. CASE campaigns[c] # None
  <2> DEFINE totals == [campaigns[c].totals EXCEPT ![type] = campaigns[c].totals[type] + 1]
             row == [campaigns[c] EXCEPT !.totals = totals]
  <2>1. campaigns[c] \in M!Campaign
    BY <1>3, <1>6
  <2>2. campaigns' = [campaigns EXCEPT ![c] = row] /\ UNCHANGED <<segments, sends, mixed, events, reported>>
    BY <1>6 DEF M!UpdateTotal, M!Incremented
  <2>3. campaigns[c].totals \in [M!Counted -> Nat]
    BY <2>1 DEF M!Campaign
  <2>4. /\ totals \in [M!Counted -> Nat]
        /\ \A t \in M!Counted :
              totals[t] = IF t = type THEN campaigns[c].totals[t] + 1 ELSE campaigns[c].totals[t]
    BY <1>2, <2>3
  <2> HIDE DEF totals
  <2>5. row \in M!Campaign /\ row.totals = totals
    BY <2>1, <2>4 DEF M!Campaign
  <2> HIDE DEF row, c
  <2>6. /\ campaigns' \in [M!CampaignNames -> M!Campaign \cup {None}] /\ campaigns'[c] = row
        /\ \A d \in M!CampaignNames \ {c} : campaigns'[d] = campaigns[d]
    BY <1>3, <2>2, <2>5
  <2>7. M!TypeOK'
    BY <1>1, <2>2, <2>6, CampaignHandled DEF CampaignsTyped, M!TypeOK
  <2>8. \A d \in M!CampaignNames : campaigns'[d] # None <=> campaigns[d] # None
    BY <1>3, <1>6, <2>5, <2>6, NoCampaign
  <2>9. \A t \in M!Counted :
           campaigns'[c].totals[t] = IF t = type THEN campaigns[c].totals[t] + 1 ELSE campaigns[c].totals[t]
    BY <2>4, <2>5, <2>6
  <2> QED BY <1>1, <1>2, <1>4, <2>2, <2>6, <2>7, <2>8, <2>9 DEF c
<1> QED BY <1>5, <1>6

\* Sends are lost for good; an event is kept as long as its send is there.
LEMMA CampaignTables ==
    ASSUME CampaignsTyped, NEW r \in Requests, CampaignStep(r)
    PROVE  /\ M!TypeOK' /\ SendsOfCampaigns' /\ reported <= reported' /\ mixed \subseteq mixed'
           /\ \A s \in M!Sends : sends[s] = None => sends'[s] = None
           /\ \A q \in Requests : (q # r \/ ~M!CreateEvent(r)) =>
                 /\ events'[q] # 0 => events'[q] = events[q] /\ sends'[hCall[q].send] # None
                 /\ events[q] # 0 /\ sends'[hCall[q].send] # None => events'[q] = events[q]
<1>0. /\ events \in [Requests -> Nat] /\ reported \in Nat
      /\ M!Sends = DOMAIN SeedSends /\ DOMAIN SeedCampaigns \subseteq M!CampaignNames
  BY DEF CampaignsTyped, M!TypeOK, M!Sends, M!CampaignNames
<1>1. ASSUME NEW q \in Requests, events[q] # 0
      PROVE  sends[hCall[q].send] # None /\ hCall[q].send \in M!Sends
  BY <1>1, CampaignCallFields DEF CampaignsTyped, PlacedCampaign, M!Kind
<1>2. CASE ~CampaignWrite(r)
  <2>1. UNCHANGED <<campaigns, sends, events, reported>> /\ M!TypeOK'
    BY <1>2, CampaignReads
  <2>2. mixed \subseteq mixed'
    BY <1>2 DEF CampaignStep, CampaignWrite, M!Start, M!StartWith, M!FindSegment, M!FindCampaign, M!FindSend
  <2> QED BY <1>0, <1>1, <2>1, <2>2 DEF CampaignsTyped, SendsOfCampaigns
<1>3. CASE M!CreateCampaign(r) \/ M!WriteCampaign(r)
  <2>1. UNCHANGED <<sends, events, reported, mixed>> /\ M!TypeOK' /\ TotalsKept
    BY <1>3, CampaignCreated, CampaignWritten DEF M!CreateCampaign, M!WriteCampaign
  <2>2. SendsOfCampaigns'
    BY <2>1, NoCampaign DEF CampaignsTyped, SendsOfCampaigns, TotalsKept
  <2> QED BY <1>0, <1>1, <2>1, <2>2
<1>4. CASE M!DeleteCampaign(r) \/ M!DeleteSegment(r)
  <2>1. M!TypeOK' /\ SendsOfCampaigns' /\ Removing
    BY <1>4, CampaignRemoved
  <2> QED BY <1>0, <1>1, <2>1 DEF Removing
<1>5. CASE M!CreateEvent(r)
  <2>1. /\ M!TypeOK' /\ UNCHANGED <<campaigns, sends, mixed>>
        /\ \A q \in Requests \ {r} : events'[q] = events[q]
        /\ reported' = reported \/ reported' = reported + 1
    BY <1>5, EventCreated
  <2> QED BY <1>0, <1>1, <1>5, <2>1 DEF CampaignsTyped, SendsOfCampaigns
<1>6. CASE M!UpdateSend(r)
  <2>1. /\ M!TypeOK' /\ UNCHANGED <<campaigns, events, reported, mixed>>
        /\ \A s \in M!Sends : sends'[s] # None <=> sends[s] # None
    BY <1>6, SendUpdated
  <2> QED BY <1>0, <1>1, <2>1 DEF CampaignsTyped, SendsOfCampaigns
<1>7. CASE M!UpdateTotal(r)
  <2>1. /\ M!TypeOK' /\ UNCHANGED <<sends, events, reported, mixed>>
        /\ \A c \in M!CampaignNames : campaigns'[c] # None <=> campaigns[c] # None
    BY <1>7, TotalUpdated
  <2>2. SendsOfCampaigns'
    BY <1>0, <2>1, NoCampaign DEF CampaignsTyped, SendsOfCampaigns
  <2> QED BY <1>0, <1>1, <2>1, <2>2
<1> QED BY <1>2, <1>3, <1>4, <1>5, <1>6, <1>7 DEF CampaignWrite

LEMMA SendFound ==
    ASSUME CampaignsTyped, NEW r \in Requests, M!FindSend(r)
    PROVE  /\ hPc[r] = "send" /\ UNCHANGED <<campaigns, sends, events, reported>>
           /\ \/ hPc'[r] = "done" /\ UNCHANGED mixed
              \/ /\ hPc'[r] = "event" /\ hHeld'[r] = sends[hCall[r].send] /\ sends[hCall[r].send] # None
                 /\ mixed' = IF \E q \in M!Recording(hCall[r].send) \ {r} : hPc[q] \in {"event", "updateSend"}
                             THEN mixed \cup {hCall[r].send} ELSE mixed
<1>1. hPc[r] = "send" /\ UNCHANGED <<campaigns, sends, events, reported>>
  BY DEF M!FindSend, M!tables
<1>2. CASE sends[hCall[r].send] = None
  <2>1. M!Reply(r, "notFound") /\ UNCHANGED mixed
    BY <1>2 DEF M!FindSend
  <2> QED BY <1>1, <2>1, CampaignReplies DEF CampaignAnswers
<1>3. CASE sends[hCall[r].send] # None
  <2>1. /\ M!Continue(r, "event", sends[hCall[r].send])
        /\ mixed' = IF \E q \in M!Recording(hCall[r].send) \ {r} : hPc[q] \in {"event", "updateSend"}
                    THEN mixed \cup {hCall[r].send} ELSE mixed
    BY <1>3 DEF M!FindSend
  <2> QED BY <1>1, <1>3, <2>1, CampaignContinues DEF CampaignLabels
<1> QED BY <1>2, <1>3

LEMMA OwnCampaignCall ==
    ASSUME CampaignsTyped, NEW r \in Requests, CampaignStep(r)
    PROVE  PlacedCampaign(r)'
<1>0. CampaignMoved(r) /\ PlacedCampaign(r)
  BY CampaignMoves DEF CampaignsTyped
<1>00. events \in [Requests -> Nat] /\ reported \in Nat /\ reported' \in Nat
       /\ reported <= reported' /\ sends \in [M!Sends -> M!Send \cup {None}]
  BY CampaignTables DEF CampaignsTyped, M!TypeOK
<1>a. /\ \A s \in M!Sends : sends[s] = None => sends'[s] = None
      /\ ~M!CreateEvent(r) =>
            /\ events'[r] # 0 => events'[r] = events[r] /\ sends'[hCall[r].send] # None
            /\ events[r] # 0 /\ sends'[hCall[r].send] # None => events'[r] = events[r]
  BY CampaignTables
<1> USE CampaignContinues, CampaignGoes, CampaignReplies, CampaignBegins, CampaignCallFields, NoCampaign
    DEF M!Fails, CampaignLabels, CampaignAnswers, CampaignMoved, PlacedCampaign, M!Kind, Reporting
<1>1. CASE M!Start(r)
  <2>1. ASSUME NEW kind, NEW label \in CampaignLabels \ {"idle", "done"}, M!StartWith(r, kind, label)
        PROVE  hPc'[r] = label /\ hCall'[r] \in CampaignCalls /\ hCall'[r].kind = kind
    BY <2>1 DEF M!StartWith
  <2>2. \/ hPc'[r] = "toSegment" /\ hCall'[r].kind = "createCampaign"
        \/ hPc'[r] = "campaign" /\ hCall'[r].kind \in {"updateCampaign", "removeCampaign"}
        \/ hPc'[r] = "segment" /\ hCall'[r].kind = "removeSegment"
        \/ hPc'[r] = "send" /\ hCall'[r].kind = "record"
    BY <1>1, <2>1 DEF M!Start
  <2>3. events'[r] = 0 /\ hPc[r] = "idle" /\ hCall'[r] \in CampaignCalls
    <3>1. hPc[r] = "idle"
      BY <1>1 DEF M!Start, M!StartWith, M!Begin
    <3>2. UNCHANGED events
      BY <1>1 DEF M!Start, M!StartWith, M!tables
    <3> QED BY <1>0, <3>1, <3>2
  <2> QED BY <1>0, <2>2, <2>3
<1>2. CASE M!FindSegment(r)
  <2>1. /\ events'[r] = 0 /\ hCall'[r] = hCall[r]
        /\ \/ hPc[r] = "toSegment" /\ hPc'[r] \in {"newCampaign", "done"}
           \/ hPc[r] = "segment" /\ hPc'[r] \in {"deleteSegment", "done"}
    BY <1>0, <1>2 DEF M!FindSegment, M!tables
  <2> QED BY <1>0, <2>1
<1>3. CASE M!FindCampaign(r)
  <2>1. /\ events'[r] = 0 /\ hCall'[r] = hCall[r] /\ hPc[r] = "campaign"
        /\ \/ hPc'[r] = "done"
           \/ hPc'[r] = IF hCall[r].kind = "updateCampaign" THEN "writeCampaign" ELSE "deleteCampaign"
    BY <1>0, <1>3 DEF M!FindCampaign, M!tables
  <2> QED BY <1>0, <2>1
<1>4. CASE M!CreateCampaign(r) \/ M!WriteCampaign(r) \/ M!DeleteCampaign(r) \/ M!DeleteSegment(r)
  <2>1. hPc[r] \in {"newCampaign", "writeCampaign", "deleteCampaign", "deleteSegment"} /\ hPc'[r] = "done"
    BY <1>4, CampaignRemoved DEF M!CreateCampaign, M!WriteCampaign, M!DeleteCampaign, M!DeleteSegment
  <2>2. ~M!CreateEvent(r)
    BY <2>1 DEF M!CreateEvent
  <2> QED BY <1>0, <1>a, <2>1, <2>2
<1>5. CASE M!FindSend(r)
  <2>1. /\ hPc[r] = "send" /\ hCall[r].kind = "record" /\ hCall[r].send \in M!Sends
        /\ events[r] = 0 /\ UNCHANGED events
    BY <1>0, <1>5 DEF M!FindSend, M!tables
  <2>2. \/ hPc'[r] = "done"
        \/ hPc'[r] = "event" /\ hHeld'[r] = sends[hCall[r].send] /\ sends[hCall[r].send] # None
    BY <1>5, <2>1, SendFound
  <2>3. sends[hCall[r].send] \in M!Send \cup {None}
    BY <1>00, <2>1
  <2> QED BY <1>0, <2>1, <2>2, <2>3
<1>6. CASE M!CreateEvent(r)
  <2>1. /\ UNCHANGED sends /\ hPc[r] = "event" /\ hCall[r].kind = "record" /\ events[r] = 0
        /\ \/ sends[hCall[r].send] = None /\ hPc'[r] = "done" /\ UNCHANGED <<events, reported>>
           \/ /\ sends[hCall[r].send] # None
              /\ reported' = reported + 1 /\ events'[r] = reported'
              /\ \/ hCall[r].type \in M!Timed /\ hPc'[r] = "updateSend"
                 \/ hPc'[r] = IF hCall[r].type \in M!Counted THEN "total" ELSE "done"
    BY <1>6, EventCreated
  <2> HIDE DEF CampaignLabels, CampaignAnswers
  <2> QED BY <1>0, <1>00, <2>1
<1>7. CASE M!UpdateSend(r)
  <2>1. /\ hPc[r] = "updateSend" /\ hCall[r].kind = "record" /\ hCall[r].send \in M!Sends
        /\ \/ hPc'[r] = "done"
           \/ hPc'[r] = "total" /\ hCall[r].type \in M!Counted
    BY <1>7, SendUpdated
  <2>2. ~M!CreateEvent(r)
    BY <2>1 DEF M!CreateEvent
  <2> QED BY <1>0, <1>00, <1>a, <2>1, <2>2
<1>8. CASE M!UpdateTotal(r)
  <2>1. hPc[r] = "total" /\ hPc'[r] = "done" /\ hCall[r].kind = "record"
    BY <1>8, TotalUpdated
  <2>2. ~M!CreateEvent(r)
    BY <2>1 DEF M!CreateEvent
  <2> QED BY <1>0, <1>00, <1>a, <2>1, <2>2
<1> QED BY <1>1, <1>2, <1>3, <1>4, <1>5, <1>6, <1>7, <1>8 DEF CampaignStep

LEMMA CampaignsTypedStep ==
    ASSUME CampaignsTyped, NEW r \in Requests, CampaignStep(r)
    PROVE  CampaignsTyped'
<1>0. CampaignMoved(r)
  BY CampaignMoves
<1>1. ASSUME NEW q \in Requests PROVE PlacedCampaign(q)'
  <2>1. CASE q = r
    BY <2>1, OwnCampaignCall
  <2>2. CASE q # r
    <3>1. /\ hPc'[q] = hPc[q] /\ hCall'[q] = hCall[q] /\ hHeld'[q] = hHeld[q]
          /\ PlacedCampaign(q)
      BY <1>0, <2>2 DEF CampaignMoved, CampaignsTyped
    <3>2. /\ events'[q] # 0 => events'[q] = events[q] /\ sends'[hCall[q].send] # None
          /\ events[q] # 0 /\ sends'[hCall[q].send] # None => events'[q] = events[q]
          /\ \A s \in M!Sends : sends[s] = None => sends'[s] = None
          /\ reported <= reported'
      BY <2>2, CampaignTables
    <3>3. events[q] \in Nat /\ reported \in Nat /\ reported' \in Nat
      BY CampaignTables DEF CampaignsTyped, M!TypeOK
    <3>4. M!Kind(q)' = M!Kind(q)
      BY <3>1 DEF M!Kind
    <3>5. hPc[q] \in Reporting => hCall[q].send \in M!Sends
      BY <3>1, CampaignCallFields DEF PlacedCampaign, Reporting, M!Kind
    <3> QED BY <3>1, <3>2, <3>3, <3>4, <3>5 DEF PlacedCampaign, Reporting
  <2> QED BY <2>1, <2>2
<1> QED BY <1>0, <1>1, CampaignTables DEF CampaignsTyped, CampaignMoved

-----------------------------------------------------------------------------
Between == {"event", "updateSend"}  \* a request has read a send it may yet write

\* Two requests have read a send they may write only if it is mixed.
OneBetween ==
    \A q, r \in Requests :
        hPc[q] \in Between /\ hPc[r] \in Between /\ hCall[q].send = hCall[r].send
          /\ hCall[q].send \notin mixed => q = r

\* What a request has read is what the send still is.
ReadIsCurrent ==
    \A r \in Requests :
        hPc[r] = "event" /\ hCall[r].send \notin mixed /\ sends[hCall[r].send] # None =>
            hHeld[r] = sends[hCall[r].send]

\* The times that are set are those of the types of the events stored, but for
\* the one whose request is about to set it.
TimesSet(s) ==
    \A type \in M!Timed :
        type \in sends[s].times <=> \E e \in M!EventsOf(s, type) : hPc[e] # "updateSend"

\* That one is the last, and the first of its type.
LastUpdates(s) ==
    \A e \in Requests : hPc[e] = "updateSend" /\ hCall[e].send = s =>
        /\ hCall[e].type \notin sends[s].times
        /\ \A f \in Requests \ {e} : events[f] # 0 /\ hCall[f].send = s => events[f] < events[e]

\* No event of the send's status came before the first of another time set.
StatusLatest(s) ==
    /\ sends[s].status = "queued" => sends[s].times \cap M!Deliveries = {}
    /\ sends[s].status # "queued" =>
          /\ sends[s].status \in sends[s].times
          /\ \A type \in M!Deliveries \cap sends[s].times :
                \E e \in M!EventsOf(s, type) :
                   \A f \in M!EventsOf(s, sends[s].status) : events[e] <= events[f]

Settled ==
    \A s \in M!Sends : sends[s] # None /\ s \notin mixed =>
        TimesSet(s) /\ LastUpdates(s) /\ StatusLatest(s)

EventInv == CampaignsTyped /\ OneBetween /\ ReadIsCurrent /\ Settled /\ M!TotalsCountEvents

\* A request that is about to write a send has found it, or stored its event.
LEMMA ComesBetween ==
    ASSUME CampaignsTyped, NEW r \in Requests, CampaignStep(r), hPc'[r] \in Between
    PROVE  /\ hCall'[r] = hCall[r]
           /\ \/ M!FindSend(r) /\ hPc'[r] = "event"
              \/ M!CreateEvent(r) /\ hPc'[r] = "updateSend" /\ hPc[r] = "event"
<1>1. CampaignMoved(r)
  BY CampaignMoves
<1>2. M!FindSend(r) \/ M!CreateEvent(r)
  BY CampaignGoes, CampaignReplies, CampaignBegins, CampaignRemoved, SendUpdated, TotalUpdated
  DEF CampaignStep, M!Start, M!StartWith, M!FindSegment, M!FindCampaign, M!CreateCampaign, M!WriteCampaign,
      Between, CampaignLabels, CampaignAnswers, M!Fails
<1>3. CASE M!FindSend(r)
  <2>1. hPc[r] = "send" /\ hPc'[r] \in {"event", "done"}
    BY <1>3, SendFound
  <2> QED BY <1>1, <1>3, <2>1 DEF CampaignMoved, Between
<1>4. CASE M!CreateEvent(r)
  <2>1. hPc[r] = "event" /\ hPc'[r] \in {"updateSend", "total", "done"}
    BY <1>4, EventCreated
  <2> QED BY <1>1, <1>4, <2>1 DEF CampaignMoved, Between
<1> QED BY <1>2, <1>3, <1>4

LEMMA OneBetweenStep ==
    ASSUME CampaignsTyped, OneBetween, NEW r \in Requests, CampaignStep(r)
    PROVE  OneBetween'
<1>0. CampaignMoved(r) /\ mixed \subseteq mixed'
  BY CampaignMoves, CampaignTables
<1>1. ASSUME NEW q \in Requests \ {r}, hPc'[q] \in Between, hPc'[r] \in Between,
             hCall'[q].send = hCall'[r].send, hCall'[r].send \notin mixed'
      PROVE  FALSE
  <2>1. hPc[q] \in Between /\ hCall'[q] = hCall[q] /\ hCall'[r] = hCall[r]
    BY <1>0, <1>1, ComesBetween DEF CampaignMoved
  <2>2. CASE M!FindSend(r) /\ hPc'[r] = "event"
    <3>1. q \in M!Recording(hCall[r].send) \ {r}
      BY <1>1, <2>1 DEF M!Recording, M!At, Between
    <3>2. hCall[r].send \in mixed'
      BY <2>1, <2>2, <3>1, SendFound DEF Between
    <3> QED BY <1>1, <2>1, <3>2
  <2>3. CASE hPc[r] = "event"
    BY <1>0, <1>1, <2>1, <2>3 DEF OneBetween, Between
  <2> QED BY <1>1, <2>2, <2>3, ComesBetween
<1>2. ASSUME NEW p \in Requests \ {r}, NEW q \in Requests \ {r}
      PROVE  hPc'[p] = hPc[p] /\ hCall'[p] = hCall[p] /\ hPc'[q] = hPc[q] /\ hCall'[q] = hCall[q]
  BY <1>0 DEF CampaignMoved
<1> SUFFICES ASSUME NEW p \in Requests, NEW q \in Requests,
                    hPc'[p] \in Between, hPc'[q] \in Between, hCall'[p].send = hCall'[q].send,
                    hCall'[p].send \notin mixed'
             PROVE  p = q
  BY DEF OneBetween, Between
<1> QED BY <1>0, <1>1, <1>2 DEF OneBetween

LEMMA ReadIsCurrentStep ==
    ASSUME CampaignsTyped, OneBetween, ReadIsCurrent, NEW r \in Requests, CampaignStep(r)
    PROVE  ReadIsCurrent'
<1>0. CampaignMoved(r) /\ mixed \subseteq mixed'
  BY CampaignMoves, CampaignTables
<1> SUFFICES ASSUME NEW q \in Requests, hPc'[q] = "event", hCall'[q].send \notin mixed',
                    sends'[hCall'[q].send] # None
             PROVE  hHeld'[q] = sends'[hCall'[q].send]
  BY DEF ReadIsCurrent
<1>1. CASE q = r
  <2>1. M!FindSend(r) /\ hCall'[r] = hCall[r]
    BY <1>1, ComesBetween DEF Between
  <2> QED BY <1>1, <2>1, SendFound
<1>2. CASE q # r
  <2>1. hPc[q] = "event" /\ hCall'[q] = hCall[q] /\ hHeld'[q] = hHeld[q]
    BY <1>0, <1>2 DEF CampaignMoved
  <2>2. hCall[q].send \in M!Sends
    BY <2>1, CampaignCallFields DEF CampaignsTyped, PlacedCampaign, Reporting, M!Kind
  <2>3. sends'[hCall[q].send] = sends[hCall[q].send]
    <3>1. CASE M!UpdateSend(r)
      <4>1. hPc[r] = "updateSend" /\ \A s \in M!Sends \ {hCall[r].send} : sends'[s] = sends[s]
        BY <3>1, SendUpdated
      <4>2. hCall[r].send # hCall[q].send
        BY <1>0, <1>2, <2>1, <4>1 DEF OneBetween, Between
      <4> QED BY <2>2, <4>1, <4>2
    <3>2. CASE M!DeleteCampaign(r) \/ M!DeleteSegment(r)
      BY <2>1, <2>2, <3>2, CampaignRemoved DEF Removing
    <3>3. CASE ~M!UpdateSend(r) /\ ~M!DeleteCampaign(r) /\ ~M!DeleteSegment(r)
      <4>1. UNCHANGED sends
        BY <3>3, CampaignReads, EventCreated, TotalUpdated DEF CampaignWrite, M!CreateCampaign, M!WriteCampaign
      <4> QED BY <4>1
    <3> QED BY <3>1, <3>2, <3>3
  <2> QED BY <1>0, <2>1, <2>3 DEF ReadIsCurrent
<1> QED BY <1>1, <1>2

\* The events of a send and the send itself are as they were.
EventsUntouched(s) ==
    /\ sends'[s] = sends[s]
    /\ \A e \in Requests :
          /\ events'[e] # 0 /\ hCall'[e].send = s <=> events[e] # 0 /\ hCall[e].send = s
          /\ events[e] # 0 /\ hCall[e].send = s =>
                /\ hCall'[e] = hCall[e] /\ events'[e] = events[e]
                /\ hPc'[e] = "updateSend" <=> hPc[e] = "updateSend"

LEMMA EventsStay ==
    ASSUME CampaignsTyped, NEW r \in Requests, CampaignStep(r), NEW s \in M!Sends, sends'[s] # None,
           ~(M!CreateEvent(r) /\ hCall[r].send = s), ~(M!UpdateSend(r) /\ hCall[r].send = s)
    PROVE  EventsUntouched(s)
<1>0. CampaignMoved(r) /\ PlacedCampaign(r)
  BY CampaignMoves DEF CampaignsTyped
<1>1. sends'[s] = sends[s]
  <2>1. CASE M!UpdateSend(r)
    BY <2>1, SendUpdated
  <2>2. CASE M!DeleteCampaign(r) \/ M!DeleteSegment(r)
    BY <2>2, CampaignRemoved DEF Removing
  <2>3. CASE ~M!UpdateSend(r) /\ ~M!DeleteCampaign(r) /\ ~M!DeleteSegment(r)
    <3>1. UNCHANGED sends
      BY <2>3, CampaignReads, EventCreated, TotalUpdated DEF CampaignWrite, M!CreateCampaign, M!WriteCampaign
    <3> QED BY <3>1
  <2> QED BY <2>1, <2>2, <2>3
<1>2. ASSUME NEW e \in Requests, e # r
      PROVE  /\ events'[e] # 0 /\ hCall'[e].send = s <=> events[e] # 0 /\ hCall[e].send = s
             /\ events[e] # 0 /\ hCall[e].send = s =>
                   /\ hCall'[e] = hCall[e] /\ events'[e] = events[e]
                   /\ hPc'[e] = "updateSend" <=> hPc[e] = "updateSend"
  <2>1. hPc'[e] = hPc[e] /\ hCall'[e] = hCall[e]
    BY <1>0, <1>2 DEF CampaignMoved
  <2>2. /\ events'[e] # 0 => events'[e] = events[e]
        /\ events[e] # 0 /\ sends'[hCall[e].send] # None => events'[e] = events[e]
    BY <1>2, CampaignTables
  <2> QED BY <2>1, <2>2
<1>3. /\ events'[r] # 0 /\ hCall'[r].send = s <=> events[r] # 0 /\ hCall[r].send = s
      /\ events[r] # 0 /\ hCall[r].send = s =>
            /\ hCall'[r] = hCall[r] /\ events'[r] = events[r]
            /\ hPc'[r] = "updateSend" <=> hPc[r] = "updateSend"
  <2>1. CASE M!CreateEvent(r)
    <3>1. hCall'[r] = hCall[r] /\ hCall[r].send # s /\ events[r] = 0
      BY <1>0, <2>1, EventCreated DEF CampaignMoved
    <3> QED BY <3>1
  <2>2. CASE ~M!CreateEvent(r)
    <3>1. /\ events'[r] # 0 => events'[r] = events[r]
          /\ events[r] # 0 /\ sends'[hCall[r].send] # None => events'[r] = events[r]
      BY <2>2, CampaignTables
    <3>2. events[r] # 0 => hCall'[r] = hCall[r] /\ hPc[r] \in {"updateSend", "total", "done"}
      BY <1>0 DEF PlacedCampaign, CampaignMoved
    <3>3. events[r] # 0 /\ hCall[r].send = s => hPc'[r] # "updateSend" /\ hPc[r] # "updateSend"
      <4>1. hPc'[r] # "updateSend"
        BY <2>2, ComesBetween DEF Between
      <4>2. hPc[r] = "updateSend" => M!UpdateSend(r)
        BY DEF CampaignStep, M!Start, M!StartWith, M!Begin, M!FindSegment, M!FindCampaign, M!CreateCampaign,
               M!WriteCampaign, M!DeleteCampaign, M!DeleteSegment, M!FindSend, M!CreateEvent, M!UpdateTotal
      <4> QED BY <4>1, <4>2
    <3> QED BY <3>1, <3>2, <3>3
  <2> QED BY <2>1, <2>2
<1> QED BY <1>1, <1>2, <1>3 DEF EventsUntouched

LEMMA SettledStays ==
    ASSUME CampaignsTyped, NEW r \in Requests, CampaignStep(r), NEW s \in M!Sends, sends'[s] # None,
           ~(M!CreateEvent(r) /\ hCall[r].send = s), ~(M!UpdateSend(r) /\ hCall[r].send = s),
           TimesSet(s), LastUpdates(s), StatusLatest(s)
    PROVE  TimesSet(s)' /\ LastUpdates(s)' /\ StatusLatest(s)'
<1>0. EventsUntouched(s) /\ CampaignMoved(r)
  BY EventsStay, CampaignMoves
<1>1. \A type : M!EventsOf(s, type)' = M!EventsOf(s, type)
  BY <1>0 DEF EventsUntouched, M!EventsOf
<1>2. \A type : \A e \in M!EventsOf(s, type) :
         events'[e] = events[e] /\ (hPc'[e] = "updateSend" <=> hPc[e] = "updateSend")
  BY <1>0 DEF EventsUntouched, M!EventsOf
<1>3. TimesSet(s)'
  BY <1>0, <1>1, <1>2 DEF TimesSet, EventsUntouched
<1>4. StatusLatest(s)'
  BY <1>0, <1>1, <1>2 DEF StatusLatest, EventsUntouched
<1>5. LastUpdates(s)'
  <2> SUFFICES ASSUME NEW e \in Requests, hPc'[e] = "updateSend", hCall'[e].send = s
               PROVE  /\ hCall'[e].type \notin sends'[s].times
                      /\ \A f \in Requests \ {e} : events'[f] # 0 /\ hCall'[f].send = s => events'[f] < events'[e]
    BY DEF LastUpdates
  <2>1. hPc[e] = "updateSend" /\ hCall'[e] = hCall[e]
    <3>1. CASE e = r
      BY <3>1, ComesBetween DEF Between
    <3>2. CASE e # r
      BY <1>0, <3>2 DEF CampaignMoved
    <3> QED BY <3>1, <3>2
  <2>2. events[e] # 0
    BY <1>0, <2>1 DEF EventsUntouched, CampaignsTyped, PlacedCampaign
  <2> QED BY <1>0, <2>1, <2>2 DEF LastUpdates, EventsUntouched
<1> QED BY <1>3, <1>4, <1>5

\* An event is stored after every other; if its time is to be set, no other of
\* its type has been.
LEMMA SettledOnEvent ==
    ASSUME CampaignsTyped, OneBetween, ReadIsCurrent, NEW r \in Requests, M!CreateEvent(r),
           NEW s \in M!Sends, NEW type, hCall[r].send = s, hCall[r].type = type,
           sends'[s] # None, s \notin mixed,
           TimesSet(s), StatusLatest(s)
    PROVE  TimesSet(s)' /\ LastUpdates(s)' /\ StatusLatest(s)'
<1>1. /\ UNCHANGED <<campaigns, sends, mixed>> /\ hPc[r] = "event" /\ events[r] = 0
      /\ sends[s] # None /\ reported' = reported + 1 /\ events'[r] = reported'
      /\ \A q \in Requests \ {r} : events'[q] = events[q] /\ events[q] <= reported
      /\ \/ type \in M!Timed \ hHeld[r].times /\ hPc'[r] = "updateSend"
         \/ type \notin M!Timed \ hHeld[r].times /\ hPc'[r] \in {"total", "done"}
  BY EventCreated
<1>2. hHeld[r] = sends[s]
  BY <1>1 DEF ReadIsCurrent
<1>3. /\ CampaignMoved(r) /\ hCall'[r] = hCall[r]
      /\ \A q \in Requests \ {r} : hPc'[q] = hPc[q] /\ hCall'[q] = hCall[q]
  BY <1>1, CampaignMoves DEF CampaignStep, CampaignMoved
<1>4. events \in [Requests -> Nat] /\ reported \in Nat
  BY DEF CampaignsTyped, M!TypeOK
<1>5. \A q \in Requests : hPc[q] = "updateSend" => hCall[q].send # s
  BY <1>1 DEF OneBetween, Between
<1>6. M!EventsOf(s, type)' = M!EventsOf(s, type) \cup {r}
  BY <1>1, <1>3, <1>4 DEF M!EventsOf
<1>7. \A t : t # type => M!EventsOf(s, t)' = M!EventsOf(s, t)
  BY <1>1, <1>3, <1>4 DEF M!EventsOf
<1>8. \A t : \A e \in M!EventsOf(s, t) : e # r /\ events'[e] = events[e] /\ hPc[e] # "updateSend" /\ hPc'[e] = hPc[e]
  BY <1>1, <1>3, <1>5 DEF M!EventsOf
<1>9. TimesSet(s)'
  <2> SUFFICES ASSUME NEW t \in M!Timed
               PROVE  t \in sends[s].times <=> \E e \in M!EventsOf(s, t)' : hPc'[e] # "updateSend"
    BY <1>1, <1>3 DEF TimesSet
  <2>1. CASE t # type
    BY <1>7, <1>8, <2>1 DEF TimesSet
  <2>2. CASE t = type
    <3>1. hPc'[r] # "updateSend" <=> type \in sends[s].times
      BY <1>1, <1>2, <2>2
    <3>2. (\E e \in M!EventsOf(s, t) : hPc'[e] # "updateSend") <=> type \in sends[s].times
      BY <1>8, <2>2 DEF TimesSet
    <3> QED BY <1>6, <2>2, <3>1, <3>2
  <2> QED BY <2>1, <2>2
<1>10. LastUpdates(s)'
  <2> SUFFICES ASSUME NEW e \in Requests, hPc'[e] = "updateSend", hCall'[e].send = s
               PROVE  /\ hCall'[e].type \notin sends[s].times
                      /\ \A f \in Requests \ {e} : events'[f] # 0 /\ hCall'[f].send = s => events'[f] < events'[e]
    BY <1>1, <1>3 DEF LastUpdates
  <2>1. e = r
    BY <1>3, <1>5
  <2>2. hCall'[e].type \notin sends[s].times
    BY <1>1, <1>2, <1>3, <2>1
  <2>3. ASSUME NEW f \in Requests \ {e} PROVE events'[f] < events'[e]
    BY <1>1, <1>4, <2>1
  <2> QED BY <2>2, <2>3
<1>11. StatusLatest(s)'
  <2>1. /\ sends'[s].status = sends[s].status /\ sends'[s].times = sends[s].times /\ hCall'[r].send = s
    BY <1>1, <1>3
  <2>2. ASSUME sends[s].status # "queued", NEW t \in M!Deliveries \cap sends[s].times
        PROVE  \E e \in M!EventsOf(s, t)' : \A f \in M!EventsOf(s, sends[s].status)' : events'[e] <= events'[f]
    <3>1. PICK e \in M!EventsOf(s, t) : \A f \in M!EventsOf(s, sends[s].status) : events[e] <= events[f]
      BY <2>2 DEF StatusLatest
    <3>2. e \in M!EventsOf(s, t)' /\ e # r /\ e \in Requests
      BY <1>6, <1>7, <1>8 DEF M!EventsOf
    <3>3. ASSUME NEW f \in M!EventsOf(s, sends[s].status)' PROVE events'[e] <= events'[f]
      <4>1. f = r \/ f \in M!EventsOf(s, sends[s].status)
        <5> DEFINE u == sends[s].status
        <5>1. M!EventsOf(s, u)' = IF u = type THEN M!EventsOf(s, u) \cup {r} ELSE M!EventsOf(s, u)
          BY <1>1, <1>6, <1>7
        <5> QED BY <3>3, <5>1
      <4>2. CASE f = r
        BY <1>1, <1>4, <3>2, <4>2
      <4>3. CASE f \in M!EventsOf(s, sends[s].status)
        BY <1>8, <3>1, <4>3
      <4> QED BY <4>1, <4>2, <4>3
    <3> QED BY <3>2, <3>3
  <2> QED BY <2>1, <2>2 DEF StatusLatest
<1> QED BY <1>3, <1>9, <1>10, <1>11

LEMMA SettledOnUpdate ==
    ASSUME CampaignsTyped, OneBetween, NEW r \in Requests, M!UpdateSend(r),
           NEW s \in M!Sends, NEW type, hCall[r].send = s, hCall[r].type = type,
           sends'[s] # None, s \notin mixed,
           TimesSet(s), LastUpdates(s), StatusLatest(s)
    PROVE  TimesSet(s)' /\ LastUpdates(s)' /\ StatusLatest(s)'
<1>1. /\ UNCHANGED <<campaigns, events, reported, mixed>>
      /\ hPc[r] = "updateSend" /\ type \in M!Timed /\ sends[s] # None
      /\ sends'[s].times = sends[s].times \cup {type}
      /\ sends'[s].status = IF type \in M!Deliveries THEN type ELSE sends[s].status
      /\ hPc'[r] \in {"total", "done"}
  BY SendUpdated
<1>2. /\ CampaignMoved(r) /\ hCall' = hCall
      /\ \A q \in Requests \ {r} : hPc'[q] = hPc[q]
  <2>1. CampaignMoved(r) /\ hCall \in [Requests -> {M!NoCall} \cup CampaignCalls]
    BY CampaignMoves DEF CampaignStep, CampaignsTyped, M!TypeOK, M!Handling
  <2>2. hCall' = hCall
    BY <1>1, <2>1 DEF CampaignMoved
  <2> QED BY <2>1, <2>2 DEF CampaignMoved
<1>3. events \in [Requests -> Nat] /\ hPc[r] = "updateSend" /\ events[r] # 0
  BY <1>1 DEF CampaignsTyped, M!TypeOK, PlacedCampaign
<1>4. \A q \in Requests \ {r} : hPc[q] = "updateSend" => hCall[q].send # s
  BY <1>1 DEF OneBetween, Between
<1>5. \A t : M!EventsOf(s, t)' = M!EventsOf(s, t)
  BY <1>1, <1>2 DEF M!EventsOf
<1>6. type \notin sends[s].times /\ \A f \in Requests \ {r} : events[f] # 0 /\ hCall[f].send = s => events[f] < events[r]
  BY <1>1 DEF LastUpdates
<1>7. r \in M!EventsOf(s, type) /\ \A t : r \in M!EventsOf(s, t) => t = type
  BY <1>3 DEF M!EventsOf
<1>8. TimesSet(s)'
  <2> SUFFICES ASSUME NEW t \in M!Timed
               PROVE  t \in sends[s].times \cup {type} <=> \E e \in M!EventsOf(s, t) : hPc'[e] # "updateSend"
    BY <1>1, <1>2, <1>5 DEF TimesSet
  <2>1. t \in sends[s].times <=> \E e \in M!EventsOf(s, t) : hPc[e] # "updateSend"
    BY DEF TimesSet
  <2>2. \A e \in M!EventsOf(s, t) : e # r => hPc'[e] = hPc[e]
    BY <1>2 DEF M!EventsOf
  <2> QED BY <1>1, <1>7, <2>1, <2>2
<1>9. LastUpdates(s)'
  BY <1>1, <1>2, <1>4 DEF LastUpdates
<1>10. M!EventsOf(s, type) = {r}
  <2>1. \A e \in M!EventsOf(s, type) : hPc[e] = "updateSend"
    BY <1>1, <1>6 DEF TimesSet
  <2> QED BY <1>4, <1>7, <2>1 DEF M!EventsOf
<1>11. StatusLatest(s)'
  <2>1. CASE type \in M!Deliveries
    <3>1. sends'[s].status = type /\ type # "queued"
      BY <1>1, <2>1 DEF M!Deliveries
    <3>2. ASSUME NEW t \in M!Deliveries \cap sends'[s].times
          PROVE  \E e \in M!EventsOf(s, t) : \A f \in M!EventsOf(s, type) : events[e] <= events[f]
      <4>1. CASE t = type
        BY <1>3, <1>10, <4>1
      <4>2. CASE t # type
        <5>1. PICK e \in M!EventsOf(s, t) : hPc[e] # "updateSend"
          BY <1>1, <3>2, <4>2 DEF TimesSet, M!Timed, M!Deliveries
        <5>2. e \in Requests \ {r} /\ events[e] # 0 /\ hCall[e].send = s
          BY <1>1, <5>1 DEF M!EventsOf
        <5>3. events[e] < events[r]
          BY <1>6, <5>2
        <5>4. events[e] <= events[r]
          BY <1>3, <5>2, <5>3
        <5> QED BY <1>10, <5>4
      <4> QED BY <4>1, <4>2
    <3>3. type \in sends'[s].times /\ hCall'[r].send = s
      BY <1>1, <1>2
    <3> QED BY <1>1, <1>5, <3>1, <3>2, <3>3 DEF StatusLatest
  <2>2. CASE type \notin M!Deliveries
    <3>1. /\ sends'[s].status = sends[s].status /\ hCall'[r].send = s
          /\ M!Deliveries \cap sends'[s].times = M!Deliveries \cap sends[s].times
          /\ sends[s].times \subseteq sends'[s].times
      BY <1>1, <1>2, <2>2
    <3> QED BY <1>1, <1>5, <3>1 DEF StatusLatest
  <2> QED BY <2>1, <2>2
<1> QED BY <1>2, <1>8, <1>9, <1>11

LEMMA SettledStep ==
    ASSUME CampaignsTyped, OneBetween, ReadIsCurrent, Settled, NEW r \in Requests, CampaignStep(r)
    PROVE  Settled'
<1> SUFFICES ASSUME NEW s \in M!Sends, sends'[s] # None, s \notin mixed'
             PROVE  TimesSet(s)' /\ LastUpdates(s)' /\ StatusLatest(s)'
  BY DEF Settled, M!Sends
<1>1. sends[s] # None /\ s \notin mixed
  BY CampaignTables
<1>2. TimesSet(s) /\ LastUpdates(s) /\ StatusLatest(s)
  BY <1>1 DEF Settled
<1>3. CASE M!CreateEvent(r) /\ hCall[r].send = s
  BY <1>1, <1>2, <1>3, SettledOnEvent
<1>4. CASE M!UpdateSend(r) /\ hCall[r].send = s
  BY <1>1, <1>2, <1>4, SettledOnUpdate
<1>5. CASE ~(M!CreateEvent(r) /\ hCall[r].send = s) /\ ~(M!UpdateSend(r) /\ hCall[r].send = s)
  BY <1>2, <1>5, SettledStays
<1> QED BY <1>3, <1>4, <1>5

-----------------------------------------------------------------------------
\* The events that a total has counted.
CountedEvents(c, type) ==
    {r \in Requests : /\ events[r] # 0 /\ SeedSends[hCall[r].send] = c /\ hCall[r].type = type
                      /\ hPc[r] \notin {"updateSend", "total"}}

LEMMA TotalsCounted ==
    M!TotalsCountEvents <=>
        \A c \in DOMAIN SeedCampaigns : campaigns[c] # None =>
            \A type \in M!Counted : campaigns[c].totals[type] = Cardinality(CountedEvents(c, type))
BY EventCardinality DEF M!TotalsCountEvents, CountedEvents

LEMMA FinitelyCounted ==
    ASSUME NEW c, NEW type
    PROVE  IsFiniteSet(CountedEvents(c, type)) /\ Cardinality(CountedEvents(c, type)) \in Nat
<1>1. IsFiniteSet(Requests)
  <2>1. M!IsFiniteSet(Requests)
    BY PartsAssumption, Zenon DEF M!CampaignsAssumption
  <2> QED BY <2>1, EventFinite
<1>2. CountedEvents(c, type) \subseteq Requests
  BY DEF CountedEvents
<1> QED BY <1>1, <1>2, FS_Subset, FS_CardinalityType

LEMMA CountedStay ==
    ASSUME CampaignsTyped, NEW r \in Requests, CampaignStep(r), ~M!UpdateTotal(r),
           NEW c \in DOMAIN SeedCampaigns, campaigns'[c] # None, NEW type \in M!Counted
    PROVE  CountedEvents(c, type)' = CountedEvents(c, type)
<1>0. CampaignMoved(r) /\ PlacedCampaign(r) /\ CampaignsTyped'
  BY CampaignMoves, CampaignsTypedStep DEF CampaignsTyped
<1>1. \A s \in M!Sends : SeedSends[s] = c => sends'[s] # None
  BY <1>0 DEF CampaignsTyped, SendsOfCampaigns
<1>2. \A e \in Requests : events[e] # 0 => hCall[e].send \in M!Sends
  BY CampaignCallFields DEF CampaignsTyped, PlacedCampaign, M!Kind
<1>3. ASSUME NEW e \in Requests, e # r
      PROVE  e \in CountedEvents(c, type)' <=> e \in CountedEvents(c, type)
  <2>1. hPc'[e] = hPc[e] /\ hCall'[e] = hCall[e]
    BY <1>0, <1>3 DEF CampaignMoved
  <2>2. /\ events'[e] # 0 => events'[e] = events[e]
        /\ events[e] # 0 /\ sends'[hCall[e].send] # None => events'[e] = events[e]
    BY <1>3, CampaignTables
  <2> QED BY <1>1, <1>2, <2>1, <2>2 DEF CountedEvents
<1>4. r \notin CountedEvents(c, type)
  <2>1. hPc[r] # "done"
    BY <1>0 DEF CampaignMoved
  <2> QED BY <1>0, <2>1 DEF CountedEvents, PlacedCampaign
<1>5. r \notin CountedEvents(c, type)'
  <2> SUFFICES ASSUME events'[r] # 0, SeedSends[hCall'[r].send] = c, hCall'[r].type = type,
                      hPc'[r] \notin {"updateSend", "total"}
               PROVE  FALSE
    BY DEF CountedEvents
  <2>1. CASE M!CreateEvent(r)
    <3>1. hCall'[r] = hCall[r]
      BY <1>0, <2>1 DEF CampaignMoved, M!CreateEvent
    <3> QED BY <2>1, <3>1, EventCreated
  <2>2. CASE ~M!CreateEvent(r)
    <3>1. events[r] # 0 /\ sends'[hCall[r].send] # None
      BY <2>2, CampaignTables
    <3>2. hPc[r] \in {"updateSend", "total"} /\ hCall'[r] = hCall[r] /\ hCall[r].send \in M!Sends
      BY <1>0, <1>2, <3>1 DEF PlacedCampaign, CampaignMoved
    <3>3. M!UpdateSend(r)
      BY <3>2 DEF CampaignStep, M!Start, M!StartWith, M!Begin, M!FindSegment, M!FindCampaign, M!CreateCampaign,
             M!WriteCampaign, M!DeleteCampaign, M!DeleteSegment, M!FindSend, M!CreateEvent, M!UpdateTotal
    <3>4. sends[hCall[r].send] # None
      BY <3>1, <3>2, CampaignTables
    <3>5. hPc'[r] = "total"
      BY <3>2, <3>3, <3>4, SendUpdated
    <3> QED BY <3>5
  <2> QED BY <2>1, <2>2
<1>6. CountedEvents(c, type) \subseteq Requests /\ CountedEvents(c, type)' \subseteq Requests
  BY DEF CountedEvents
<1> QED BY <1>3, <1>4, <1>5, <1>6

LEMMA CountedNext ==
    ASSUME CampaignsTyped, NEW r \in Requests, M!UpdateTotal(r),
           NEW c \in DOMAIN SeedCampaigns, campaigns[c] # None, NEW type \in M!Counted
    PROVE  CountedEvents(c, type)' =
               IF SeedSends[hCall[r].send] = c /\ hCall[r].type = type THEN CountedEvents(c, type) \cup {r}
               ELSE CountedEvents(c, type)
<1>0. /\ CampaignMoved(r) /\ PlacedCampaign(r) /\ SendsOfCampaigns
      /\ UNCHANGED events /\ hPc[r] = "total" /\ hPc'[r] = "done" /\ hCall[r].send \in M!Sends
  BY CampaignMoves, TotalUpdated DEF CampaignsTyped, CampaignStep
<1>1. hCall'[r] = hCall[r] /\ \A q \in Requests \ {r} : hPc'[q] = hPc[q] /\ hCall'[q] = hCall[q]
  BY <1>0 DEF CampaignMoved
<1>2. r \in CountedEvents(c, type)' <=> SeedSends[hCall[r].send] = c /\ hCall[r].type = type
  <2>1. SeedSends[hCall[r].send] = c => events[r] # 0
    BY <1>0 DEF SendsOfCampaigns, PlacedCampaign
  <2> QED BY <1>0, <1>1, <2>1 DEF CountedEvents
<1>3. r \notin CountedEvents(c, type)
  BY <1>0 DEF CountedEvents
<1>4. \A q \in Requests \ {r} : q \in CountedEvents(c, type)' <=> q \in CountedEvents(c, type)
  BY <1>0, <1>1 DEF CountedEvents
<1>5. CountedEvents(c, type) \subseteq Requests /\ CountedEvents(c, type)' \subseteq Requests
  BY DEF CountedEvents
<1> QED BY <1>2, <1>3, <1>4, <1>5

LEMMA TotalsStep ==
    ASSUME CampaignsTyped, M!TotalsCountEvents, NEW r \in Requests, CampaignStep(r)
    PROVE  M!TotalsCountEvents'
<1> SUFFICES ASSUME NEW c \in DOMAIN SeedCampaigns, campaigns'[c] # None, NEW type \in M!Counted
             PROVE  campaigns'[c].totals[type] = Cardinality(CountedEvents(c, type)')
  <2>1. M!TotalsCountEvents' <=>
           \A c \in DOMAIN SeedCampaigns : campaigns'[c] # None =>
               \A type \in M!Counted : campaigns'[c].totals[type] = Cardinality(CountedEvents(c, type)')
    BY EventCardinality DEF M!TotalsCountEvents, CountedEvents
  <2> QED BY <2>1
<1>0. c \in M!CampaignNames
  BY DEF M!CampaignNames
<1>1. CASE ~M!UpdateTotal(r)
  <2>1. campaigns[c] # None /\ campaigns'[c].totals = campaigns[c].totals
    <3>1. CASE M!CreateCampaign(r) \/ M!WriteCampaign(r)
      BY <3>1, CampaignCreated, CampaignWritten DEF TotalsKept
    <3>2. CASE M!DeleteCampaign(r) \/ M!DeleteSegment(r)
      BY <1>0, <3>2, CampaignRemoved DEF Removing
    <3>3. CASE M!CreateEvent(r) \/ M!UpdateSend(r) \/ ~CampaignWrite(r)
      BY <3>3, CampaignReads, EventCreated, SendUpdated
    <3> QED BY <1>1, <3>1, <3>2, <3>3 DEF CampaignWrite
  <2> QED BY <1>1, <2>1, CountedStay, TotalsCounted
<1>2. CASE M!UpdateTotal(r)
  <2> DEFINE d == SeedSends[hCall[r].send]
  <2>1. /\ campaigns[c] # None
        /\ c # d => campaigns'[c] = campaigns[c]
        /\ c = d => campaigns'[c].totals[type] = IF type = hCall[r].type THEN campaigns[c].totals[type] + 1
                                                 ELSE campaigns[c].totals[type]
    BY <1>0, <1>2, TotalUpdated
  <2>2. campaigns[c].totals[type] = Cardinality(CountedEvents(c, type))
    BY <2>1, TotalsCounted
  <2>3. r \notin CountedEvents(c, type)
    BY <1>2, TotalUpdated DEF CountedEvents
  <2>4. CASE c = d /\ type = hCall[r].type
    <3>1. CountedEvents(c, type)' = CountedEvents(c, type) \cup {r}
      BY <1>2, <2>1, <2>4, CountedNext
    <3>2. Cardinality(CountedEvents(c, type) \cup {r}) = Cardinality(CountedEvents(c, type)) + 1
      BY <2>3, FinitelyCounted, FS_AddElement
    <3> QED BY <2>1, <2>2, <2>4, <3>1, <3>2
  <2>5. CASE ~(c = d /\ type = hCall[r].type)
    <3>1. CountedEvents(c, type)' = CountedEvents(c, type)
      BY <1>2, <2>1, <2>5, CountedNext
    <3> QED BY <2>1, <2>2, <2>5, <3>1
  <2> QED BY <2>4, <2>5
<1> QED BY <1>1, <1>2

LEMMA CampaignInit == M!Init => EventInv
<1> SUFFICES ASSUME M!Init PROVE EventInv
  OBVIOUS
<1>1. /\ hPc = [r \in Requests |-> "idle"] /\ hCall = [r \in Requests |-> M!NoCall]
      /\ hHeld = [r \in Requests |-> None] /\ hAnswer = [r \in Requests |-> "none"]
      /\ events = [r \in Requests |-> 0] /\ reported = 0 /\ segments = Segments /\ mixed = {}
  BY DEF M!Init, M!HandlersInit
<1>2. sends \in [M!Sends -> M!Send \cup {None}]
      /\ \A s \in M!Sends : sends[s].status = "queued" /\ sends[s].times = {} /\ sends[s] # None
  <2>1. [status |-> "queued", times |-> {}] \in M!Send
    BY DEF M!Send
  <2> QED BY <2>1, NoCampaign DEF M!Init
<1>3. \A c \in DOMAIN SeedCampaigns : M!New(SeedCampaigns[c]) \in M!Campaign
  BY NoCampaign DEF M!New, M!Campaign
<1>4. /\ campaigns \in [M!CampaignNames -> M!Campaign \cup {None}]
      /\ \A c \in DOMAIN SeedCampaigns : campaigns[c] = M!New(SeedCampaigns[c]) /\ campaigns[c] # None
  BY <1>3, NoCampaign DEF M!Init, M!CampaignNames
<1>5. CampaignsTyped
  <2>1. M!TypeOK /\ hHeld = [q \in Requests |-> hHeld[q]]
    BY <1>1, <1>2, <1>4 DEF M!TypeOK, M!Handling
  <2>2. SendsOfCampaigns
    BY <1>2, <1>4, NoCampaign DEF SendsOfCampaigns
  <2>3. \A r \in Requests : PlacedCampaign(r)
    BY <1>1 DEF PlacedCampaign, Reporting
  <2> QED BY <2>1, <2>2, <2>3 DEF CampaignsTyped
<1>6. OneBetween /\ ReadIsCurrent
  BY <1>1 DEF OneBetween, ReadIsCurrent, Between
<1>7. Settled
  BY <1>1, <1>2 DEF Settled, TimesSet, LastUpdates, StatusLatest, M!EventsOf
<1>8. M!TotalsCountEvents
  <2> SUFFICES ASSUME NEW c \in DOMAIN SeedCampaigns, NEW type \in M!Counted
               PROVE  campaigns[c].totals[type] = Cardinality(CountedEvents(c, type))
    BY TotalsCounted
  <2>1. CountedEvents(c, type) = {}
    BY <1>1 DEF CountedEvents
  <2>2. campaigns[c].totals[type] = 0
    <3>1. campaigns[c] = M!New(SeedCampaigns[c])
      BY <1>4
    <3>2. M!New(SeedCampaigns[c]).totals = [t \in M!Counted |-> 0]
      BY DEF M!New
    <3> QED BY <3>1, <3>2
  <2> QED BY <2>1, <2>2, FS_EmptySet
<1> QED BY <1>5, <1>6, <1>7, <1>8 DEF EventInv

LEMMA EventInvStep == EventInv /\ [M!Next]_M!vars => EventInv'
<1> SUFFICES ASSUME EventInv, [M!Next]_M!vars PROVE EventInv'
  OBVIOUS
<1>1. CASE M!Next
  <2>1. PICK r \in Requests : CampaignStep(r)
    BY <1>1 DEF M!Next, CampaignStep
  <2> QED BY <2>1, CampaignsTypedStep, OneBetweenStep, ReadIsCurrentStep, SettledStep, TotalsStep DEF EventInv
<1>2. CASE UNCHANGED M!vars
  <2>1. UNCHANGED <<hPc, hCall, hHeld, hAnswer, segments, campaigns, sends, events, reported, mixed>>
    BY <1>2 DEF M!vars, M!handlers, M!tables
  <2>2. CampaignsTyped'
    BY <2>1 DEF EventInv, CampaignsTyped, M!TypeOK, M!Handling, SendsOfCampaigns, PlacedCampaign, M!Kind
  <2>3. OneBetween' /\ ReadIsCurrent'
    BY <2>1 DEF EventInv, OneBetween, ReadIsCurrent
  <2>4. Settled'
    BY <2>1 DEF EventInv, Settled, TimesSet, LastUpdates, StatusLatest, M!EventsOf
  <2>5. M!TotalsCountEvents'
    BY <2>1 DEF EventInv, M!TotalsCountEvents
  <2> QED BY <2>2, <2>3, <2>4, <2>5 DEF EventInv
<1> QED BY <1>1, <1>2

\* Between two events of a send every time it has is that of an event, and its
\* status that of the type whose first event came last.
LEMMA EventsTell == EventInv => M!StatusIsOfTheLatestFirst /\ M!TotalsCountEvents
<1> SUFFICES ASSUME EventInv, NEW s \in M!Sends, sends[s] # None, s \notin mixed,
                    M!Recording(s) \subseteq M!At("send")
             PROVE  /\ sends[s].times = {type \in M!Timed : M!EventsOf(s, type) # {}}
                    /\ \A type \in M!Deliveries : M!EventsOf(s, type) # {} =>
                          /\ sends[s].status # "queued"
                          /\ \E e \in M!EventsOf(s, type) :
                                \A f \in M!EventsOf(s, sends[s].status) : events[e] <= events[f]
                    /\ sends[s].status # "queued" => M!EventsOf(s, sends[s].status) # {}
  BY DEF EventInv, M!StatusIsOfTheLatestFirst
<1>1. TimesSet(s) /\ StatusLatest(s) /\ sends[s].times \subseteq M!Timed
  <2>1. sends[s] \in M!Send
    BY DEF EventInv, CampaignsTyped, M!TypeOK
  <2> QED BY <2>1 DEF EventInv, Settled, M!Send
<1>2. \A type : \A e \in M!EventsOf(s, type) : hPc[e] # "updateSend"
  BY DEF M!EventsOf, M!Recording, M!At
<1>3. \A type \in M!Timed : type \in sends[s].times <=> M!EventsOf(s, type) # {}
  BY <1>1, <1>2 DEF TimesSet
<1>4. sends[s].times = {type \in M!Timed : M!EventsOf(s, type) # {}}
  BY <1>1, <1>3
<1>5. M!Deliveries \subseteq M!Timed
  BY DEF M!Deliveries, M!Timed
<1>6. \A type \in M!Deliveries : M!EventsOf(s, type) # {} => type \in M!Deliveries \cap sends[s].times
  BY <1>3, <1>5
<1>7. sends[s].status # "queued" => M!EventsOf(s, sends[s].status) # {}
  BY <1>1, <1>3 DEF StatusLatest
<1> QED BY <1>1, <1>4, <1>6, <1>7 DEF StatusLatest

\* Campaigns alone: whatever the order and the number of the events, the
\* status of a send is of the latest first one, and the totals count the
\* events stored (campaigns.service.ts, recordEmailEvent).
THEOREM EventsTold == M!Spec => [](M!StatusIsOfTheLatestFirst /\ M!TotalsCountEvents)
<1>1. M!Spec => []EventInv
  BY CampaignInit, EventInvStep, PTL DEF M!Spec
<1> QED BY <1>1, EventsTell, PTL

LEMMA CampaignsBeside == MCSpec => [](part = "campaigns" => EventInv)
<1> DEFINE Here == part = "campaigns" => EventInv
<1>1. MCInit => Here
  BY CampaignInit DEF MCInit
<1>2. Here /\ [MCNext]_<<part, hVars, vars, tVars, cVars, sVars, mVars, rVars>> => Here'
  <2> SUFFICES ASSUME Here, [MCNext]_<<part, hVars, vars, tVars, cVars, sVars, mVars, rVars>>,
                      part' = "campaigns"
               PROVE  EventInv'
    OBVIOUS
  <2>1. part = "campaigns" /\ EventInv
    BY DEF MCNext
  <2>2. [M!Next]_M!vars
    BY <2>1 DEF MCNext, M!vars, M!handlers, M!tables, hVars, mVars
  <2> QED BY <2>1, <2>2, EventInvStep
<1>3. MCSpec => []Here
  <2> HIDE DEF Here
  <2> QED BY <1>1, <1>2, PTL DEF MCSpec
<1> QED BY <1>3

\* The same where other components may run in its place.
THEOREM EventsHolding == MCSpec => []EventsHold
<1>1. (part = "campaigns" => EventInv) => EventsHold
  BY EventsTell DEF EventsHold
<1> QED BY <1>1, CampaignsBeside, PTL

-----------------------------------------------------------------------------
\* Every component keeps its types, and the rows it writes the constraints
\* that its type invariant states, where others run beside it.
THEOREM AllTyped == MCSpec => []Typed
<1>1. MCSpec => []TypeOK
  BY DealsWithin, TypeCorrect, PTL
<1>2. /\ TicketInv => T!TypeOK
      /\ CompanyInv => C!TypeOK
      /\ SubmissionInv => S!TypeOK
      /\ RuleInv => R!TypeOK
      /\ EventInv => M!TypeOK
  BY DEF TicketInv, CompanyInv, CompaniesTyped, SubmissionInv, SubmissionsTyped, RuleInv, RulesTyped,
         EventInv, CampaignsTyped
<1>3. /\ TypeOK /\ TicketInv
      /\ part = "companies" => CompanyInv
      /\ part = "submissions" => SubmissionInv
      /\ part = "rulesets" => RuleInv
      /\ part = "campaigns" => EventInv
      => Typed
  BY <1>2 DEF Typed
<1> QED BY <1>1, <1>3, TicketInvHolds, CompaniesBeside, SubmissionsBeside, RulesBeside, CampaignsBeside, PTL

=============================================================================

------------------------------ MODULE Pipelines ------------------------------
(***************************************************************************)
(* Sales pipelines, their stages and the deals that move through them:     *)
(* pipelines.service.ts and deals.service.ts.  Every handler checks what   *)
(* it read in earlier statements (the default pipeline, the closing stages *)
(* of a pipeline, the deals left in it, the stage a deal moves to) before  *)
(* the one that writes.  A request is one call and takes a step for each   *)
(* await.                                                                  *)
(*                                                                         *)
(* A call names the id of the row it is about; the id of a row to create   *)
(* is fresh.  None stands for a missing row and for a field left out.      *)
(***************************************************************************)
EXTENDS Naturals

CONSTANTS
    PipelineIds, StageIds, DealIds,
    Requests,  \* one member per call
    Calls,     \* the calls clients make
    SeedPipelines, SeedStages, SeedDeals,  \* rows that are there at the start
    None

Status == {"open", "won", "lost", "abandoned"}
PipelineRow == [isDefault: BOOLEAN]
StageRow == [pipeline: PipelineIds, won: BOOLEAN, lost: BOOLEAN]
DealRow == [pipeline: PipelineIds, stage: StageIds, status: Status]

PipelineCall ==
    [kind: {"createPipeline", "updatePipeline"}, pipeline: PipelineIds, isDefault: BOOLEAN]
      \cup [kind: {"removePipeline"}, pipeline: PipelineIds]
StageCall ==
    [kind: {"createStage"}, stage: StageIds, pipeline: PipelineIds, won: BOOLEAN, lost: BOOLEAN]
      \cup [kind: {"updateStage"}, stage: StageIds, won: BOOLEAN \cup {None},
            lost: BOOLEAN \cup {None}]
      \cup [kind: {"removeStage"}, stage: StageIds]
DealCall ==
    [kind: {"createDeal"}, deal: DealIds, pipeline: PipelineIds, stage: StageIds, status: Status]
      \cup [kind: {"updateDeal"}, deal: DealIds, stage: StageIds \cup {None},
            status: Status \cup {None}]
      \cup [kind: {"moveDeal"}, deal: DealIds, stage: StageIds]
      \cup [kind: {"removeDeal"}, deal: DealIds]
NoCall == [kind |-> "none"]

Creates == {"createPipeline", "createStage", "createDeal"}

\* Rows of the three tables refer to each other as the services leave them.
Linked(ps, ss, ds) ==
    /\ \A s \in StageIds : ss[s] # None => ps[ss[s].pipeline] # None
    /\ \A d \in DealIds :
          ds[d] # None => ss[ds[d].stage] # None /\ ss[ds[d].stage].pipeline = ds[d].pipeline

ASSUME PipelinesAssumption ==
    /\ Calls \subseteq PipelineCall \cup StageCall \cup DealCall
    /\ SeedPipelines \in [PipelineIds -> PipelineRow \cup {None}]
    /\ SeedStages \in [StageIds -> StageRow \cup {None}]
    /\ SeedDeals \in [DealIds -> DealRow \cup {None}]
    /\ Linked(SeedPipelines, SeedStages, SeedDeals)
    /\ None \notin PipelineRow \cup StageRow \cup DealRow \cup Status \cup StageIds \cup BOOLEAN

VARIABLES
    pipelines, stages, deals,  \* the tables: a row or None for each id
    pc,
    call,
    held,    \* the row a request has read: of a stage or of a deal
    status,  \* the status a request has decided to write, None to leave it
    answer,
    aged     \* history: requests whose checks another write has outdated

vars == <<pipelines, stages, deals, pc, call, held, status, answer, aged>>
tables == <<pipelines, stages, deals>>
local == <<held, status>>

Labels == {"idle", "find", "unset", "checkWon", "checkLost", "findStage",
           "count", "write", "done"}
Answers == {"none", "ok", "notFound", "duplicate", "inUse", "foreign", "error"}

TypeOK ==
    /\ pipelines \in [PipelineIds -> PipelineRow \cup {None}]
    /\ stages \in [StageIds -> StageRow \cup {None}]
    /\ deals \in [DealIds -> DealRow \cup {None}]
    /\ pc \in [Requests -> Labels]
    /\ call \in [Requests -> {NoCall} \cup Calls]
    /\ held \in [Requests -> StageRow \cup DealRow \cup {None}]
    /\ status \in [Requests -> Status \cup {None}]
    /\ answer \in [Requests -> Answers]
    /\ aged \in SUBSET Requests

Init ==
    /\ pipelines = SeedPipelines
    /\ stages = SeedStages
    /\ deals = SeedDeals
    /\ pc = [r \in Requests |-> "idle"]
    /\ call = [r \in Requests |-> NoCall]
    /\ held = [r \in Requests |-> None]
    /\ status = [r \in Requests |-> None]
    /\ answer = [r \in Requests |-> "none"]
    /\ aged = {}

-----------------------------------------------------------------------------

Goto(r, label) == pc' = [pc EXCEPT ![r] = label] /\ UNCHANGED answer
Reply(r, what) ==
    /\ pc' = [pc EXCEPT ![r] = "done"]
    /\ answer' = [answer EXCEPT ![r] = what]
Fail(r, what) == Reply(r, what) /\ UNCHANGED tables
Is(r, kinds) == pc[r] # "idle" /\ call[r].kind \in kinds
Doing(r, label, kinds) == pc[r] = label /\ call[r].kind \in kinds
At(label, kinds) == {r \in Requests : Doing(r, label, kinds)}

\* The id of a row to create was never used.
FreshId(c) ==
    LET Used(seed, field) ==
            seed[c[field]] # None \/ \E q \in Requests : call[q].kind = c.kind /\ call[q][field] = c[field]
    IN  CASE c.kind = "createPipeline" -> ~Used(SeedPipelines, "pipeline")
          [] c.kind = "createStage" -> ~Used(SeedStages, "stage")
          [] c.kind = "createDeal" -> ~Used(SeedDeals, "deal")

Start(r) ==
    /\ pc[r] = "idle"
    /\ \E c \in Calls :
          /\ c.kind \in Creates => FreshId(c)
          /\ call' = [call EXCEPT ![r] = c]
          /\ Goto(r, IF c.kind # "createPipeline" THEN "find"
                     ELSE IF c.isDefault THEN "unset" ELSE "write")
    /\ UNCHANGED <<tables, local, aged>>

-----------------------------------------------------------------------------
(***************************************************************************)
(* Who relies on what: the requests whose earlier reads another write may  *)
(* outdate.                                                                *)
(***************************************************************************)

\* About to write a default pipeline, the others having been unset or the
\* pipeline having been the default already.
MakingDefault ==
    {r \in At("write", {"createPipeline", "updatePipeline"}) : call[r].isDefault}
MakingItDefault(ps) == {r \in MakingDefault : call[r].pipeline \in ps}

\* On the way from the look-up of a pipeline's closing stages to the write.
PipelineOf(r) == IF call[r].kind = "createStage" THEN call[r].pipeline ELSE held[r].pipeline
Shaping ==
    {r \in Requests :
        /\ Is(r, {"createStage", "updateStage"})
        /\ pc[r] \in {"checkWon", "checkLost", "write"}}
ShapingStages(p) == {r \in Shaping : PipelineOf(r) = p}

\* Having counted the deals of what they are about to delete.
Emptying(p, s) ==
    {r \in At("write", {"removePipeline"}) : call[r].pipeline = p}
      \cup {r \in At("write", {"removeStage"}) : call[r].stage = s}

\* Having read the deal, or the stage it is to move to.
MovingDeal(d) ==
    {r \in At("findStage", {"moveDeal"}) \cup At("write", {"moveDeal"}) : call[r].deal = d}
MovingTo(s) == {r \in At("write", {"moveDeal"}) : call[r].stage = s}

Outdate(r, others) == aged' = aged \cup (others \ {r})

-----------------------------------------------------------------------------
(***************************************************************************)
(* pipelines.service.ts: pipelines                                         *)
(***************************************************************************)

FindPipeline(r) ==
    /\ Doing(r, "find", {"updatePipeline", "removePipeline"})
    /\ LET row == pipelines[call[r].pipeline]
       IN  \/ row = None /\ Reply(r, "notFound")
           \/ row # None /\ call[r].kind = "removePipeline" /\ Goto(r, "count")
           \/ /\ row # None /\ call[r].kind = "updatePipeline"
              /\ Goto(r, IF call[r].isDefault /\ ~row.isDefault THEN "unset" ELSE "write")
    /\ UNCHANGED <<tables, call, local, aged>>

Others(p) == {q \in PipelineIds : pipelines[q] # None} \ {p}
Defaults == {p \in PipelineIds : pipelines[p] # None /\ pipelines[p].isDefault}

UnsetDefaults(r) ==
    /\ pc[r] = "unset"
    /\ pipelines' = [p \in PipelineIds |->
                        IF p \in Others(call[r].pipeline) THEN [isDefault |-> FALSE]
                                                          ELSE pipelines[p]]
    /\ Outdate(r, MakingItDefault(Others(call[r].pipeline) \cap Defaults))
    /\ Goto(r, "write")
    /\ UNCHANGED <<stages, deals, call, local>>

WritePipeline(r) ==
    /\ Doing(r, "write", {"createPipeline", "updatePipeline"})
    /\ LET c == call[r]
       IN  IF c.kind = "updatePipeline" /\ pipelines[c.pipeline] = None
           THEN Fail(r, "error") /\ UNCHANGED aged
           ELSE /\ pipelines' = [pipelines EXCEPT ![c.pipeline] = [isDefault |-> c.isDefault]]
                /\ Outdate(r, IF c.isDefault THEN MakingDefault ELSE MakingItDefault({c.pipeline}))
                /\ Reply(r, "ok")
                /\ UNCHANGED <<stages, deals>>
    /\ UNCHANGED <<call, local>>

-----------------------------------------------------------------------------
(***************************************************************************)
(* pipelines.service.ts: stages                                            *)
(***************************************************************************)

FindForStage(r) ==
    /\ Doing(r, "find", {"createStage", "updateStage", "removeStage"})
    /\ LET c == call[r]
           row == IF c.kind = "createStage" THEN pipelines[c.pipeline] ELSE stages[c.stage]
       IN  \/ row = None /\ Reply(r, "notFound") /\ UNCHANGED held
           \/ /\ row # None
              /\ Goto(r, IF c.kind = "removeStage" THEN "count" ELSE "checkWon")
              /\ held' = IF c.kind = "updateStage" THEN [held EXCEPT ![r] = row] ELSE held
    /\ UNCHANGED <<tables, call, status, aged>>

HasOther(p, s, flag) ==
    \E o \in StageIds \ {s} : stages[o] # None /\ stages[o].pipeline = p /\ stages[o][flag]

\* The flag is asked for, and an update changes it.
Asked(r, flag) ==
    call[r][flag] = TRUE /\ (call[r].kind = "updateStage" => ~held[r][flag])

Check(r, label, flag, next) ==
    /\ Doing(r, label, {"createStage", "updateStage"})
    /\ IF Asked(r, flag) /\ HasOther(PipelineOf(r), call[r].stage, flag)
       THEN Reply(r, "duplicate")
       ELSE Goto(r, next)
    /\ UNCHANGED <<tables, call, local, aged>>

CheckWon(r) == Check(r, "checkWon", "won", "checkLost")
CheckLost(r) == Check(r, "checkLost", "lost", "write")

Given(field, old) == IF field = None THEN old ELSE field

WriteStage(r) ==
    /\ Doing(r, "write", {"createStage", "updateStage"})
    /\ LET c == call[r]
           old == stages[c.stage]
           gone == IF c.kind = "createStage" THEN pipelines[c.pipeline] = None ELSE old = None
           new == IF c.kind = "createStage"
                  THEN [pipeline |-> c.pipeline, won |-> c.won, lost |-> c.lost]
                  ELSE [old EXCEPT !.won = Given(c.won, @), !.lost = Given(c.lost, @)]
       IN  IF gone
           THEN Fail(r, "error") /\ UNCHANGED aged
           ELSE /\ stages' = [stages EXCEPT ![c.stage] = new]
                /\ Outdate(r, (IF new.won \/ new.lost THEN ShapingStages(new.pipeline) ELSE {})
                                \cup {q \in Shaping : call[q].stage = c.stage} \cup MovingTo(c.stage))
                /\ Reply(r, "ok")
                /\ UNCHANGED <<pipelines, deals>>
    /\ UNCHANGED <<call, local>>

-----------------------------------------------------------------------------
(***************************************************************************)
(* pipelines.service.ts: removal of a pipeline or a stage                  *)
(***************************************************************************)

DealsIn(p) == {d \in DealIds : deals[d] # None /\ deals[d].pipeline = p}
DealsAt(s) == {d \in DealIds : deals[d] # None /\ deals[d].stage = s}

\* Slip: the won deals are not counted.
OpenDealsOf(c) ==
    {d \in IF c.kind = "removePipeline" THEN DealsIn(c.pipeline) ELSE DealsAt(c.stage) :
        deals[d].status = "open"}

DealsOf(c) == IF c.kind = "removePipeline" THEN DealsIn(c.pipeline) ELSE DealsAt(c.stage)

CountDeals(r) ==
    /\ pc[r] = "count"
    /\ IF DealsOf(call[r]) # {} THEN Reply(r, "inUse") ELSE Goto(r, "write")
    /\ UNCHANGED <<tables, call, local, aged>>

\* onDelete: Cascade, from the pipeline to its stages and from both to deals.
Without(table, gone) == [i \in DOMAIN table |-> IF i \in gone THEN None ELSE table[i]]

DeletePipeline(r) ==
    /\ Doing(r, "write", {"removePipeline"})
    /\ LET p == call[r].pipeline
           ss == {s \in StageIds : stages[s] # None /\ stages[s].pipeline = p}
       IN  IF pipelines[p] = None
           THEN Fail(r, "error")
           ELSE /\ pipelines' = Without(pipelines, {p})
                /\ stages' = Without(stages, ss)
                /\ deals' = Without(deals, DealsIn(p) \cup UNION {DealsAt(s) : s \in ss})
                /\ Reply(r, "ok")
    /\ UNCHANGED <<call, local, aged>>

DeleteStage(r) ==
    /\ Doing(r, "write", {"removeStage"})
    /\ LET s == call[r].stage
       IN  IF stages[s] = None
           THEN Fail(r, "error")
           ELSE /\ stages' = Without(stages, {s})
                /\ deals' = Without(deals, DealsAt(s))
                /\ Reply(r, "ok")
                /\ UNCHANGED pipelines
    /\ UNCHANGED <<call, local, aged>>

-----------------------------------------------------------------------------
(***************************************************************************)
(* deals.service.ts                                                        *)
(***************************************************************************)

\* Slip: the stage need only exist.
AnyStage(s, p) == stages[s] # None

BelongsTo(s, p) == stages[s] # None /\ stages[s].pipeline = p

\* create reads the pipeline with its stages; the contact, the company and
\* the owner it may name are checked outside this module.
FindForDeal(r) ==
    /\ Doing(r, "find", {"createDeal"})
    /\ LET c == call[r]
       IN  \/ Reply(r, "notFound")
           \/ pipelines[c.pipeline] # None /\ BelongsTo(c.stage, c.pipeline) /\ Goto(r, "write")
    /\ UNCHANGED <<tables, call, local, aged>>

CreateDeal(r) ==
    /\ Doing(r, "write", {"createDeal"})
    /\ LET c == call[r]
       IN  IF pipelines[c.pipeline] = None \/ stages[c.stage] = None
           THEN Fail(r, "error") /\ UNCHANGED aged
           ELSE /\ deals' = [deals EXCEPT ![c.deal] = [pipeline |-> c.pipeline,
                                                       stage |-> c.stage, status |-> c.status]]
                /\ Outdate(r, Emptying(c.pipeline, c.stage))
                /\ Reply(r, "ok")
                /\ UNCHANGED <<pipelines, stages>>
    /\ UNCHANGED <<call, local>>

FindDeal(r) ==
    /\ Doing(r, "find", {"updateDeal", "moveDeal", "removeDeal"})
    /\ LET c == call[r]
           row == deals[c.deal]
       IN  \/ row = None /\ Reply(r, "notFound") /\ UNCHANGED local
           \/ /\ row # None
              /\ held' = [held EXCEPT ![r] = row]
              /\ status' = IF c.kind = "updateDeal" THEN [status EXCEPT ![r] = c.status]
                                                    ELSE status
              /\ Goto(r, IF \/ c.kind = "moveDeal"
                            \/ c.kind = "updateDeal" /\ c.stage \notin {None, row.stage}
                         THEN "findStage" ELSE "write")
    /\ UNCHANGED <<tables, call, aged>>

Reopened(old) == IF old \in {"won", "lost"} THEN "open" ELSE old

\* The status that goes with the stage: update leaves what the caller asked
\* for on a stage that does not close, moveToStage reopens.
StatusAt(r, stage) ==
    CASE stage.won -> "won"
      [] ~stage.won /\ stage.lost -> "lost"
      [] OTHER -> IF call[r].kind = "moveDeal" THEN Reopened(held[r].status) ELSE call[r].status

FindStage(r) ==
    /\ pc[r] = "findStage"
    /\ LET s == call[r].stage
       IN  \/ stages[s] = None /\ Reply(r, "notFound") /\ UNCHANGED status
           \/ stages[s] # None /\ ~BelongsTo(s, held[r].pipeline)
                /\ Reply(r, "foreign") /\ UNCHANGED status
           \/ BelongsTo(s, held[r].pipeline)
                /\ status' = [status EXCEPT ![r] = StatusAt(r, stages[s])]
                /\ Goto(r, "write")
    /\ UNCHANGED <<tables, call, held, aged>>

\* Foreign keys: the deal and the stage it goes to are there.
WriteDeal(r) ==
    /\ Doing(r, "write", {"updateDeal", "moveDeal"})
    /\ LET c == call[r]
       IN  IF deals[c.deal] = None \/ (c.stage # None /\ stages[c.stage] = None)
           THEN Fail(r, "error") /\ UNCHANGED aged
           ELSE /\ deals' = [deals EXCEPT ![c.deal].stage = Given(c.stage, @),
                                          ![c.deal].status = Given(status[r], @)]
                /\ Outdate(r, Emptying(None, c.stage) \cup MovingDeal(c.deal))
                /\ Reply(r, "ok")
                /\ UNCHANGED <<pipelines, stages>>
    /\ UNCHANGED <<call, local>>

DeleteDeal(r) ==
    /\ Doing(r, "write", {"removeDeal"})
    /\ IF deals[call[r].deal] = None
       THEN Fail(r, "error")
       ELSE /\ deals' = Without(deals, {call[r].deal})
            /\ Reply(r, "ok")
            /\ UNCHANGED <<pipelines, stages>>
    /\ UNCHANGED <<call, local, aged>>

Next ==
    \E r \in Requests :
        \/ Start(r)
        \/ FindPipeline(r) \/ UnsetDefaults(r) \/ WritePipeline(r)
        \/ FindForStage(r) \/ CheckWon(r) \/ CheckLost(r) \/ WriteStage(r)
        \/ CountDeals(r) \/ DeletePipeline(r) \/ DeleteStage(r)
        \/ FindForDeal(r) \/ CreateDeal(r)
        \/ FindDeal(r) \/ FindStage(r) \/ WriteDeal(r) \/ DeleteDeal(r)

Spec == Init /\ [][Next]_vars

-----------------------------------------------------------------------------
(***************************************************************************)
(* Properties                                                              *)
(***************************************************************************)

\* A deal is at a stage of its own pipeline and a stage in a pipeline that is
\* there, although the stage a deal moves to was looked at in an earlier
\* statement and the tables do not tie a deal's stage to its pipeline.
RowsLinked == Linked(pipelines, stages, deals)

OneDefault == \A p, q \in Defaults : p = q

\* "unset other defaults": a second default pipeline comes only from a request
\* that had unset the others before one of them was made the default again, or
\* that had found its pipeline to be the default before it was unset.
OneDefaultUnlessAged ==
    [][OneDefault /\ ~OneDefault'
       => \E r \in MakingDefault : r \in aged /\ pc'[r] = "done"]_vars

Closing(p, flag) == {s \in StageIds : BelongsTo(s, p) /\ stages[s][flag]}
OneOfEach ==
    \A p \in PipelineIds, flag \in {"won", "lost"} : \A s, t \in Closing(p, flag) : s = t

\* "Ensure only one closed won and one closed lost stage per pipeline": a
\* second one comes only from a request whose look-up, or the row of the stage
\* it had read, is outdated.
OneClosingStageUnlessAged ==
    [][OneOfEach /\ ~OneOfEach'
       => \E p \in PipelineIds : \E r \in ShapingStages(p) : r \in aged /\ pc'[r] = "done"]_vars

\* "Cannot delete pipeline (stage) with associated deals": a deal is lost to
\* the removal of its pipeline or stage only when it came there after the count.
DealsLostOnlyToAgedCounts ==
    [][\A r \in Requests :
          /\ Doing(r, "write", {"removePipeline", "removeStage"})
          /\ pc'[r] = "done"
          /\ \E d \in DealIds : deals[d] # None /\ deals'[d] = None
          => r \in aged]_vars

\* moveToStage leaves the status of a deal in step with the stage it moves
\* to, and leaves an abandoned or open deal as it is on a stage that does not
\* close, unless the deal or the stage was written after it was read.
MovesSettleStatus ==
    [][\A r \in Requests :
          /\ Doing(r, "write", {"moveDeal"}) /\ r \notin aged
          /\ pc'[r] = "done" /\ answer'[r] = "ok"
          => LET before == deals[call[r].deal].status
                 after == deals'[call[r].deal].status
                 stage == stages[call[r].stage]
             IN  /\ stage.won => after = "won"
                 /\ stage.lost /\ ~stage.won => after = "lost"
                 /\ ~stage.won /\ ~stage.lost =>
                       /\ after \notin {"won", "lost"}
                       /\ before \notin {"won", "lost"} => after = before]_vars

DealsHold ==
    /\ OneDefaultUnlessAged /\ OneClosingStageUnlessAged
    /\ DealsLostOnlyToAgedCounts /\ MovesSettleStatus

=============================================================================

------------------------------- MODULE MCCrm -------------------------------
(***************************************************************************)
(* Pipelines with one instance each of Tickets, Companies, Submissions,    *)
(* Campaigns and Rulesets.  Their tables are not shared: a behaviour runs  *)
(* the one that "part" names and leaves the others in their initial        *)
(* states.                                                                 *)
(***************************************************************************)
EXTENDS Pipelines, TLC

CONSTANTS
    r1, r5, main, side, lead, done, extra, deal, fresh,
    acme, bolt, cord, nova, p1, log, e1, e2, f1, column, known, seg, spring, s1, hot, flow,
    TicketCalls,  \* the calls of Tickets
    CompanyIds, ContactIds, ActivityIds, SeedParents, CompanyCalls,
    Emails, Forms, Columns, ColumnForm, EmailColumns, SeedContacts, SubmissionCalls,
    Segments, SeedCampaigns, SeedSends, CampaignCalls,
    Contacts, SeedOwners, RulesetCalls

VARIABLES
    part,
    hPc, hCall, hHeld, hAnswer,
    tickets, clock, tPc, tCall, number, tHeld, tAnswer, passed, tStale, strays,
    companies, contacts, activities, cDeals, moved, misplaced, cAged, blurred,
    people, forms, columns, submissions, values, overlooked,
    segments, campaigns, sends, events, reported, mixed,
    owners, lists, valueOf, torn, stale, rAged, runs

hVars == <<hPc, hCall, hHeld, hAnswer>>
tVars == <<tickets, clock, tPc, tCall, number, tHeld, tAnswer, passed, tStale, strays>>
cVars == <<companies, contacts, activities, cDeals, moved, misplaced, cAged, blurred>>
sVars == <<people, forms, columns, submissions, values, overlooked>>
mVars == <<segments, campaigns, sends, events, reported, mixed>>
rVars == <<owners, lists, valueOf, torn, stale, rAged, runs>>

-----------------------------------------------------------------------------
\* A default pipeline with an open and a closing stage and one deal, an empty
\* pipeline, room for one more row of each kind.

PipelineRows == [p \in {main, side} |-> IF p = main THEN [isDefault |-> TRUE] ELSE None]
StageRows == [s \in {lead, done, extra} |->
    IF s = extra THEN None ELSE [pipeline |-> main, won |-> s = done, lost |-> FALSE]]
DealRows == [d \in {deal, fresh} |->
    IF d = fresh THEN None ELSE [pipeline |-> main, stage |-> lead, status |-> "open"]]
DealCalls ==
    {[kind |-> "createPipeline", pipeline |-> side, isDefault |-> TRUE],
     [kind |-> "removePipeline", pipeline |-> main],
     [kind |-> "createStage", stage |-> extra, pipeline |-> side, won |-> FALSE, lost |-> TRUE],
     [kind |-> "updateStage", stage |-> done, won |-> FALSE, lost |-> TRUE],
     [kind |-> "updateStage", stage |-> lead, won |-> TRUE, lost |-> None],
     [kind |-> "createDeal", deal |-> fresh, pipeline |-> main, stage |-> lead, status |-> "open"],
     [kind |-> "updateDeal", deal |-> deal, stage |-> None, status |-> "abandoned"],
     [kind |-> "updateDeal", deal |-> deal, stage |-> done, status |-> None],
     [kind |-> "removeDeal", deal |-> deal]}
      \cup [kind: {"updatePipeline"}, pipeline: {main, side}, isDefault: BOOLEAN]
      \cup [kind: {"createStage"}, stage: {extra}, pipeline: {main}, won: BOOLEAN, lost: {FALSE}]
      \cup [kind: {"removeStage"}, stage: {lead, done}]
      \cup [kind: {"moveDeal"}, deal: {deal}, stage: {lead, done, extra}]

\* Five calls that create tickets, change the status of the first or remove any.
CallsOfTickets ==
    [kind: {"create"}, status: {"new"}]
      \cup [kind: {"update"}, ticket: {r1},
            status: {"new", "pending", "resolved", "closed"}]
      \cup [kind: {"remove"}, ticket: {r1, r5}]

\* bolt is the parent of cord; acme has none.
CompanyRows == (acme :> None) @@ (bolt :> None) @@ (cord :> bolt)
CallsOfCompanies ==
    {[kind |-> "updateCompany", company |-> acme, parent |-> cord],
     [kind |-> "updateCompany", company |-> bolt, parent |-> acme],
     [kind |-> "updateCompany", company |-> cord, parent |-> "keep"],
     [kind |-> "updateCompany", company |-> cord, parent |-> None],
     [kind |-> "createCompany", company |-> nova, parent |-> acme],
     [kind |-> "removeCompany", company |-> acme],
     [kind |-> "removeCompany", company |-> cord],
     [kind |-> "linkContact", contact |-> p1, company |-> cord],
     [kind |-> "logActivity", activity |-> log, contact |-> p1, company |-> cord, deal |-> None],
     [kind |-> "logActivity", activity |-> log, contact |-> None, company |-> None, deal |-> deal],
     [kind |-> "logActivity", activity |-> log, contact |-> None, company |-> None, deal |-> None],
     [kind |-> "updateActivity", activity |-> log, contact |-> None, company |-> "keep", deal |-> "keep"],
     [kind |-> "updateActivity", activity |-> log, contact |-> "keep", company |-> None, deal |-> "keep"],
     [kind |-> "updateActivity", activity |-> log, contact |-> p1, company |-> "keep", deal |-> None],
     [kind |-> "removeDeal", deal |-> deal],
     [kind |-> "removeActivity", activity |-> log]}

\* One form with one column mapped to the address, one contact known.
FormOfColumns == column :> f1
ContactsAtFirst == known :> e1
CallsOfSubmissions ==
    [kind: {"submit"}, form: {f1}, email: {e1, e2}, columns: {{column}}, as: {e1, e2}]
      \cup [kind: {"createContact"}, email: {e2}]
      \cup [kind: {"updateContact"}, contact: {known}, email: {e2}]
      \cup [kind: {"removeContact"}, contact: {known}]
      \cup [kind: {"updateForm"}, form: {f1}, status: {"archived"}]
      \cup [kind: {"removeForm"}, form: {f1}]
      \cup [kind: {"createColumn", "removeColumn"}, column: {column}]

\* One campaign with one send.
CampaignRows == spring :> seg
SendRows == s1 :> spring
CallsOfCampaigns ==
    [kind: {"record"}, send: {s1}, type: {"sent", "delivered", "opened", "bounced"}]
      \cup [kind: {"createCampaign", "removeSegment"}, segment: {seg}]
      \cup [kind: {"updateCampaign"}, campaign: {spring}, segment: {seg}]
      \cup [kind: {"removeCampaign"}, campaign: {spring}]

\* Three contacts, a segment of those with a property and an empty workflow.
Rule(operator, value) == [operator |-> operator, value |-> value]
ContactRows == (p1 :> None) @@ (acme :> 0) @@ (bolt :> 1) @@ (cord :> 2)
OwnerRows == (hot :> [type |-> "dynamic", list |-> {Rule("is_not_empty", 0)}])
               @@ (flow :> [type |-> "active", list |-> {}])
CallsOfRulesets ==
    {[kind |-> "createOwner", type |-> "dynamic", list |-> {Rule("is_empty", 0)}],
     [kind |-> "createOwner", type |-> "active", list |-> {[action |-> "email"]}],
     [kind |-> "updateOwner", owner |-> hot, type |-> "dynamic",
      list |-> {Rule("greater_than", 0), Rule("not_equals", 1)}],
     [kind |-> "updateOwner", owner |-> hot, type |-> None, list |-> {Rule("less_than", 1)}],
     [kind |-> "updateOwner", owner |-> hot, type |-> "static", list |-> None],
     [kind |-> "updateOwner", owner |-> flow, type |-> None,
      list |-> {[action |-> "email"], [action |-> "delayed"]}],
     [kind |-> "updateOwner", owner |-> flow, type |-> "inactive", list |-> {[action |-> "webhook"]}]}
      \cup [kind: {"removeOwner"}, owner: {hot, flow}]
      \cup [kind: {"execute"}, owner: {flow}]
      \cup [kind: {"saveContact"}, contact: {p1, nova}, value: {2}]

-----------------------------------------------------------------------------

T == INSTANCE Tickets WITH
        pc <- tPc, call <- tCall, held <- tHeld, answer <- tAnswer, stale <- tStale,
        Requests <- Requests \cup {r1, r5}, Calls <- TicketCalls
C == INSTANCE Companies WITH
        pc <- hPc, call <- hCall, held <- hHeld, answer <- hAnswer, aged <- cAged,
        deals <- cDeals, DealIds <- {deal}
S == INSTANCE Submissions WITH
        pc <- hPc, call <- hCall, held <- hHeld, answer <- hAnswer
M == INSTANCE Campaigns WITH
        pc <- hPc, call <- hCall, held <- hHeld, answer <- hAnswer
R == INSTANCE Rulesets WITH
        pc <- hPc, call <- hCall, held <- hHeld, answer <- hAnswer, aged <- rAged

ASSUME PartsAssumption ==
    /\ T!TicketsAssumption /\ C!CompaniesAssumption /\ S!SubmissionsAssumption
    /\ M!CampaignsAssumption /\ R!RulesetsAssumption

MCSymmetry == Permutations(Requests)

MCInit ==
    /\ part \in {"deals", "tickets", "companies", "submissions", "campaigns", "rulesets"}
    /\ Init /\ T!Init /\ C!Init /\ S!Init /\ M!Init /\ R!Init

MCNext ==
    /\ UNCHANGED part
    /\ \/ part = "deals" /\ Next /\ UNCHANGED <<hVars, tVars, cVars, sVars, mVars, rVars>>
       \/ part = "tickets" /\ T!Next /\ UNCHANGED <<hVars, vars, cVars, sVars, mVars, rVars>>
       \/ part = "companies" /\ C!Next /\ UNCHANGED <<vars, tVars, sVars, mVars, rVars>>
       \/ part = "submissions" /\ S!Next /\ UNCHANGED <<vars, tVars, cVars, mVars, rVars>>
       \/ part = "campaigns" /\ M!Next /\ UNCHANGED <<vars, tVars, cVars, sVars, rVars>>
       \/ part = "rulesets" /\ R!Next /\ UNCHANGED <<vars, tVars, cVars, sVars, mVars>>

MCSpec == MCInit /\ [][MCNext]_<<part, hVars, vars, tVars, cVars, sVars, mVars, rVars>>

Typed ==
    /\ TypeOK /\ T!TypeOK
    /\ part = "companies" => C!TypeOK
    /\ part = "submissions" => S!TypeOK
    /\ part = "campaigns" => M!TypeOK
    /\ part = "rulesets" => R!TypeOK
TicketsHold == T!TicketsHold
NumberTakenOnlyIfPassed == T!NumberTakenOnlyIfPassed
CompaniesHold == part = "companies" => C!CompaniesHold
CountsFollowSubmissions == part = "submissions" => S!CountsFollowSubmissions
LostOnlyIfOverlooked == C!LinksLostOnlyToAgedCounts /\ S!SubmissionsLostOnlyIfOverlooked
EventsHold == part = "campaigns" => M!StatusIsOfTheLatestFirst /\ M!TotalsCountEvents
SubmittersAreFoundOrCreated == S!SubmittersAreFoundOrCreated
RulesetsHold == part = "rulesets" => R!ListsAreOneCalls /\ R!CountsHold

=============================================================================

------------------------------ MODULE Campaigns ------------------------------
(***************************************************************************)
(* Email campaigns and the events a mail provider reports of their sends:  *)
(* campaigns.service.ts, with the removal of the segment a campaign goes   *)
(* to.  recordEmailEvent reads the send, stores the event, updates the     *)
(* send from what it read and increments a total, a statement each; events *)
(* come late, twice and in any order.  Nothing in the program creates      *)
(* sends.  Campaigns and events have the names of the requests that create *)
(* them.                                                                   *)
(***************************************************************************)
EXTENDS Handlers

CONSTANTS
    Segments,
    SeedCampaigns,  \* campaigns there are at first, with their segments
    SeedSends,      \* sends there are at first, with their campaigns
    CampaignCalls   \* the calls clients and the provider make

EventTypes == {"sent", "delivered", "opened", "clicked", "bounced"}
CampaignNames == Requests \cup DOMAIN SeedCampaigns
Sends == DOMAIN SeedSends
CampaignCall == [kind: {"createCampaign"}, segment: Segments]
                  \cup [kind: {"updateCampaign"}, campaign: CampaignNames, segment: Segments]
                  \cup [kind: {"removeCampaign"}, campaign: CampaignNames]
                  \cup [kind: {"removeSegment"}, segment: Segments]
EventCall == [kind: {"record"}, send: Sends, type: EventTypes]

Counted == {"sent", "opened", "clicked"}  \* the types a campaign has a total of
Timed == {"sent", "delivered", "opened", "clicked"}  \* those a send has a time of
Campaign == [segment: Segments, totals: [Counted -> Nat]]
Send == [status: {"queued", "sent", "delivered"}, times: SUBSET Timed]

CampaignsAssumption ==
    /\ CampaignCalls \subseteq CampaignCall \cup EventCall
    /\ DOMAIN SeedCampaigns \cap Requests = {}
    /\ \A c \in DOMAIN SeedCampaigns : SeedCampaigns[c] \in Segments
    /\ \A s \in Sends : SeedSends[s] \in DOMAIN SeedCampaigns
    /\ None \notin Campaign /\ None \notin Send
    /\ IsFiniteSet(Requests)

VARIABLES
    segments,   \* the segments there are
    campaigns,  \* None, or [segment, totals]
    sends,      \* None, or [status, times]: the types whose time is set
    events,     \* the rank of the event a request stored, 0 if none
    reported,   \* the events that were stored so far
    mixed       \* history: sends two of whose events were handled at a time

tables == <<segments, campaigns, sends, events, reported>>
vars == <<handlers, tables, mixed>>

TypeOK ==
    /\ Handling({"toSegment", "newCampaign", "campaign", "writeCampaign", "deleteCampaign",
                 "segment", "deleteSegment", "send", "event", "updateSend", "total"},
                CampaignCalls, {})
    /\ segments \in SUBSET Segments
    /\ campaigns \in [CampaignNames -> Campaign \cup {None}]
    /\ sends \in [Sends -> Send \cup {None}]
    /\ events \in [Requests -> Nat] /\ reported \in Nat
    /\ mixed \in SUBSET Sends

New(segment) == [segment |-> segment, totals |-> [t \in Counted |-> 0]]

Init ==
    /\ HandlersInit
    /\ segments = Segments
    /\ campaigns = [c \in CampaignNames |->
           IF c \in DOMAIN SeedCampaigns THEN New(SeedCampaigns[c]) ELSE None]
    /\ sends = [s \in Sends |-> [status |-> "queued", times |-> {}]]
    /\ events = [r \in Requests |-> 0] /\ reported = 0
    /\ mixed = {}

StartWith(r, kind, label) ==
    /\ \E c \in {c \in CampaignCalls : c.kind = kind} : Begin(r, c, label)
    /\ UNCHANGED <<tables, mixed>>

Start(r) ==
    \/ StartWith(r, "createCampaign", "toSegment")
    \/ StartWith(r, "updateCampaign", "campaign") \/ StartWith(r, "removeCampaign", "campaign")
    \/ StartWith(r, "removeSegment", "segment")
    \/ StartWith(r, "record", "send")

-----------------------------------------------------------------------------
(***************************************************************************)
(* Campaigns and the segments they go to                                   *)
(***************************************************************************)

FindSegment(r) ==
    /\ \/ pc[r] = "toSegment" /\ call[r].segment \in segments /\ Goto(r, "newCampaign")
       \/ pc[r] = "segment" /\ call[r].segment \in segments /\ Goto(r, "deleteSegment")
       \/ pc[r] \in {"toSegment", "segment"} /\ call[r].segment \notin segments /\ Reply(r, "notFound")
    /\ UNCHANGED <<tables, mixed>>

FindCampaign(r) ==
    /\ pc[r] = "campaign"
    /\ IF campaigns[call[r].campaign] = None THEN Reply(r, "notFound")
       ELSE Goto(r, IF Kind(r) = "updateCampaign" THEN "writeCampaign" ELSE "deleteCampaign")
    /\ UNCHANGED <<tables, mixed>>

CreateCampaign(r) ==
    /\ pc[r] = "newCampaign"
    /\ IF call[r].segment \notin segments THEN Fails(r) /\ UNCHANGED campaigns
       ELSE campaigns' = [campaigns EXCEPT ![r] = New(call[r].segment)] /\ Reply(r, "ok")
    /\ UNCHANGED <<segments, sends, events, reported, mixed>>

\* Neither a total nor a send is touched.
WriteCampaign(r) ==
    /\ pc[r] = "writeCampaign"
    /\ LET c == call[r].campaign
       IN  IF campaigns[c] = None \/ call[r].segment \notin segments
           THEN Fails(r) /\ UNCHANGED campaigns
           ELSE campaigns' = [campaigns EXCEPT ![c].segment = call[r].segment] /\ Reply(r, "ok")
    /\ UNCHANGED <<segments, sends, events, reported, mixed>>

\* onDelete: Cascade, from a segment to its campaigns and on to their sends
\* and the events of these.
Cascade(gone) ==
    LET lost == {s \in Sends : SeedSends[s] \in gone}
    IN  /\ campaigns' = [c \in CampaignNames |-> IF c \in gone THEN None ELSE campaigns[c]]
        /\ sends' = [s \in Sends |-> IF s \in lost THEN None ELSE sends[s]]
        /\ events' = [e \in Requests |->
               IF events[e] # 0 /\ call[e].send \in lost THEN 0 ELSE events[e]]
        /\ UNCHANGED reported

DeleteCampaign(r) ==
    /\ pc[r] = "deleteCampaign"
    /\ IF campaigns[call[r].campaign] = None THEN Fails(r) /\ UNCHANGED tables
       ELSE Cascade({call[r].campaign}) /\ Reply(r, "ok") /\ UNCHANGED segments
    /\ UNCHANGED mixed

DeleteSegment(r) ==
    /\ pc[r] = "deleteSegment"
    /\ LET s == call[r].segment
       IN  IF s \notin segments THEN Fails(r) /\ UNCHANGED tables
           ELSE /\ Cascade({c \in CampaignNames : campaigns[c] # None /\ campaigns[c].segment = s})
                /\ segments' = segments \ {s}
                /\ Reply(r, "ok")
    /\ UNCHANGED mixed

-----------------------------------------------------------------------------
(***************************************************************************)
(* recordEmailEvent                                                        *)
(***************************************************************************)

Recording(s) ==
    {r \in At("send") \cup At("event") \cup At("updateSend") \cup At("total") : call[r].send = s}

FindSend(r) ==
    /\ pc[r] = "send"
    /\ LET s == call[r].send
       IN  IF sends[s] = None THEN Reply(r, "notFound") /\ UNCHANGED mixed
           ELSE /\ Continue(r, "event", sends[s])
                /\ mixed' = IF \E q \in Recording(s) \ {r} : pc[q] \in {"event", "updateSend"}
                            THEN mixed \cup {s} ELSE mixed
    /\ UNCHANGED tables

\* Slip: every copy of an event sets its time and the status.
EveryTime(row, type) == type \in Timed

SetsTime(row, type) == type \in Timed /\ type \notin row.times

ToTotal(r) == IF call[r].type \in Counted THEN Goto(r, "total") ELSE Reply(r, "ok")

CreateEvent(r) ==
    /\ pc[r] = "event"
    /\ IF sends[call[r].send] = None THEN Fails(r) /\ UNCHANGED <<events, reported>>
       ELSE /\ reported' = reported + 1
            /\ events' = [events EXCEPT ![r] = reported']
            /\ IF SetsTime(held[r], call[r].type) THEN Goto(r, "updateSend") ELSE ToTotal(r)
    /\ UNCHANGED <<segments, campaigns, sends, mixed>>

UpdateSend(r) ==
    /\ pc[r] = "updateSend"
    /\ LET s == call[r].send
           type == call[r].type
       IN  IF sends[s] = None THEN Fails(r) /\ UNCHANGED sends
           ELSE /\ sends' = [sends EXCEPT ![s] =
                       [status |-> IF type \in {"sent", "delivered"} THEN type ELSE @.status,
                        times |-> @.times \cup {type}]]
                /\ ToTotal(r)
    /\ UNCHANGED <<segments, campaigns, events, reported, mixed>>

Incremented(total) == total + 1

UpdateTotal(r) ==
    /\ pc[r] = "total"
    /\ LET c == SeedSends[call[r].send]
       IN  IF campaigns[c] = None THEN Fails(r) /\ UNCHANGED campaigns
           ELSE /\ campaigns' = [campaigns EXCEPT ![c].totals[call[r].type] = Incremented(@)]
                /\ Reply(r, "ok")
    /\ UNCHANGED <<segments, sends, events, reported, mixed>>

Next ==
    \E r \in Requests :
        \/ Start(r)
        \/ FindSegment(r) \/ FindCampaign(r) \/ CreateCampaign(r) \/ WriteCampaign(r)
        \/ DeleteCampaign(r) \/ DeleteSegment(r)
        \/ FindSend(r) \/ CreateEvent(r) \/ UpdateSend(r) \/ UpdateTotal(r)

Spec == Init /\ [][Next]_vars

-----------------------------------------------------------------------------
(***************************************************************************)
(* Properties                                                              *)
(***************************************************************************)

EventsOf(s, type) ==
    {e \in Requests : events[e] # 0 /\ call[e].send = s /\ call[e].type = type}
Deliveries == {"sent", "delivered"}

\* Whatever copies come later, the status of a send is the one of "sent" and
\* "delivered" that came first for the last time: a late "sent" takes a
\* delivered mail back, a second one does not.  Events handled at a time may
\* write in either order.
StatusIsOfTheLatestFirst ==
    \A s \in Sends :
        (sends[s] # None /\ s \notin mixed /\ Recording(s) \subseteq At("send")) =>
            /\ sends[s].times = {type \in Timed : EventsOf(s, type) # {}}
            /\ \A type \in Deliveries : EventsOf(s, type) # {} =>
                  /\ sends[s].status # "queued"
                  /\ \E e \in EventsOf(s, type) :
                        \A f \in EventsOf(s, sends[s].status) : events[e] <= events[f]
            /\ sends[s].status # "queued" => EventsOf(s, sends[s].status) # {}

\* The totals of a campaign count the events that are stored, every copy of
\* them, less those whose handler is on its way to the total.
TotalsCountEvents ==
    \A c \in DOMAIN SeedCampaigns : campaigns[c] # None =>
        \A type \in Counted :
            campaigns[c].totals[type] = Cardinality({r \in Requests :
                /\ events[r] # 0 /\ SeedSends[call[r].send] = c /\ call[r].type = type
                /\ pc[r] \notin {"updateSend", "total"}})

=============================================================================

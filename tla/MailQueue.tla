------------------------------ MODULE MailQueue -------------------------------
(***************************************************************************)
(* The queue 'email' and its processor: what the services add, one worker  *)
(* takes in turn, and e-mail.service hands to the transport.  The queue    *)
(* itself (BullMQ on Redis) and the mail server are not part of the        *)
(* program: of the queue is modelled that it keeps its jobs when the       *)
(* process stops, tries again what threw while attempts are left, and puts *)
(* back once what a worker had when it stopped.                            *)
(***************************************************************************)
EXTENDS Handlers, Sequences

CONSTANTS
    Users,
    MaxJobs,     \* bound: jobs in a behaviour
    MaxCrashes   \* bound: stops of the process

\* What there are mails for, by the part of e-mail.service that writes them.
AccountMails == {"verification", "password-reset"}
TaskMails == {"task-assigned", "task-updated", "comment-added", "project-created"}
NoticeMails == {"notification", "workspace-invitation", "2fa-code"}
SharingMails == {"share-created", "assignment-created", "assignment-status-changed"}
TagMails == {"mentioned", "tag-created", "taggable-tagged"}
TicketMails == {"ticket-created", "ticket-assigned", "ticket-status-changed"}
SalesMails == {"deal-created", "deal-stage-changed", "form-submission", "campaign-sent"}

\* The branches of process; a job of another type is done without a mail.
Branches ==
    AccountMails \cup TaskMails \cup NoticeMails \cup SharingMails \cup TagMails \cup TicketMails \cup SalesMails

\* Slip: no service asks for another attempt.
OneAttempt(type) == 1

\* The options an invitation is added with; the others are added with none.
Attempts(type) == IF type = "workspace-invitation" THEN 3 ELSE 1

MaxStalled == 1

MailQueueAssumption == MaxJobs \in Nat /\ MaxCrashes \in Nat /\ None \notin [job: Nat, at: {"taken", "returned", "threw"}]

\* No service adds a job of another type.
Job == [type: Branches, to: Users, deed: Requests, refusals: 0..3, stalls: 0..(MaxStalled + 1),
        state: {"waiting", "active", "delayed", "completed", "failed"}]

VARIABLES
    jobs,      \* in the order they were added
    waiting,   \* the jobs to be taken, next first
    worker,    \* [job, at]: what it has and how far it is, or None
    mails,     \* the job of each mail the server took, in order
    crashes

mailing == <<jobs, waiting, worker, mails, crashes>>

Jobs == DOMAIN jobs

MailQueueTyped ==
    /\ Len(jobs) <= MaxJobs /\ \A j \in Jobs : jobs[j] \in Job
    /\ \A k \in DOMAIN waiting : waiting[k] \in Jobs
    /\ worker \in {None} \cup [job: Jobs, at: {"taken", "returned", "threw"}]
    /\ \A k \in DOMAIN mails : mails[k] \in Jobs
    /\ crashes \in 0..MaxCrashes

MailQueueInit ==
    jobs = <<>> /\ waiting = <<>> /\ worker = None /\ mails = <<>> /\ crashes = 0

\* emailQueue.add
Add(type, u, r) ==
    /\ jobs' = Append(jobs, [type |-> type, to |-> u, deed |-> r, refusals |-> 0, stalls |-> 0,
                             state |-> "waiting"])
    /\ waiting' = Append(waiting, Len(jobs) + 1)
    /\ UNCHANGED <<worker, mails, crashes>>

-----------------------------------------------------------------------------

Turned(j, state) == [jobs EXCEPT ![j].state = state]

Take ==
    /\ worker = None /\ waiting # <<>>
    /\ worker' = [job |-> Head(waiting), at |-> "taken"]
    /\ jobs' = Turned(Head(waiting), "active")
    /\ waiting' = Tail(waiting)
    /\ UNCHANGED <<mails, crashes>>

Got(at) == worker # None /\ worker.at = at

\* sendMail: the server takes the mail or refuses it, or takes it and the answer is lost.
Send(j) ==
    \/ mails' = Append(mails, j) /\ worker' = [worker EXCEPT !.at = "returned"]
    \/ /\ mails' \in {mails, Append(mails, j)}
       /\ worker' = [worker EXCEPT !.at = "threw"]

Process ==
    /\ Got("taken")
    /\ IF jobs[worker.job].type \in Branches THEN Send(worker.job)
       ELSE worker' = [worker EXCEPT !.at = "returned"] /\ UNCHANGED mails
    /\ UNCHANGED <<jobs, waiting, crashes>>

Complete ==
    /\ Got("returned")
    /\ jobs' = Turned(worker.job, "completed")
    /\ worker' = None
    /\ UNCHANGED <<waiting, mails, crashes>>

\* What threw waits for its backoff, or has failed.
Retry ==
    /\ Got("threw")
    /\ LET j == worker.job
           more == jobs[j].refusals + 1 < Attempts(jobs[j].type)
       IN  jobs' = [Turned(j, IF more THEN "delayed" ELSE "failed") EXCEPT ![j].refusals = @ + 1]
    /\ worker' = None
    /\ UNCHANGED <<waiting, mails, crashes>>

Promote(j) ==
    /\ jobs[j].state = "delayed"
    /\ jobs' = Turned(j, "waiting")
    /\ waiting' = Append(waiting, j)
    /\ UNCHANGED <<worker, mails, crashes>>

\* A job that is active though no worker has it goes back to the head.
Stall(j) ==
    /\ jobs[j].state = "active" /\ ~(worker # None /\ worker.job = j)
    /\ LET again == jobs[j].stalls < MaxStalled
       IN  /\ jobs' = [Turned(j, IF again THEN "waiting" ELSE "failed") EXCEPT ![j].stalls = @ + 1]
           /\ waiting' = IF again THEN <<j>> \o waiting ELSE waiting
    /\ UNCHANGED <<worker, mails, crashes>>

\* The process stops and starts again.
WorkerStops ==
    /\ crashes < MaxCrashes
    /\ crashes' = crashes + 1
    /\ worker' = None
    /\ UNCHANGED <<jobs, waiting, mails>>

Work == Take \/ Process \/ Complete \/ Retry
WorkAgain == \E j \in Jobs : Promote(j) \/ Stall(j)

WorkFairly ==
    /\ WF_mailing(Work)
    /\ \A j \in 1..MaxJobs : WF_mailing(j \in Jobs /\ (Promote(j) \/ Stall(j)))

-----------------------------------------------------------------------------
(***************************************************************************)
(* Properties                                                              *)
(***************************************************************************)

MailsOf(j) == {k \in DOMAIN mails : mails[k] = j}

\* Nobody gets a mail twice unless an answer of the server was lost or the
\* process stopped under the job; a job that is done was mailed: no service adds
\* one that process has no branch for.
MailsMatchJobs ==
    \A j \in Jobs :
        /\ Cardinality(MailsOf(j)) <= 1 + jobs[j].refusals + jobs[j].stalls
        /\ jobs[j].state = "completed" => MailsOf(j) # {}

\* The tokens of verification, reset and invitation mails: a mail that arrives
\* after that of a later job was tried before, or cut off by a stop.
MailsInOrder ==
    \A k, n \in DOMAIN mails :
        k < n /\ mails[k] > mails[n] => jobs[mails[n]].refusals + jobs[mails[n]].stalls > 0

\* "attempts: 3": a job is mailed, or had no branch, or was refused as often as
\* its kind is to be tried, or was cut off twice.
Settled(j) ==
    \/ jobs[j].state = "completed"
    \/ /\ jobs[j].state = "failed"
       /\ \/ jobs[j].stalls > MaxStalled
          \/ jobs[j].refusals = (IF jobs[j].type = "workspace-invitation" THEN 3 ELSE 1)

=============================================================================

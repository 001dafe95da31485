# TLA+ specifications of the PMS/CRM service

The repository is a NestJS server for project management (workspaces, projects, tasks) and
customer relations (pipelines, deals, tickets), over PostgreSQL through Prisma, with a mail
queue (BullMQ on Redis), two file stores and WebSocket gateways. These modules model the parts
of it whose correctness depends on the order of events. Paths below are relative to `src/src/`
unless they say otherwise.

To check: `tlc -config X.cfg M` for a run of the table below, `tlapm M.tla` for the modules
named `*Proofs`.

## 1. What makes this system hard

The services never open a database transaction. A handler reads rows, decides, and writes some
`await`s later, by id and without a condition on what it read; between two awaits Node serves
other requests. What stays true then is what single statements guarantee: unique keys, foreign
keys and cascades of `src/prisma/schema.prisma`, `updateMany`/`deleteMany` with a `where`, and
`increment`. Everything else is a check that may have aged. The hard behaviours are therefore

- two requests that interleave between a check and the write it guards (duplicates, cycles,
  deleted parents, overwritten status);
- a handler that stops half-way (a statement that fails, the queue that refuses a job, a
  process that ends) after one of several writes;
- clocks: invitations, reset tokens and sessions lapse while requests are under way;
- references without a foreign key: tags, assignments, shares, files and comments name their
  entity by type and id, and the entity can go away;
- long sequences of legal calls (reopen, close, reopen; disable and enable the second factor);
- what leaves the database: mails through a queue that tries again, notifications pushed to whoever
  is in a room at that moment, files whose object and row live in two stores; and the process that
  stops in the middle of each.

Most properties are stated in one of two ways: what holds always, whatever interleaves; or what
holds *unless* one named kind of overlap occurred, which a history variable records (`raced`,
`stale`, `aged`, `passed`, `crossed`, `shifted`). The second kind is the sharper statement: it says which
overlap breaks the promise and that nothing else does. Where even the sequential program breaks
a documented promise, a run shows the counterexample (section 5).

## 2. Inventory

| Component | State it keeps | Operations | What makes it correct | Model |
|---|---|---|---|---|
| Task dependencies `pms/tasks/tasks.service.ts` | rows (task, dependsOn) | create/remove task, add (breadth-first cycle check, one query per node), remove | acyclic, same project, no duplicate; refusals justified; every call ends | `TaskGraph` |
| Checklists `pms/tasks/tasks.service.ts` | items with an order index | add (max + 1), update, delete, reorder | positions distinct; a reorder puts the items as asked | `Checklists` |
| Invitations `pms/workspaces/services/workspace-invitation.service.ts`, `register` in `auth/auth.service.ts` | invitation rows: status, term, acceptance | invite, get by token, accept, cancel, resend, register with a token | one live invitation per address; a settled status stays; accepted by the invitee | `Invitations` |
| Workspaces, projects, teams, roles `pms/workspaces`, `pms/projects`, `pms/teams`, `pms/rbac` | rows, memberships, roles of users | creates, updates, removals, memberships, the two guards | managers are members; memberships follow the answers; permissions come from roles | `Workplace` |
| Assignments, shares `pms/assignments`, `pms/shares` | rows (entity, user or team, status or term) | create, update, update status, remove | one active row per pair; completion times agree with the status | `Delegations` |
| Comments `pms/collaboration` | comments with a deletion mark, mentions, time logs | create, edit, delete, log | a deleted comment keeps its text; written by its author with access | `Comments` |
| Tags `pms/tags/tags.service.ts` | tags with a usage count, taggings | create, update, remove, add/remove tagging | count = taggings; names unique; a tag in use is kept | `Tags` |
| Lists `common/utils/pagination.util.ts`, every `findAll` | none | one page after the other | a client that reads to the end sees every row once | `Listings` |
| Account tokens `auth/auth.service.ts` | user row: verified, verification and reset token, term | resend, verify, forgot, reset | tokens in rows reach clients; a reset token works once, within its term | `Accounts` |
| Two-factor `auth/services/two-factor.service.ts` | user row: switch, secret, backup codes | enable, confirm, disable, verify TOTP or backup code, regenerate | switch implies secret; used codes stay used; the list is the last issued | `TwoFactor` |
| Passkeys `auth/passkeys` | credentials; challenges in a Map of the process | options and verification of registration and login, deletion, timer, restart | a challenge is used once; counters that count grow | `Passkeys` |
| Sessions `auth/services/session.service.ts`, `auth/auth.controller.ts`, JWT strategy | session rows, expiry signed into tokens | three ways to log in, the guard of every request, logout, revoke one, revoke all | a revocation holds; only one's own sessions | `Sessions` |
| Pipelines, stages, deals `crm/pipelines`, `crm/deals` | pipelines, stages, deals | all creates, updates, removals, moveToStage | one default, one closing stage of a kind, deals at a stage of their pipeline, status follows stage | `Pipelines` |
| Tickets `crm/tickets` | tickets with number and status times | create, update, remove | numbers unique and ordered; times agree with status | `Tickets` |
| Companies, activities `crm/companies`, `crm/activities`, `crm/contacts` | parent of each company, company of a contact, what an activity names | create, update (walks up the parents), remove (two counts), link | hierarchy without a cycle; a removal detaches no contact or subsidiary unseen (of deals, which its comment names, it counts none); an activity names a contact, a company or a deal | `Companies` |
| Contacts, forms, submissions `crm/contacts`, `crm/forms`, `crm/submissions` | contacts (deleted by a mark, unique address), forms with a count, columns, submissions | submit: find or create the contact, store, store values, map, mark, count | a submission is counted once; its contact is found or created | `Submissions` |
| Campaigns `crm/campaigns` | sends with status, events, totals | create, update, remove, recordEmailEvent | totals count events; status is that of the events | `Campaigns` |
| Segments, workflows `crm/segments`, `crm/workflows` | owners with a list in rows of its own, stored counts | create, update (replaces the list), remove, execute, count | a list is of one call, in part only after an error; a count is that of the list unless the list or the contacts changed since | `Rulesets` |
| Mail queue `queue/processors`, `auth/services/email.service.ts` | jobs | add, process, retry, stall | every job settles; a second copy, or a mail out of order, has a refusal or a stop behind it | `MailQueue` |
| Notifications, events `pms/notifications`, `websocket` | notification rows; the rooms of sockets | one event for each kind of deed; join, leave, read, mark, delete | followers are told, once; a watching client misses nothing | `Notices` |
| Files `files` | rows; objects on disk or S3 | upload, download, delete, move | what is listed is whole until its uploader deletes it; a download fails of it only where the storage does | `Files`, `FileStore` |
| Products `crm/products` | rows under a unique key | single-row writes | - | no: nothing creates the deal products its removal counts |
| gRPC facade `grpc`, CSRF, health, `common`, `main.ts`, Prisma service | - | - | - | no: mapping, formatting, configuration |

How they interact: controllers call services in the process; services share the database and
nothing else, except the challenge Map of passkeys and the rooms of the gateway. A handler stores
its own row first; then it stores a notification for each follower, pushes it to that user's room
and adds a mail to the queue; last it emits the event to the rooms of the entity. An error on the
way is the answer of the call, and the row stays. One worker takes the mails. Registration accepts
an invitation on its own, beside the invitation service.

## 3. How the modules read

Each module is one component. `Requests` is the set of calls; a member starts once with any
call of the constant that lists them, goes through the labels of `pc` - one action for each
`await` that touches shared state - and stops with an `answer`. The local variables of the
handler (`user`, `due`, `held`, `number`, ...) are functions of the request. Tables are functions
or sets of records holding the columns the handlers read or write. A row takes its id from the
request that creates it, or from a fresh id its call names.

`Handlers` holds what handlers have in common (`Begin`, `Goto`, `Continue`, `Reply`, `Fails`); the
newer modules extend it. Where a handler runs statements side by side (`Promise.all`), the order
of the statements is free.

Every database statement is one atomic step with the keys and cascades of the schema in it: a
`create` that meets a unique key or a missing parent answers "error", an `update` or `delete` of
a row that is gone fails (Prisma's P2025). Password hashing, token generation and what is told to
others are steps only where something shared can change in between. Password comparison and rows
of other components that the calls only read are free choices.

| Module | Variables ↔ code | Actions ↔ code |
|---|---|---|
| `TaskGraph` | `tasks` the live tasks, `deps` the rows of `TaskDependency`; `queue`, `visited` the locals of `checkCircularDependency` | `FindTask`, `FindOn`, `FindPair` the checks of `addTaskDependency`; `Walk` one round of the search; `CreateDependency` the insert; `FindRow`/`DeleteRow` the removal; `CreateTask`/`DeleteTask` |
| `Invitations` | `inv` the rows, `workspaces`, `users` what there is, `now` the clock | `FindPending`, `FindProjects`, `CreateInvitation` to invite; `ReadInvitation` then `MarkExpired`, `FindUser`/`Accept`, `Cancel` or `Extend`; registration is `CreateUser`, `ReadForRegister`, `Accept` |
| `Accounts` | `acct` the token columns of the users, `mailed`/`unsent` what the queue took or refused | `ReadForX` by address or token, `StoreVerification`/`StoreReset`/`StorePassword`/`SetVerified` the update, `MailToken` the job |
| `TwoFactor` | `row` the switch, secret and list of one account, `read` what the handler holds of it | `Find` with the refusals, `Store` (or `StoreFails`) what was computed from the row read |
| `Passkeys` | `challenges`, `keyOf` the Map, `sweepAt` its timer, `passkeys` the credentials, `device` the counter of the authenticator, 0 for one that does not count | the options, the two verifications, deletion, the sweep and the restart that empties the Map |
| `Sessions` | `session` the rows, `token` the expiry in the signed token | `CheckCredentials`, `CreateSession`, `SignToken` for a login; `StartGuarded`, `FindSession`, `UpdateLastUsed` for the guard; then the route: `FindOwn`, `FindTarget`, `RevokeOne`, `RevokeAll`, `Logout` or `Use` |
| `Tags` | `tags` with `usageCount`, `taggings`, the `entities` there are | `FindName`/`CreateTag`, `FindTag`/`UpdateTag`/`DeleteTag`; one action per statement of tagging (`FindEntity`, `FindTagging`, `CreateTagging`, `Increment`; `DeleteTagging`, `Decrement`), `Abort` between any two; `DropEntity` |
| `Workplace` | `owners` the workspaces, `projects` with their manager, `members`, `teams`, `teamMembers`, `userRoles` | the statements of the four services; a project is two inserts; the two guards ask `userRoles` |
| `Delegations` | `assignments`, `shares` | a look for the entity, a look for a row like it, the insert, the announcement; the status change with its time |
| `Checklists` | `items` with their index | find the task, read the highest index, insert; a reorder is one write per item, in any order |
| `Comments` | `comments`, `mentions`, `logs`, `members` who may open an entity | create and edit with one step for each of: find, access, drop mentions, write, look for mentions |
| `Listings` | `rows` with parent, key and age; what a reader has seen in `held` | the check, then the rows and the number of a page in either order, and the next page; one constant for each list of the code |
| `Pipelines` | `pipelines`, `stages`, `deals`; `held`, `status` what a handler has read | `FindPipeline`, `UnsetDefaults`, `WritePipeline`; `FindForStage`, `CheckWon`, `CheckLost`, `WriteStage`; `CountDeals`, `DeletePipeline`, `DeleteStage`; `FindForDeal`, `CreateDeal`, `FindDeal`, `FindStage`, `WriteDeal`, `DeleteDeal` |
| `Tickets` | `tickets` with number, rank of creation, status, whether the two times are set; `number`, `held` what a handler has read | `FindContact`, `ReadLatest`, `Insert`; `FindTicket`, `Update`, `Remove` |
| `Companies` | `companies` with their parent, `contacts` with their company, `activities`, `deals` an activity may name | find, walk (one query per company), write; the two counts and the removal with its keys; the removal of a deal, which takes its activities along |
| `Submissions` | `people` the contacts, `forms`, `columns`, `submissions`, `values` | the seven statements of a submission, each with its failure; contacts, columns, forms |
| `Campaigns` | `segments`, `campaigns`, `sends` with their status, `events`, the totals | find the send, store the event with its rank, write the send, add to the total |
| `Rulesets` | `owners` segments and workflows, `lists` their rows, `valueOf` the contacts | drop the rows, insert the new ones, count, store the count, any of which may fail; execute; save a contact |
| `MailQueue` | `jobs`, `waiting`, `worker` the queue and its worker, `mails` what the server took | `Add`; `Take`, `Process`, `Complete`, `Retry` the worker; `Promote`, `Stall` the queue; `WorkerStops` |
| `Notices` | `subjects`, `followers`, `assignees`, `rows` the notifications, `joined` the rooms, `known` what a client has | `Store` the deed; `Gather`, `Look` who is told; `Insert`, `Push`, `Mail` for each; `Emit`; the clients' `Join`, `Leave`, `Disconnect`, `Read`, `MarkRead`, `Delete`; `Crash` |
| `Files` | `files` the rows, `objects` what the storage has, `opened` downloads with a stream | `Put`, `Putting`, `InsertFile`, `Tell`; `FindFile`, `Exists`, `Open`, `Size`; `DeleteObject`, `DeleteFile`; `UpdateFile`; `Stop` |

The variables not named there are history: they record what a property speaks of (which call
met which overlap) and no action's guard reads them.

**Composition.** `Notices` extends `MailQueue`: a deed's mails are jobs of that queue, and one stop
of the process cuts off calls, worker and sockets together. `Accounts`, `Invitations`, `Comments`,
`Delegations` and `Tags` see of it a step that may fail. Modules whose tables no other
module writes are checked several in one run: `MCAuth` extends `Sessions`, `MCCrm` extends `Pipelines`,
`MCDelivery` extends `Files`, and they and `MCPms` instantiate the others; the initial state chooses
which one runs (`part`), and the others stay as they are. `MCDelivery` has one instance of `Notices`
with all the deeds; each of its parts takes some of them (`DeedsOf`) and some stops (`StopsOf`). The
tables, calls, readers and deeds of a composition are constants that its configuration gives values
to, so the theorems about `MCSpec` are about the module that is model-checked and hold for any
others.

**Refinement.** `FileStore` is what files promise without saying where their bytes are: a listed
file is whole until its uploader has asked to delete it, then empty, and stays listed until the
deletion has ended; a download delivers a file that was whole during the call and calls missing only
one that is not listed; it may fail of any file before its stream is open, since the S3 driver
answers every error as "not there". `Files` implements it (`FilesImplement`) under the mapping "listed =
the row, whole = its object is complete", across stops. Uploads are atomic there although `Files`
puts the object first: an object without a row is not listed. The order of a deletion (object
first) is what makes the empty listed file part of the promise.

An operator whose comment starts with "Slip" is not part of the model: it is the definition next
to it with a plausible mistake, used to make sure that each property can fail.

## 4. Runs

| Run | Bounds | States | Checks |
|---|---|---|---|
| `TaskGraph.cfg` | 3 calls, 3 tasks of a project and one of another, one seed row | 559 k | `DependenciesWellFormed`: keys and cascades make good every check that aged. `AcyclicUnlessRaced`: the walk is sound unless a row is created under it. `CircularRefusalJustified`. `EveryCallAnswered` (liveness). |
| `TaskGraphRace.cfg` | 2 calls | - | finding: `NoCircularDependency` |
| `Invitations.cfg` | 3 calls, 1 workspace, 2 addresses, term 1, clock to 3 | 845 k | `RowsConsistent`, `AcceptedByInvitee`, `SettledUnlessStale`, `DoubledOnlyBlindly` |
| `InvitationsResent.cfg` | 3 calls, one at a time | - | finding: `OneLiveInvitation` |
| `Auth.cfg` | sessions, tokens, passkeys 4 calls, second factor 5; 2 users; term 1, clock to 2 (passkeys 4), one restart | 2.2 M | `RevocationHolds`: after a revocation is acknowledged no later request passes. `EndedByOwnUser`. `TokensReachClients`, `ResetOnceInTerm`. `SecretAndCodesHold`, `SecretKeptUnlessOvertaken`. `ChallengesTakenOnceAndSoon`, `CounterGrowsUnlessCrossed` |
| `SessionsLogout.cfg` | 2 calls | - | finding: `LogoutRevokes` |
| `Pms.cfg` | 3 calls (tags 4 on one entity, with one abort; lists one reader and 2 writers) | 2.9 M | `WorkplaceHolds`, `DelegationsHold`, `ChecklistsHold`, `CommentsHold`, `ListingsHold`; `TagsHold`: the count is off by exactly the calls between their two statements |
| `TagsOrphaned.cfg` | 3 calls, no abort | - | finding: `InUseMeansCarried` |
| `PmsMentions.cfg` | 3 calls | - | finding: `AddressedAreNoted` |
| `Crm.cfg` | 3 calls (tickets 5) | 1.5 M | `RowsLinked`, `DealsHold`, `TicketsHold`, `NumberTakenOnlyIfPassed`, `CompaniesHold`, `LostOnlyIfOverlooked`, `CountsFollowSubmissions`, `EventsHold`, `RulesetsHold` |
| `CrmSubmitter.cfg` | 3 calls | - | finding: `SubmittersAreFoundOrCreated` |
| `Delivery.cfg` | 2 calls; 4 or 2 jobs, 1 or 2 stops; a client in two rooms | 859 k | `NoticesHold`: who follows is told, once, in step with the mail; a watching client misses nothing; copies and overtaking have a cause. `MailsSettle` (liveness). `FilesImplement` (refinement) |

Each passing run also checks the type invariants of its modules. All pass. A property named after a
component (`DealsHold`, `WorkplaceHolds`, ...) is the conjunction of the named ones in its module.

**Bounds.** A race of this system needs two requests and a third that notices: three calls show
every pair of overlapping operations together with a witness. More are taken where the
interesting case is longer: `Tickets` needs a create that is overtaken by two others of which
one is removed; `Sessions` two logins, a revocation and a use; `TwoFactor` enable, confirm and
two overlapping uses. `Notices` has two, since a deed already takes a step for each follower and the
second call is the one that removes what the first is about to look up. A term of one tick lets a
token lapse before, between and after the steps of a request; the clock bound leaves room for a
renewed term to lapse too. `MaxTime`, `MaxActive` (calls served at once), `MaxAborts`, `MaxRestarts`,
`MaxJobs`, `MaxCrashes` and `MaxStops` are the artificial bounds; the number of calls is bounded by
the set of requests. A stop can meet a job before it is taken, while the server has it and after
its mail was taken; with two stops a job may be put back and be cut off again, which is when the
queue gives it up. Requests are symmetric where no call names one of them; symmetry is not used
with the liveness properties.

What the instances leave out of the modules: passkey logins beside the two others in the sessions
part (the third way ends in the same `CreateSession`); ticket status "open", which the code treats
as "pending"; list limits below zero; an upload directory outside the working directory (`Within`,
see section 7); the deeds "deal", "submission", "project", "verify", "reset" and "code" of `Events`,
each of which has the shape of another one that is called.

**Deadlock** is not checked: when every request is answered the model stops, as the server does
until another call comes.

**Fairness.** Two runs state liveness. `TaskGraph`'s `FairSpec` and `Notices`' `Fairly` have weak
fairness of the steps of each request that has started: Node's event loop resumes a handler whose
query was answered, and no step can be disabled by another request for good. `WorkFairly` adds
the worker, the promotion of a delayed job and the return of a stalled one, which BullMQ runs on
timers for as long as the process runs. Nothing makes a client call or the process stop, so these
are not fair, and stops are bounded: a process that stops for ever delivers nothing. `MailsSettle`
then says that every call is answered and every job is mailed, was refused as often as it may be
(three times for an invitation, once for all others), or was cut off twice. In the parts
"told" and "watched" the worker never runs; only behaviours without a waiting job are fair
there, and the part "mails" is where jobs are followed.

## 5. Findings

1. **Circular dependencies can be stored** (`TaskGraphRace.cfg`). `addTaskDependency` walks the
   graph and inserts without a transaction; a → b and b → a, added together, both pass.
   `AcyclicUnlessRaced` says that this is the only way, for every graph.
2. **Two live invitations without concurrency** (`InvitationsResent.cfg`). A lapsed invitation
   stays `pending`; another is created because the check asks for a term in the future; then
   `resendInvitation` prolongs the first.
3. **A tag in use by nothing** (`TagsOrphaned.cfg`). Deleting an entity leaves its taggings and
   their count; `removeTagging` answers "not found" for the entity; the tag can never be deleted.
4. **Logout does not revoke the session** (`SessionsLogout.cfg`). `req.user` is the user row the
   guard returns; it has no `jti`, so `logout` skips the revocation and "revoke all except
   current" revokes the current session too. The controller's unit test supplies a `jti` by hand.
5. **No mention is ever stored** (`PmsMentions.cfg`). The pattern takes the word after "@" and looks
   for a user whose whole address is that word.
6. **A deleted contact cannot submit again** (`CrmSubmitter.cfg`). The contact found under the
   address is marked deleted, so another is created, which the unique key refuses.

The conditional properties name further overlaps that break a promise, for instance a used
backup code that returns when two uses overlap (`UsedCodesGoneUnlessCrossed`), a late "sent" that
takes a delivered mail back (`StatusIsOfTheLatestFirst`), a list with the rows of two calls or a
part of one (`ListsAreOneCalls`), or a count of contacts that have changed (`CountsHold`). What the models also record, without a run of its own:

- nobody is told of a comment on a project: `notifyCommentAdded` looks the project's id up as a
  task (`vanished` in `Notices`);
- `comment:updated` goes to the room `task:task:ID`, where nobody is (`CommentUpdated`);
- a mail job of a type without a branch would be completed without a mail; no service adds one;
- `fileExists` of the S3 driver catches every error and answers `false` (`s3-storage.service.ts:98`),
  so a download during an outage is told "File not found in storage" of a file that is whole and
  listed (`Exists` in `Files`, "failed" in `FileStore`);
- "Recalculate contact count for dynamic segments" (`segments.service.ts:124`) is done only when the
  body of the update names the type again: new criteria alone leave the count of the old ones, and
  contacts that change leave every count behind (`stale` in `Rulesets`);
- `remove` of a company says it checks for "contacts or deals" (`companies.service.ts:347`) and counts
  contacts and subsidiaries; the deals of a removed company lose it;
- a failed insert or a stop leaves an object no row names (`FileStore` does not see it), and a
  deletion that is cut off leaves a listed file without content until it is asked for again.

## 6. Proofs

`tlapm` checks the following for every value of the constants (any number of users, rows and
concurrent requests), from the assumptions named `...Assumption` in the modules: they give the
constants their types and keep `None` and the requests apart from the rows there are at first, and
TLC evaluates each of them in a run. Four of them also ask for finite sets: the requests, where the
number of submissions (`Submissions`) or of events (`Campaigns`) is counted, the contacts there are at
first (`Rulesets`), and the items a checklist has at first. `NoticesAssumption` says besides that a
ticket, deal or submission a call creates is not there at first, and that a mail without a
notification names its one receiver.

Every proof has the same shape. `Typed` (or `...Typed`) is the type invariant with what the label
of a request says of its call and its local variables; the inductive invariant adds what was read
and must still stand; lemmas say what each action does to the tables, and there is one lemma for
each part of the invariant, with a step for the actions that touch it.

| Module | Theorem | The argument |
|---|---|---|
| `TaskGraphProofs` | `RowsWellFormed`: `[]DependenciesWellFormed` | Which checks made in earlier states cannot change their outcome (a task's project, two tasks being different); keys and cascades decide the others. |
| | `CycleNeedsRace`: `[]AcyclicUnlessRaced` | Acyclicity without recursion: every non-empty set of tasks has a member that depends on none of them. Of every walk: a task reached from what was visited is visited or waits in the queue, unless a row was created. At the insert the visited set is closed, the hypothesis of `AcyclicInsert`. |
| | `RefusalsJustified` | Everything in the queue is reachable as long as the graph did not change. |
| `AuthProofs` | `RevocationsHold`: `[]RevocationHolds` | Not inductive by itself: `Promised` adds that an acknowledged session is marked and that a revocation owes only sessions it will mark. |
| | `OwnUserEnds` | The owner is checked two awaits before the update; a session never changes its user (`Standing`). |
| | `TokensReach`, `ResetsOnceInTerm` | A row holds a token of its own user with the term computed for it (`HeldByItsUser`); a spent one is in no row (`SpentIsGone`). |
| `TwoFactorProofs` | `SecretAndCodes`, `SecretKept` | `Overtaking`: what a request read is still in the row unless the history has the kind of the call that overtook it. |
| `PasskeysProofs` | `ChallengesTaken`, `CounterGrows` | `Timely`: the timer has left no entry that outlived its minute by more than a period. `OneKey`: a challenge is under one key and not taken. `CountersRead`: a login nobody crossed has read the counter of the row. |
| `InvitationsProofs` | `RowsStayConsistent`, `InviteeAccepts`, `StaysSettled`, `DoublesAreBlind` | `ReadStands`: what a request decided on its read still stands unless it is stale; `Entitled`: a request about to accept speaks for a registered user with the address of the row; `StillFree`: nothing blocks a creation but for the blind ones. |
| `PmsProofs` | `TagsHolding` | The count of a tag and its taggings differ by the requests between their two statements (`Added`, `Removed`), four cardinalities that move together. `CreatedOnce`, `UnbornAreBlank`: nothing refers to a tag before it is stored. `UnshakenAreRight`: a removal nobody shook has seen all taggings. |
| | `DelegationsHolding` | `LikeOnesSeen`: who is about to insert has seen every row like his, or was crossed by it; `RowsOfCreations` ties a row to the answer of its request. |
| | `CommentsHolding` | `FoundStands`, `AccessStands`, `OvertakenKnown`: what an edit or deletion found is still so, or the history says what came between. |
| | `WorkplaceHolding` | `OwnersStand`: who is about to create a project owns the workspace, or it is gone; `MemberDue`: the member about to be stored is the manager; `WorkBorn`: no id comes back. A merge of permissions is a fold, and does not depend on the order. |
| | `ChecklistsHolding` | `AdditionsAhead`: the position an addition has read is above all unless it was crossed. `ReorderStands`: a reorder nobody crossed has placed what it is through with. `ClashesPass`: two unforced items share a position only while a reorder is about to move one. |
| | `ListingsHolding` | The rank of a row is the number of rows before it: `NoneTwice` says that what was shown has a rank within the pages read, `NoneMissed` the converse, and a write that shifts no page keeps both. `RankInOrder`: what a page holds is what has its ranks. `WithinStands`, `Checked`: where the reader looks is what he might open. |
| `DeliveryProofs` | `NoticesHolding`: `MCSpec => []NoticesHold` | The queue: a waiting job is in it once (`QueuePlaced`), what may be tried again has tries left (`TriesLeft`), a job has a mail at most for each refusal, each cut and the attempt under way (`MailsSent`), and the jobs nobody touched are the last and wait in their order (`UntouchedLast`). The notices: `RowsAndMails` says for each label how the rows and the mails of a deed differ, by one user at most; `OneJob` that no user has two mails of a deed; `FollowersAhead` that who has followed all along is told or left to tell, which `SteadyStand` and `CreatedFirst` give at the moment the followers are read. The clients: `RowsSeen`, `DeedsSeen`, and that they were shown only what is stored (`Watchers`). |
| | `Implementation`: `Spec => FilesImplement` | The refinement: each step, a stop of the process included, is a step of `FileStore` or leaves what it sees alone. It rests on `StorageIsListed`: an object without a row is what an upload is storing or has left. Both assume `Within` (section 7). |
| `CrmProofs` | `LinksHold`: `[]RowsLinked`; `DealsHolding` | One part for each history: what a request found is so unless it is `aged` (`DefaultsStand`, `StagesStand`, `CountsStand`, `MovesStand`). |
| | `TicketsHolding`, `NumbersTaken` | `TicketsFresh`: the number a create is about to insert is above all there are unless it was passed, and the row an update has read is the row unless the update is stale. |
| | `HierarchyHolds`, `LinksLost` | `WalksStand`: unless a parent was written under the walk, what it has met is without the company to be moved and closed under parents. No cycle is, as for tasks, that every set of companies has one whose parent is outside it; `BornOnce` says that no id comes back. |
| | `SubmissionsCounted`, `LostWhenOverlooked` | `Stored` and `Surviving` tie a submission to the label and the answer of its request; two cardinalities move together. |
| | `RulesHoldAlone` | `BegunFirst`: a row named after a request exists only once that request has begun. `Families`: a segment stays a segment. `Alone` and `Rested`: of a list that is not torn, one request has its rows half-written, or none has and it is the list of a call, or the part of it that was there when a statement failed (`Left`). A count is that of the rows and contacts unless `stale`, and a count on its way that was taken before the contacts changed is `aged`. `Executions` counts. |
| | `EventsTold` | `OneBetween`: two requests are between reading and writing a send only if it is `mixed`; `LastUpdates`: the one that is about to write has stored the latest event, the first of its type. `CountedEvents` grows by the event whose total is written. |

For some components of a composition the theorems are stated twice, for the component alone and
for `MCSpec`: those of `TwoFactorProofs` and `PasskeysProofs` again in `AuthProofs`, and in
`CrmProofs` `HierarchyHolds` and `CompaniesHolding`, `SubmissionsCounted` and `SubmissionsCounting`,
`RulesHoldAlone` and `RulesHolding`, `EventsTold` and `EventsHolding`. Those of `Accounts`, of
`PmsProofs` and of the notices are stated for `MCSpec` only, that of the refinement for `Files` alone.
`TypeCorrect` of `AuthProofs` and `AllTyped` of `CrmProofs`, `PmsProofs` and `DeliveryProofs` are the
type invariants (`Typed`) of those runs; the other modules have their own `TypeCorrect`.

**What proving showed.** Four properties that held in every run were no theorems. A property of
`Pipelines`, as it was stated first, fails with four calls, one more than the run has; its history
variable now names the overlap. The order of ticket numbers fails with seven calls, when a create
counts from the ticket of a create that was passed; `passed` takes these too. And `Rulesets` let an
update of one service write a row of the other; the two look in their own tables, so an update
that does not fit its owner (`Fits`) now answers "not found", as the code does. `FollowersAreTold`
of `Notices` fails when a call names a row that another call is yet to create: `steady` then counted
followers of what was not there, and a creation could meet its own row. No client knows such an id,
so `NewId` now lets a row be created only under an id no call has named. Proving also showed that
`Gather` had two cases that were both true for an event told late with its assignees, so its value
was TLC's choice of the first. And a client could delete a notification it was never shown;
`Shown` now bounds what it marks and deletes.

Only model-checked: `EveryCallAnswered` and `MailsSettle`, since liveness under fairness is beyond
the prover. Every invariant and every action property of the passing runs is a theorem.

## 7. What the models leave out

- The text of mails, messages and answers, validation by DTOs, permissions that one look-up
  settles, filters and searches of lists.
- Columns that decide nothing: names, descriptions, colours, amounts, priorities.
- Time is a counter; of `createdAt` only the order counts, and of times only what is compared.
- Isolation: each statement is atomic, which is what PostgreSQL gives a single statement on the
  rows these handlers touch. A relation loaded by Prisma's `include` counts as part of its
  statement. `CreateValues` of `Submissions` stores the values of one submission in one step
  although the code inserts them side by side: nothing reads them in between.
- A reorder of a checklist, or the inserts of a list in `Rulesets`, that fail are answered after all
  statements have ended; the code may answer at the first that fails.
- Of the deals an activity may name only the look-up and the removal are in `Companies`; the company
  of a deal, which a removed company leaves empty, is not.
- The server may run as several processes on one database; requests are then no less interleaved
  than here. The challenge Map and the socket rooms belong to one process, as the configuration
  has it.
- In `Workplace` only owners of a workspace create projects, so every manager is an owner
  (`ManagersOwn`); the look-up of managed projects in `checkTeamManagementPermission` then finds
  nothing more. In `Comments` the loop of `createMentions` is never entered (finding 5), so
  `notifyMentioned` is never called.
- `Notices` has no event for `notifyTaskAssigned`, `notifyTaskUpdated`,
  `notifyWorkspaceInvitation` and `notifyTagCreated`, which nothing calls, nor for the emitters of
  `auth.gateway.ts`. The user who is told exists: nothing deletes users.
- An upload directory outside the working directory makes every stored path be looked for in the
  wrong place (`Has` in `Files`, constant `Within`); the run has `Within` true, the default.
- Not modelled at all: products, the gRPC facade (it maps requests to the services), CSRF, health
  checks, filters, interceptors, pipes and `main.ts`. They keep no state that another component
  reads, or one row each.
- Libraries (passport, BullMQ, Prisma, socket.io, the WebAuthn server) are taken from how the
  code uses them.

## 8. State of the work

Done: every component with state of its own, the runs, one refinement, and a theorem for every
invariant and action property a passing run checks. What could still be added: an abstract
specification of the mail queue (each job delivered at least once or given up) that `MailQueue`
implements, and the part "files" with the notices of an upload, which `Files` sees as one step that
may fail (`Tell`).

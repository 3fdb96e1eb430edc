# A verification project for XLR8 FLO

XLR8 FLO is a multi-tenant back office for projects, budgets, requisitions and
approvals: a Python API on Postgres (`apps/api/src/flo`), driven by users through
a web application and by a cron worker that calls an internal tick endpoint.
This directory holds TLA+ models of the parts in which a mistake costs money or
loses work, TLC configurations that check them on small instances, and TLAPS
proofs of the results that should hold for every instance.

Paths below are relative to `apps/api/src/flo` unless they start with `docs/`,
`migrations/` or `infra/`.

## The system and its parts

| Part | State | Operations | Interacts with |
|---|---|---|---|
| Budget ledger (`modules/budget`) | `ledger_entry` (append only), `project_balance` | allocate, adjust, transfer, reserve, release, commit, record actual, reverse | projects (status, hierarchy), fiscal periods, settings; called by requisitions and change requests |
| Reconciliation (`budget/reconcile.py`) | drift rows | nightly comparison of balances with entries | job queue |
| Budget change requests (`budget/change_requests.py`, `budget/approval.py`) | `budget_change_request` | request; post on approval | approvals, ledger |
| Fiscal periods (`org/fiscal.py`) | `fiscal_period` | close, reopen, generate a year | ledger |
| Projects (`modules/projects`) | `project`, status events, hierarchy, schedule, risks | create, edit, transition, plan | ledger, approvals |
| Organization (`modules/org`) | units, settings, numbering, rates | set and clear settings, issue numbers | everything reads it |
| Approvals (`modules/approvals`) | workflow versions, instances, stages, tasks, delegations | start, decide, delegate, escalate, remind, re-approve | documents through adapters, outbox, jobs |
| Requisitions (`modules/requisitions`) | requisition, lines, revisions, amendments, links | draft, submit, approve, amend, cancel | approvals, ledger, projects |
| Imports (`modules/imports`) | batch, planned rows, results | upload, validate, commit in slices, cancel | job queue, outbox, projects and budget handlers |
| Job queue (`kernel/jobs`) | `job` | enqueue, claim, complete, retry, bury | cron tick; enqueued by imports, reminders, reconciliation |
| Outbox (`kernel/outbox`) | `outbox` | add, discard, sweep, claim, record | cron tick, email provider |
| Request idempotency (`kernel/idempotency`) | stored responses by key | reserve a key, store, replay | every writing route |
| Identity and sessions (`kernel/identity`, `kernel/session`, `modules/identity`) | credentials, factors, reset tokens, sessions, invitations, grants | sign in, step up, reset, invite, grant | outbox, authorization |
| Collaboration (`modules/collaboration`) | attachments and their versions, notes; objects in storage | upload, add a version, remove, write and edit notes | idempotency, object storage |
| Audit, errors, configuration, storage, web application | | | |

What is hard in this code is concurrency through the database. Every operation is
a READ COMMITTED transaction on one of many processes; correctness rests on which
rows are locked, in which order, and on what was read before the lock. The second
source of difficulty is work that outlives a transaction: jobs and emails are
claimed in one transaction, carried out outside any, and recorded in another, by
ticks that may overlap, be slow, or die.

What makes each part correct:

* ledger: balances equal the sum of entries; holds are never released twice; no
  overdraft; one posting per key; closed periods and ended projects receive
  nothing they should not; transfers neither make nor lose money;
* job queue: a job runs in one tick at a time, a bounded number of times, and settles;
* outbox: one email per row, an outcome that never changes, and every row settles;
* imports: a row is applied once, against the record it was planned for; a cancelled
  batch applies nothing more; every batch settles;
* request idempotency: a keyed command takes effect once, and its answer is kept;
* approvals: one decision per task, no decision by someone ineligible, one outcome
  per instance delivered once;
* requisitions: what is reserved equals what the approved revision asks for;
* projects and change requests: a document's status follows its approval, a plan that
  waits stays possible, and an ended project is left alone;
* sessions, tokens and codes: used once, never after they were revoked; grants, the
  count derived from them and the decisions made from them agree.

`PROJECT.json` lists the hazards line by line with the properties that cover them.

## Modules

| Module | Models |
|---|---|
| `LedgerRules` | the pure rules: buckets, signs, rounding, sums, what remains of a hold |
| `Ledger` | the posting operations as concurrent transactions, with period closes, status transitions and settings changes |
| `LedgerProofs` | the ledger's theorems, after lemmas on sums over sequences and on what holds have left |
| `JobQueue` | the job table and its runner |
| `Imports`, `ImportsProofs` | a batch from upload to its end, in requests or in slices; extends `JobQueue`; the theorems of both |
| `Outbox`, `OutboxProofs` | the outbox, its dispatcher and the provider; its theorems and those of `Reminders` |
| `Reminders` | the daily digests of approval tasks, added to the rows of `Outbox` |
| `OnceOnly`, `Idempotency` | what a keyed request is promised; the middleware and store that implement it |
| `Collaboration` | attachments and notes, whose commands run inside `Idempotency`'s transactions |
| `Catalogue` | the items and events submissions leave in the catalogue |
| `RecordsProofs` | theorems of `Idempotency`, `Collaboration` and `Catalogue` |
| `Approvals`, `ApprovalsProofs` | the approval engine for one requisition, with its amendments and code substitutions; theorems |
| `Requisitions`, `RequisitionsProofs` | requisitions, what they reserve and the projects they generate, over an abstract ledger and approval; theorems |
| `Organization` | units, settings, fiscal calendar, numbering, master codes |
| `Workflows` | definitions, checks of a graph, publication, and approvals pinned to a version; extends `Organization` |
| `Projects` | projects, their trees, life, schedule and risks, and budget change requests; extends `Workflows` |
| `ProjectsProofs` | theorems of `Projects`, with those of `Organization` and `Workflows` it extends |
| `Sessions` | passwords, factors, resets, throttles and sessions under concurrent requests |
| `Identity` | members, roles and invitations; extends `Sessions` |
| `Access` | the authorization resolver over scopes, roles and grants |
| `IdentityProofs` | theorems of `Identity` (with `Sessions`) and of `Access` |
| `MCLedger`, `MCLedgerRace`, `MCImports`, `MCPlatform`, `MCApprovals`, `MCIdentity`, `MCRequisitions`, `MCProjects` | instances for TLC; `MCPlatform` and `MCIdentity` compose the modules they extend |

### Ledger

A worker is one request inside one transaction. `Receive` starts a command,
`Lock` takes the next balance row `FOR UPDATE` in the order the code takes them,
`Plan` makes the checks the operation makes under its locks and fixes the entries
it will post, `Post` and `Replay` are `post_entry` for one entry, and `Commit`
publishes all of them in one step. `Abort` may happen at any point: a refusal, a
deadlock victim, a lost connection. `ledger` and `balance` hold committed rows
only; a transaction's own rows are in `rows[w]` and its view of the balance rows
it holds in `view[w]`.

`ClosePeriod`, `ReopenPeriod`, `SetFundingMode`, `SetOverdraft` and `Transition`
are transactions of other services, atomic because they hold the lock they need
for all of what they do; their guards say which of the workers' locks they wait
for. `TransitionLock` is the balance row `Lifecycle.snapshot` locks, and
`PeriodsShared` the period rows posters hold `FOR SHARE`.

Abstracted: one currency, codes, evidence, reasons and permissions (each can only
refuse a command). Entry ids are positions in the ledger. Transfer groups are
named by the command's key instead of a fresh uuid. The hierarchy is fixed: `Route` gives
the path through the lowest common ancestor.

### JobQueue and Outbox

A worker is one cron tick. The claim and the recording of the outcome are
transactions of their own, so another tick may step in between; `Crash` stops a
tick anywhere and leaves what it committed. Time is reduced to what the code
distinguishes: `run_after` has passed or not, the outbox lock is fresh or older
than five minutes, an identity row has expired or not. The order in which ready
rows are claimed is left open.

Two things the code does that a reader may not expect. `claim` selects queued jobs
only, so the job of a tick that died stays `running` (`docs/claude-plan.md:34` says
"no lost jobs"): its import batch stays under way, and a cancellation only raises a
flag that nobody is left to read. And
`discard_email` deletes a pending, failed or dead row whatever its lock, so the
email of a discarded row may have been sent, or still be.

A provider error in the outbox may hide an accepted message (`lostAnswer`). The
provider is outside the repository: it sends one email per idempotency key, which
is what the Resend adapter relies on when it passes the key on every attempt.

### Approvals

One document and all its approvals. `instances` are the `approval_instance` rows
with the newest task of each and the route in `path`; `decisions` the
`approval_decision` rows that count. `material` is what an approval presents: the
requisition's own fields, or while an amendment is pending its proposal, the
requisition's own being `kept`. `Eligible`, `CurrentMembers`, `Base`,
`AbleDelegates` and `Principal` are membership.py, delegation.py and the engine's
`effective_members`, evaluated anew at every decision (live membership).

`Start`, `Amend` and `Resume` are `submit`, `amendments.submit` and `start` with
and without `resume_from`; `Approve`, `Reject` and `Return` are `decide` with
`prepare_approval`, `step_complete`, `advance` and the outcome handler's effect on
the document; `Withdraw`, `Reassign` and `Escalate` the engine's other operations.
`Edit`, `ChangeCode`, `Rebase`, `Delegate`, `EndDelegation` and `ChangeHolder` are what
other requests do in between. Each action is one transaction that locks the
instance first (escalation, without the lock, writes one column), so it is atomic; a refusal (nobody eligible for the next step,
expired code without a substitute) rolls everything back and is a guard.

`ChangeCode` is `update_master` or the passing of a day: a code loses its validity or gets
it back.

Abstracted: the graph's conditions read one amount, the digest is the pair of
amount and code it is computed from, delegation periods are "live or not",
document versions only refuse a decision, and of the outcome handlers only the
effect on amount and code is kept (posting to the ledger is not modelled here).
`supersede` has no caller and is left out.

Completion of a step is looked at only when somebody approves, so an all step that
becomes satisfied because a member lost the permission stays open until somebody is
reassigned to it; D-M2-9 (`docs/m2-decisions.md:45`) reads as if it completed.

### Imports

`Imports` extends `JobQueue`: a slice (`ImportWorker.run`) is what a tick does between
its claim and the outcome it records. `SliceBegin`, `ValidateChunk`, `CommitChunk`,
`SliceYields`, `Finish...`, `SliceEnds`, `SliceTransient` and `SliceFails` are its
transactions; `Terminal` and `TerminalLost` are the handler's own last transaction, which
may come late. `SliceTransient` is the loss of the connection, before the slice has its lock
as well as after. `NoBatchForgotten` says who is there to end a batch under way: a job of its
phase that waits, that a tick has in hand, or that a dead tick left behind. The plans of both templates (`PlanProject`, `PlanAllocation`)
keep what the code decides by: the record's version, the parent's row, what was
planned before in the file. `Edit` is any other user or batch at the record.

Read off the code while modelling: the failure handler of a synchronous commit sets
`failed` without looking at the status; a late `terminal("failed")` may be overwritten by
a commit that finishes; and the child of a parent skipped in an earlier chunk makes a
partial commit fail as stale.

### Idempotency, OnceOnly and Collaboration

`OnceOnly` has three actions: a command takes effect and its response is recorded in
one step, a request is answered with the recorded response, or it is refused.
`Idempotency` has the statements of the transaction (`Look`, `TryLock`, `Insert`, the
command, `Commit`) and what happens after it (`Send`, `Lose`: the connection breaks
once the transaction committed); `Once` maps the committed row of a key to the
abstract origin. `delete_expired` has no caller, so keys are kept.
`Collaboration` gives the requests their commands: an upload puts its object into
storage, which no transaction covers, locks the attachment's row and numbers the
version; a note is edited from tabs that may show an older text. After a rollback an
object without a row remains, as a comment in the code says. `lock_note` has no
caller, so no note is ever locked.

### Reminders and Catalogue

A run of `Reminders` takes the time, then waits for the organization's advisory lock,
plans and writes. As `now` is taken before the lock, `remindedOn` may go back a day
when two runs meet at midnight; one key per person and day keeps one digest. A task
that falls due after its member's digest of the day is marked without being mentioned
that day. `Catalogue` records a submission line by line: the event's key is its source, and
only an event that was inserted counts and sets the price. Two submissions that name shared items in opposite order wait for each
other and Postgres ends one (`AbortSubmission`).

### Requisitions

A command that looks before it locks is two steps (`Begin`, then the operation); the
second repeats the checks the code repeats (`Unchanged`, version, status) and no
others. `money` is the abstract ledger: funds per project and the reservation entries
with what is left of each. An approval is its status, what it was given for and
whether it is an amendment's; who decides is `Approvals`' subject. Outcomes
(`NotApproved`, `ApproveFunded`, `ApproveNew`, `ApproveAssigned`, `ApproveAmendment`)
are the adapter's `on_outcome` with everything it posts. `prepare_approval` runs at every
step: `ApproveEarlier` is an approval that does not end the route, whose substituted code is
written to the requisition and its proposal at once and stays whatever the later steps decide. `Stop` is `stop_approved`
for a cancellation and for expiry.

Read off the code: withdrawing a pending request compares the version on an unlocked
read only; a substitution does not change the version; expiry commits the withdrawal
of an amendment even when it then skips the requisition; stopping is refused while
the main project cannot take the funds back; `amendments.submit` locks the generated
project's balance before the main one's, whatever their order. As a code may be substituted
in a step of an amendment that then fails (the finding of `approvals_amend`), the code of an
approved requisition need not be the approved one. `ApprovalCovers` is therefore about the amount and the
project, and `CoverKept` says that such a step is the only way an approved requisition parts
from the approval in force. Both are stated for requisitions of a project: a standalone
Project Request's approval is stamped before its project is set, and `codes._apply` restamps
the type `requisition` only.

### Organization, Workflows and Projects

`Organization` serializes what the organization row's lock serializes; `SeekPeriod`
and `GeneratePeriods` are the two halves of `period_for`, the first without a lock.
A number is consumed on a connection of its own, so a creation that fails leaves a
gap. `Workflows` has `check_graph` as a definition per diagnostic and `Walk` as both
preview and engine use it; an approval keeps the version it started on. `Projects`
locks the project row (shared for risks) for a plan, the organization row for a budget change request, and has the
approval's outcome move the document in the deciding transaction.

Read off the code: an active unit may sit under an inactive parent; codes substituted
on a project neither change its version nor rebase a running approval; the close order
of two years is "if it exists" by design (`design/E05-S04.md:56`); a graph without
approvals approves at once; a retired definition may still get versions;
publication checks the depth limit of the moment.

### Sessions, Identity and Access

A request is a sequence of transactions (`Arrive`, the gates, the handler's own), so
another may step in between any two. Time is a clock that the timeouts, the time steps
of factors, the windows of throttles and the lifetimes of tokens are compared with.
`uses` records every proof that was accepted. `revoke_others` takes no lock on the identity,
so it is two steps: its statement sees the sessions of one moment (`ListOthers`) and revokes
those (`RevokeOthers`), and a session rotated in between goes on. `Identity` adds the administration: an
acceptance is a lookup, an optional login or a new password, and the accepting
transaction, with a resend or withdrawal in between. `Access` has the resolver's recursive query as it runs
(`Ancestors`, row by row with its roll-down flag) next to what it should answer;
`register_scope` is an upsert, so a scope may be moved, even into a cycle, which the
query survives because UNION drops repeated rows. The login throttle may be overshot
by requests in flight, since checking and recording are separate transactions.

## Runs

| Run | Instance | Shows |
|---|---|---|
| `ledger_holds` | one project, one transaction at a time, four keys, four entries, amounts 1 and 3 with quantum 2 | long sequences of holds, conversions, releases and reversals keep every hold within its amount and the buckets at what the holds have left (`HoldsBacked`), with rounding, replays and a changing overdraft setting |
| `ledger_race` | one project, two transactions, four entries, overdraft off, in three mixes of commands | no interleaving fires a schema constraint, overdraws the project, posts into a closed period or holds funds once the project has ended |
| `ledger_funding` | a chain of three projects, two transactions, three entries | multi-hop transfers balance, keys post once, the funding mode an allocation was planned with still holds |
| `imports` | two rows in chunks of one, three files (a large one run as jobs), three jobs of which one is retried, two ticks, one crash, one edit of a record | rows are applied once and never over a newer record, a cancellation holds, batches settle, and none is under way without an open job |
| `platform` | per behaviour: a tenant row or an identity row with two ticks and two faults; two tasks, three people and two runs over two days; four uploads under two keys; a note in two tabs; two requisitions that share two items | one email per row and every row settles; reminders happen once; keyed commands take effect once; files, notes and the catalogue are what was written |
| `approvals_deciders` | one approval, a quorum step and an all step, four users, two delegations, a reassignable, escalating task, two users whose permission changes | who may decide: nobody twice, and not the requester |
| `approvals_material` | three approvals of one requisition, two amounts with different routes, two codes of which one loses and regains its validity | returns, resumptions and amendments: an approval covers the whole route of what it approves, nobody decides two steps of it, and failed amendments leave the amount |
| `identity` | two requests in flight, an administrator, a user and a guest, two organizations, up to five requests, a clock of two ticks; one user and three project scopes for the resolver | sessions end with what they rest on, credentials prove once, the count equals the grants, the resolver answers what the tables say |
| `requisitions` | one or two requisitions of a project, or a Project Request, two main projects, two transactions in flight | status, hold, approval and generated project agree after every step; only a code substituted in a step of an amendment parts a requisition from its approval |
| `projects` | two units, two calendar years, two definitions, up to seven projects, two change requests, two clients | approvals run on complete graphs to an end, every date asked for has a period and none overlap, documents follow their approvals, plans stay possible, paths meet, ended projects keep their plans |
| `requisitions_stop` | one requisition, two transactions | an amendment submitted while the requisition is being stopped stays pending (a bug) |
| `approvals_amend` | two approvals, a code that becomes unusable | a substitution made during an amendment that then fails leaves the approved requisition without a current approval (a bug) |

Bounds. `MaxEntry` stops new commands, not running ones, so the ledger may exceed
it by the legs in flight; three entries are a hold, its conversion and a third
command against either, and four allow a release of a release's reversal. Two
workers suffice for the pairwise races the hazards name: every lock has one
holder, and a third transaction only waits. A state constraint keeps `ledger_race` to
the behaviours whose operations belong to one of three mixes: holds with reversals,
holds with closing periods, and spending with a changing status; where holds
are released the adjustment only comes first, and dates vary only where periods do.

`Mixes` bounds the other large instances the same way: a behaviour follows the
families of commands that meet in one hazard, since all of them at once multiply
states without a new encounter. Between them the mixes contain every action. Two
rows in chunks of one are the least with a chunk boundary, and a second row that
names the first as its parent; three jobs are validation, commit and one
continuation. Two clock ticks pass every timeout once. Three scopes of plans make a
chain and a cycle. Seven projects fill every level of a
tree with a branch left over. Requests, plans, clients and workers are interchangeable where the
configuration declares symmetry; no liveness is checked there.

For approvals, three instances are a returned approval, its resumption and an
amendment or second resumption; two delegations let
two members share a delegate, or a delegate be covered in turn.
`Changing` names the users whose permission comes and goes: a step never has more
than three members, so two of them cover a member lost before and after others
decided. Users differ by the rules that select them, so no symmetry is used.

`CHECK_DEADLOCK FALSE` is set where behaviours end: bounds stop new commands,
queues end drained, and ended documents stay so.

Fairness. `MailFairness` (`MCPlatform`) and `ImportFairness`: time passes, the cron
keeps ticking so that a claimable row or job is claimed by some tick, and a tick that is not killed goes on to its next step. Nothing is
assumed of crashes, of users or of a particular tick. `BatchesSettle` therefore
excepts a batch whose tick died, or whose slice lost the connection on which it
records the outcome.

## Proofs

Proved for all values of the constants, under the assumptions named in the modules
(`LedgerAssumption`, `QuantumAssumption`, `JobQueueAssumption`, `ImportsAssumption`,
`OutboxAssumption`, `RemindersAssumption`, `IdempotencyAssumption`,
`CollaborationAssumption`, `CatalogueAssumption`, `ApprovalsAssumption`,
`RequisitionsAssumption`, `SessionsAssumption`, `IdentityAssumption`, `AccessAssumption`,
`OrganizationAssumption`, `WorkflowsAssumption`, `ProjectsAssumption`). Besides types and
names that are apart, these say what the tables and the initial state are: units, nodes,
organizations and scopes are finite, units start as a forest, and stored definitions start
as the code leaves them, each graph with the structure every stored graph has
(`WellFormed`) and each version that is no draft past the checks of `publish`
(`IsDefinition`). Each proof is an invariant that every step keeps, with the lemmas of its module for what a step does.

Ledger (`LedgerProofs`):

* `BooksAgree` is what the others rest on: every balance row is the sum of its committed
  entries (`NoDrift`), each row has one holder, a transaction writes only rows it holds, and its
  view of a held row is the committed row plus its own entries. The module starts with the
  facts about sums this needs: appending adds one term, and a concatenation sums to the sum of
  its parts.
* `BudgetsNotOverdrawn`: from `FundsCovered`, which extends the bound to the rows
  transactions hold.
* `PeriodsRespected`, `EndedProjectsRespected`: from `PostingsGuarded`, which says that
  what a posting checked is held by a lock until its transaction ends, and `BooksAgree`'s
  locking part.
* `PostedOncePerKey`: from `KeysApart`. The unique index covers uncommitted rows too, so no
  two entries share a key, committed or in a transaction.
* `TransfersBalance`, `FundingFollowsMode`: from `CommandsKept`. A transaction's entries are
  of one group, posted whole or not at all, and an allocation keeps the organization locked
  from when it read the mode.
* `HoldsAreBacked`, `ConstraintsUnneeded`: from `HoldsKept` and `BooksAgree`. The committed
  entries were each added rightly, and what a transaction posted or has to post fits them;
  hence a project's reserved and committed buckets are the sum of what its holds have left. Its lemmas say
  what one more entry does to the hold it acts on and that it leaves the others alone.

Job queue and imports (`ImportsProofs`):

* `ExclusiveExecution`, `RetriesBounded`: `AttemptsToSpare` says a job waits only with
  attempts left.
  Every step of `Imports` is a step of `JobQueue` or leaves its variables alone
  (`QueueStepped`), which carries both over to the jobs of slices.
* `NoBatchIsForgotten`: a step either keeps the open job of the batch's phase open
  (`MoveKeepsOpen`), queues another, or ends the phase; a slice that gives up settles the batch
  before its job is recorded as dead, and one that yields queues its continuation first.
* `ImportedOnce`, `CancellationsHold`, `NothingIsOverwritten`: from `BatchInv`. What a slice has read of the
  batch is still so while it holds the batch's session lock (`SlicesOK`), what the row says
  when nobody does (`BatchOK`), and what a cancellation leaves (`CancelOK`); at most one
  slice holds the lock (`SlicesOwned`).

Outbox and reminders (`OutboxProofs`):

* `EmailsSentOnce`: `OwnKeyAccepted` says the provider has seen no key but the row's own,
  and a tick that reached "accepted" handed it over. `SettledRowsFinal` follows from the
  guard of `_transition` and the type invariant.
* `RemindersAreHeld`: `RemindersInv` says what a run that holds the organization's lock has
  planned, and that its plan is still right when it writes.

Keyed requests, files, notes, catalogue (`RecordsProofs`):

* `KeyedOnceOnly`: `Idempotency` implements `OnceOnly`, step by step: `RequestInv` says a
  command runs only under its key's advisory lock and only while the key has no row, so
  the commit is the abstract effect and every other step a stutter, a replay or a refusal.
  `RecordsOnceOnly` is the same for the requests that write attachments and notes.
* `StoredRecordsKept`: from `RecordsInv`. Versions are numbered under the attachment's
  row lock, every draft's object is stored before its row, and a keyed upload's rows are
  traced to the command that ran. `CatalogueIsDerived`: `CatalogueInv` follows a submission line by line:
  what it has written, committed or not, is what the counters and prices show.

Approvals (`ApprovalsProofs`):

* `RequesterKeptApart`, `NobodyDecidesTwice`: every decision comes from a step whose guard
  is `MayDecide` (`DecisionsGrow`); `DeciderApart` shows that whoever it admits, and the
  member they act for, is a holder and not the requester. No finiteness of users, graph
  or delegations is assumed.
* `ApprovedAmountStands`: `ForceInv` says which approvals are approved and superseded,
  what a pending amendment has kept, and whose amount is in force.
* `RoutesAreWhole`: `RoutesInv`, given `ForceInv`. A route is a path of the graph for its
  digest's amount, every step but the open one is decided, and a running approval covers
  what the document now says. The steps fall into six kinds by what they do to a route
  (`StepsAre`).
* `NobodyDecidesAgain`: `RepeatInv`, given `RoutesInv`. A step that is complete or carried
  over names everybody who decided it in any round, so who is barred by the names is
  barred by the decisions. It needs that a path never meets a node twice: the graph is
  acyclic, which publishing a definition checks (`approvals/validation.py`) and
  `ApprovalsAssumption` states.
* type correctness of all of these. For approvals `TypeOK` is not inductive: `TypeInv`
  adds `AtStep`, that an approval which is not approved stands at a step of its own route,
  without which a resumption would carry over an undefined part.

Requisitions (`RequisitionsProofs`):

* `EveryHoldIsDue`, `SubProjectsOwnTheirEstimate`, `NothingWaitsInVain`,
  `ApprovalsCoverRequisitions`: from `Inv` (`RequisitionsAreWhole`), which speaks of one
  requisition at a time. None of the four is inductive: a posting whose key is taken is
  replayed or skipped in silence, so each step needs that its keys are new. `Numbered` says
  so: the rounds of a requisition number its reservations, transfers and releases, no key is
  beyond the present round, and a release recorded in the present round, other than the
  approval's own, left nothing. `StatusOK` says what is held and owned in each status, a
  requisition that was never approved having posted nothing for its sub-project; `PlaceOK`
  on which project; `AwaitOK` what its approval and its amendment wait for and what was
  approved. `ReadOK` relates an unlocked read to the row: a row of the same version has the
  same status. A step on one requisition leaves what concerns the others alone
  (`MoneyFramed`, `RowFramed`, `OneStep`), so each action has one lemma about its own.
* `CoverIsKept`: each of these lemmas also says which of three things the step does to the
  cover of an approved requisition (`CoverStep`): restore it, leave it alone, or replace a
  code in a step of the running amendment.
* `ClosedProjectsAreIdle`: from `IdleInv`, given `Inv`. What is reserved on a project is a
  fold over the reservations, so the invariant says instead that each reservation on a
  closed project has nothing left (`Spared`), whence the fold is zero; no step puts an open
  requisition or a reservation on a project that is closed by then (`KeptShut`).

Identity and access (`IdentityProofs`):

* `CounterIsExact`, `SessionsAreSound`, `CredentialsAreSound`: from `IInv`
  (`IdentityInvariant`). The conclusions rest on what requests know between their
  transactions. `RequestsOK` says that a request's session row, once looked up, is its
  identity's and that the organization it selects is one the identity belongs to;
  `SessionsOK` that a session descends from itself or an earlier one, so that a sign-in
  begins a line of its own and a rotation continues one whose last session it ended;
  `ResetsOK` that a request which has retired the resets of its identity is the only one
  to have done so, under the advisory lock, until it issues the new one; `UsesOK`
  that whatever proved something is spent, and `StaysSpent` that it stays so; `InvitesOK`
  that a token is the one sent last. Each part has a lemma for the steps that write it and
  one for those that leave it alone.
* `AccessIsContainment` (of `AccessSpec`, the resolver alone): the recursive query and
  the meaning of containment are both built round by round, one for each scope, and after
  every round the rows are the scopes reached so far, with their roll-down flag
  (`RowsClimb`). Nothing is assumed of the parents, so cycles of scopes are no exception.

Projects, organization and workflows (`ProjectsProofs`):

* `CalendarIsSound`: from `CalendarOK`. A period lies where its year begins in the calendar
  of now, and years are `Months` apart, so periods of two years cannot overlap
  (`MonthsApart`); the start month moves only while there is no period.
* `DocumentsFollow`: from `DocsOK`. Requests that are under way hold the organization's lock
  and a free key (`RequestsHeld`), so nothing starts an approval twice.
* `EndedPlansLeftAlone`: from `PlansHeld` in `DocsOK`: a write under way holds the row of a
  project that had not ended, and no transition passes that lock.
* `PlansAreStanding`: from `PlansStand`, `RequestsPlanned` and `TreesOK`. The guard on the
  funding mode covers every pending request below the scope that changes; the chain of
  units above a project's root never changes for a unit that exists.
* `PathsAreFound`: from `TreesOK`. Every project is the root of its tree or one level below
  its parent, so the walk upward reaches the root within the levels the guard of the query
  allows, two walks of one tree meet (`WaysMeet`), and the path cut at the first meeting
  repeats nobody.
* `RoutesAreComplete`: from `RoutesOK`, which adds three things to `IInv`. `DefinitionsOK`:
  each version that was ever published has passed the checks and stays as it is
  (`VersionsKept`). `LimitOK`: the setting is a number or unset. `PinsOK`: an approval that
  runs or may be resumed is at an approval of such a version, and the approvals it has done
  and the longest way ahead stay within the limit of that version (`Pinned`); arriving at
  the next approval shortens the way ahead by what it adds to the way done. That the walk
  goes on follows from the checks: in a graph without cycles, of which every node is
  reached from the start and reaches an end, a condition has its default edge and the rank
  of a node falls with every step (`ReachIsClosure`, `RanksFall`, `DepthFalls`,
  `WalkGoesOn`).

Recursion and induction. What a recursive function computes for every input is proved by
induction on sets: a set of naturals that holds a counterexample holds a least one
(`LeastNat`, `SetInduction`), and a recursion that stays within a set has a solution
(`Recursion`), so a function of rounds may be reasoned about round by round. No module
declares a RECURSIVE operator.

Every safety property of the passing runs is proved. Only model-checked: liveness
(`BatchesSettle`, `RowsSettle`), which is out of the prover's reach, as is anything about
ENABLED; and the two counterexamples.

## Plan

The models are complete as far as the list below, and the theorems cover the safety
properties of every run. What a change to the code should touch first is the action that
models it, its entry in `PROJECT.json`, and the lemma of the proof module that is named for
it; the other steps of an invariant do not refer to it.

## Not modelled

* Parsing, file formats and rendering (`imports/parsers.py`, `xlsx_reader.py`, reports,
  email templates): character-level data without concurrent state.
* Read-only queries and projections: budget aggregates, the approval inbox,
  explanations of approvals and of access, lookups, risk indicators.
* Exchange rates and links between requisitions: records no modelled decision reads.
* Hashing and the arithmetic of one-time codes; CSRF and cookies only refuse.
* Audit rows: append only, never read by a decision. Row-level security is a database
  feature; the models are of one tenant.
* Routing, configuration, logging, the migration runner, the web application and the
  repository's tooling.

`PROJECT.json` gives the reason for each part.

# A TLA+ verification of the Onward helpdesk platform

The platform is a multi-tenant after-sales helpdesk: a Go server (`src/internal`),
a relational database reached through gorm, Redis, scheduled jobs, an in-process
event bus with a durable outbox, and a web client. This directory models the parts
whose correctness the rest builds on and that several processes write at once:

- the **event outbox** (how one part of the server reliably tells another that
  something happened),
- the **ticket case** (the life of one customer ticket) and its **supplier
  collaborations** with the clock they pause,
- the **AI reply jobs** that answer customer messages, and the **workflow effects**
  that keep what an AI workflow does from being done twice,
- the **attendance of meetings**, fed by the callbacks of an external provider,
- the **notifications** on their way from a Redis stream to a mailbox or a phone.

- [Inventory](#inventory)
- [The modules and the code](#the-modules-and-the-code)
- [What TLC checks](#what-tlc-checks)
- [What is proved](#what-is-proved)
- [What was found](#what-was-found)
- [What is not modelled](#what-is-not-modelled)
- [Plan](#plan)

## Inventory

Several application instances may run against one database. Every request handler
is a goroutine; every scheduled job of `services/cronx/cron.go` runs in every
instance, and the jobs registered with `addFunc` may overlap themselves
(`addNonOverlappingFunc` skips a run while the last one is still going). Shared
state is in database rows; most operations lock the ticket row
(`SELECT ... FOR UPDATE`) for their whole transaction.

| Component | State | Operations | Interacts with |
|---|---|---|---|
| Event outbox (`pkg/eventbus/outbox.go`, `durable.go`) | `domain_events`, `outbox_records` (status, retry count, retry time, lease) | enqueue in the caller's transaction, replay, publish at once, poll, claim, dispatch, mark, fail, dead-letter | every producer of a domain event; the handlers of the in-process bus |
| Case policy (`pkg/ticketpolicy/workflow.go`) | published workflow versions, the version a ticket is bound to | validate, bind, guard every write of a ticket's case status | `TicketRepository.Updates` calls the guard |
| Case commands (`ticket_case_lifecycle_service.go`, `repositories/ticket_case.go`) | `case_status`, `case_revision`, owner, resume columns, `ticket_case_operations` | triage, wait, resume, restore, resolve, request closure, close, cancel, reopen | reuses Close, Cancel and Reopen of the lifecycle |
| Technical lifecycle (`ticket_lifecycle_service.go`) | `status`, assignee, accepted and resolved times | accept, takeover, assign, transfer, escalate, close, cancel, reopen | projected on the case by `SyncTicketCaseColumns` |
| Dispatch (`ticket_dispatch_service.go`, `ticket_dispatch_tracking.go`) | assignee, dispatch attempts, deadlines | assign automatically, defer, recycle after a timeout, escalate to a supervisor | scheduled scans racing people |
| Ticket service (`ticket_service.go`) | the ticket row, repair records | create, record a repair, resolve by repair, follow the conversation | conversations, knowledge |
| Supplier collaboration (`ticket_supplier_collaboration_service.go`) | collaborations, participants, authorization scopes | invite, accept, assign, expire, time out, resolve | writes the technical status; pauses the clock |
| Ticket clocks (`ticket_clock_service.go`) | pauses by source, `daypop_clock_paused_at` of the ticket | open, close, close all | opened and closed by collaborations and closures |
| Case owners (`ticket_case_owner_service.go`) | user status | disable an account that owns cases | racing acceptance |
| Close side effects (`ticket_lifecycle_service.go` 1161-1454) | progress markers | run after commit, recover by scan | outbox, notifications, knowledge |
| Notification queue (`notification_queue_service.go`, `notification_service.go`) | Redis stream with a consumer group, dead letters, `t_notification` | enqueue, read, reclaim, create, acknowledge, dead-letter | handlers of the event bus enqueue |
| Notification delivery (`notification_delivery_service.go`, `notification_delivery_repository.go`) | `delivery_logs` (status, retry count, due time, `updated_at` as a lease), status in the notification, push tokens | schedule, recover, claim, send, retry, settle | queue and chat schedule; mail and push providers |
| Channel outbox (`channel_message_outbox_service.go`) | send status | claim, send, retry | external providers |
| AI reply jobs (`ai/runtime/reply_job_service.go`, `reply_commit_service.go`) | `t_ai_reply_job` (status, retry count, lock owner, lock time), messages, reply rounds | enqueue with the message, claim a batch, heartbeat, recover, run, commit, retry, fail | message service, conversation hand-over, workflow executor |
| AI workflow effects (`workflow_effect_store.go`, `graph_executor.go`) | effect rows with lease and attempt | acquire, complete, fail | reply jobs repeat the run; the completion enqueues an event |
| Meetings (`jitsi_webhook_service.go`, `meeting_service.go`) | callback inbox, meeting, attendance | receive, recover, merge, heartbeat, sweep, end | external provider, browsers, ticket, event bus |
| Automatic closing, conversations, knowledge, connectors, identity, retention, realtime, web | see `PROJECT.json` | | |

What is hard here, and what a unit test hardly reaches:

- *The outbox*: leases that expire while their holder still works; a write-back of
  a whole stale copy (`Save`); a crash between the handlers and the record of their
  success; a replay requested in the middle of a publication.
- *The case*: two state machines on one row, moved by about fifteen technical
  operations and nine commands, where one is derived from the other. Sequences
  nobody wrote down (wait, recycle, resume; reopen, resolve without taking the
  case) reach unexpected combinations. Commands arrive late and repeatedly.
  A workflow chosen by an administrator decides which combinations are allowed.

- *AI replies*: a batch is claimed at once but only the job in process keeps its
  lease, so two workers may run the same turn; turns must not overtake each other.
- *Workflow effects*: a two-minute lease that is never renewed, under runs that may
  last ten minutes; the attempt number is read in a separate step; the ticket a
  recorded result names may have been merged into another by the time of a replay.
- *Meetings*: callbacks that are lost, repeated, recovered after newer ones or
  delivered out of order, merged into one row per participant by comparing times,
  while browsers, heartbeats and sweeps write the same row.
- *Suppliers*: transactions at read committed that count other rows without a lock;
  authorization scopes found by a `LIKE` on the digits of a collaboration's id.
- *Notifications*: create, schedule and acknowledge are three writes in two stores; a
  message is reclaimed while its consumer still works; deliveries are claimed with a
  lease and settled by id, from a copy of the retry count.

What makes each part correct:

- *Outbox*: no event is lost, none is recorded as delivered without a delivery or
  as dead without its failures, a lease is exclusive, a settled row stays settled,
  a replay is honoured, every event is eventually settled.
- *Case*: the two states agree and never claim a resolution that was not recorded;
  a terminal state is final; no case is stranded; what the page offers works, unless
  a meeting or a child ticket is in the way; a command applies only to the case its
  sender saw, at most once, and its answer can be fetched again.

- *AI replies*: turns of a conversation are answered in order, none ends in silence,
  none is given up early, a settled job is never touched, every turn is settled.
- *Workflow effects*: all runs of a node agree on one recorded result, or on the main
  ticket it was merged into; it is announced exactly when it is recorded and never
  changes.
- *Meetings*: attendance follows the room, no callback is lost, an ended meeting
  stays ended and its start is the earliest join.
- *Suppliers*: one active collaboration per supplier, an active supplier stays a
  participant and keeps its scope (where ids cannot be mixed up), a collaboration ends
  once, the clock runs again when nobody is waited for.
- *Notifications*: what is acknowledged is scheduled, nothing is reported as sent that
  was not, none is given up early, sent twice without a fault or left behind.

`PROJECT.json` lists every hazard at its line, with the properties that cover it.

## The modules and the code

| Module | Models | Role |
|---|---|---|
| `EventOutbox` | the durable relay | state machine, 13 actions |
| `EventDelivery` | what the relay promises | abstract specification |
| `MCEventOutbox` | | TLC instances |
| `EventOutboxProofs` | | TLAPS proofs |
| `CaseWorkflow` | `ticketpolicy`: transition tables, `Validate`, `Allows` | operators |
| `CaseWorkflowProofs` | | TLAPS proofs |
| `TicketCase` | one ticket and all operations that write its state | state machine, 27 actions; extends `CaseWorkflow` |
| `MCTicketCase` | | TLC instances |
| `TicketCaseProofs` | | TLAPS proofs |
| `SupplierCollaboration` | the collaborations of one ticket and its clock | state machine, 14 actions |
| `MCSupplierCollaboration` | | TLC instances |
| `SupplierCollaborationProofs` | | TLAPS proofs |
| `AIReplyJobs` | the jobs of several conversations and their workers | state machine, 20 actions |
| `MCAIReplyJobs` | | TLC instances |
| `AIReplyJobsProofs` | | TLAPS proofs |
| `WorkflowEffects` | the effect ledger and the executors | state machine, 12 actions |
| `MCWorkflowEffects` | | TLC instances |
| `WorkflowEffectsProofs` | | TLAPS proofs |
| `MeetingPresence` | one meeting, its attendance, the callback inbox | state machine, 24 actions |
| `MCMeetingPresence` | | TLC instances |
| `MeetingPresenceProofs` | | TLAPS proofs |
| `NotificationPipeline` | the notification queue and the delivery of mails and pushes | state machine, 23 actions |
| `MCNotificationPipeline` | | TLC instances |
| `NotificationPipelineProofs` | | TLAPS proofs |

Definitions named `...Without...`, `...Ignoring...`, `FinishUnfenced` and the like,
commented as mutants, are broken variants of the definition below them. No
specification uses them; putting one in the place of its original must make the
property named in `PROJECT.json` fail.

### EventOutbox

`outbox[e]` is the row of one idempotency key. Times are countdowns: `next_retry`
and `locked` are the ticks left until `next_retry_at` and `locked_until`, and 0 is
both NULL and a time in the past, which no query tells apart. A relay is a poll
loop (`Pollers`, the goroutine of `Start`) or the goroutine of one `Publish`
(`Publishers`). It holds a `batch` of row copies it read without a lock and, while
it is `Busy`, the copy `record` it claimed. The steps of `processSingleRecord` that
touch the database are separate actions: `Claim`, `DispatchOK`/`DispatchError` (the
handlers return), `MarkEvent` (`published_at`, error ignored), `SavePublished` or
`SaveFailed`. The two saves write the *copy*'s retry count over whatever the row
holds, as gorm's `Save` does. `Crash` may strike between any two of them; either
save may fail, and the failure is only logged.

`requested`, `served`, `servedBy` and `failures` are history: which delivery
request a claim answers, and which requests were answered by handlers that all
succeeded. No action reads them except through bounds.

`EventDelivery` is the promise without rows and leases: an event is open until it
is delivered and settled; settling it as published needs a delivery since the
newest request; only a request reopens it. The mapping forgets leases and retries
and reads pending, publishing and failed as open.

### CaseWorkflow and TicketCase

`ticket` holds the columns of the ticket row, times as "set or not". A write is a
record of the columns it sets, as the `map[string]any` of the code is. `Sync` is
`SyncTicketCaseColumns`: it adds the case status, the revision, the owner and the
cleared resume columns a write implies; `Permitted` are the two guards of the
repository on the result, `RelationsPermit` (no ticket is ended before its child
tickets) and `WorkflowPermits`, and `Updated` is the row afterwards. Every operation is written as its guard,
the columns it sets, and `Write`, so the projection and the guard are part of each
action, exactly as `TicketRepository.Updates` makes them.

`scope` fixes the kind of ticket: with a product or not (product cases are resolved
by a repair record only), tied to a conversation or not, and the workflow version it
is bound to. A project without a published workflow leaves its tickets unbound, which
is common, so `Unbound` is one of the kinds.

All operations lock the ticket row and are one step, with one exception that the
model keeps: `Invite` checks the status before its transaction (`InviteCheck`) and
writes it inside (`InviteApply`). The constant `LateInvite` says whether other
operations may come in between. Within the transaction the code may find the same
supplier already at work and write nothing; both outcomes are disjuncts.

Two things beside the ticket are kept as flags of its row: an unfinished meeting
(`CreateMeetingRoom`, `EndMeeting`) and an open child ticket (`ChildOpens`,
`ChildrenEnd`). `validateRepairCompletionReadiness` refuses to conclude a repair or to
resolve a case during the first, the relation guard refuses to close or cancel a ticket
with the second; the page looks at neither (`HeldBack`). `Holds` says which of the two
an instance has.

A case command is sent with the case and revision its sender saw (`Send`), stays in
`calls` for good and may arrive at any time and any number of times (`Execute`):
late, reordered and repeated delivery at once. `Outcome` is the order of checks of
`ExecuteTicketCaseCommand`: access, receipt, revision, offer, handler. `Command` is
a command delivered at once under a key of its own; it lets the runs about the
ticket explore all commands without the cost of messages in flight.

Accounts are engineers, dispatch managers and other agents, which is what the access
rules distinguish. Teams, schedules and the choice among candidates are replaced by
"any engineer"; a supervisor may be anybody.

### SupplierCollaboration

`row` holds the collaborations of one ticket, each with the participation of its
supplier (`member`) and its wait (the clock pause it opened). `scopes` is the table of
authorization scopes, which are not found by a key: `FindAuthorizationScope` and
`DisableCollaborationAuthorizationScopes` search the JSON text of the account's scopes
with `LIKE '%"collaboration_id":<id>%'`, so the id 1 also finds the scope of 12.
`Prefix` is the relation "its digits begin with" between ids, `Matching` what the search
finds; `EnsureScope` rewrites the newest match, `DisableScopes` disables all of them.
A company (`Company`) has one account; a supplier is a product module of a company.
The database runs at read committed, so a transaction is split where it reads
something that it has not locked: ending a collaboration is `BeginEnd` (lock and
check the row), `CloseSupplierWait` (the other open waits), `CountActive` (the other
active collaborations, the ticket status) and `CommitEnd`. `ticketLock` and
`rowLock` are the row locks; a time-out and an expiry lock the ticket before they
read, `Resolve` does not, and that is the whole difference between them.
`InviteCheck` is outside of the transaction, `InviteFind` inside. Deadlines are left
open: an invitation may be overdue at any time. What the ticket may do is reduced to
its conclusion, closure and reopening; `TicketCase` has the rest.

### AIReplyJobs

`job` is the table, by turn. `batch[w]` are the copies of the rows a worker has
claimed, in the order of their ids; `pc[w]` says where it stands with the first one.
The steps of `processClaimedReplyJob` are separate actions wherever it reads or
writes the database: `Load` keeps the conversation it read (`snapshot`), `Check`
decides, `TriggerReply` runs the agent (its text, silence or error is an input),
`CommitAIReply` and `CountRound` are the message and the round counter, and
`FinishReplyJob`, `RetryReplyJob`, `CommitAsyncFailure` and `FailReplyJob` the end.
`Finish` is the fence: it writes only while the row is running under the worker's
name. Time is two flags, `due` and `leased`. `LeaseEnds` happens to jobs that nobody
beats for, above all those that wait in a batch; `HeartbeatsLost` is a fault.
The desk may hand over, take over or close the conversation at any time.

### WorkflowEffects

`effect[k]` is the ledger row of an idempotency key. An executor passes through
`Acquire` step by step (`Lookup`, `Create` or `TryAcquire`, `Reread`), runs the node
and settles the row (`Complete`, `Fail`). The node's answer is an input and may differ
between runs. `PromptKeys` are the keys whose executors finish within the lease; the
lease of the others ends at any time. `MayAcquire` and `Fenced` are the WHERE clauses.

An executor that finds the effect succeeded does not run the node (`Replay`). Where the
result is a ticket (`TicketKeys`: the nodes that create a ticket or hand over), it
resolves that ticket again: `Resolves` follows a merge to the main ticket, and fails if
that one was merged in its turn or cannot be read. `Merge`, the merging of tickets by
people, is external to the module and may happen at any time.

### MeetingPresence

The provider (`Enter`, `Leave`, `RoomEnds`; external) produces callbacks in the order
of time. `Process` claims one in the inbox, `ResolveMeeting` reads the meeting outside
of the transaction, `ApplyJoin`, `ApplyLeave` and `ApplyEnd` are the transaction, and
`MarkProcessed` or `MarkFailed` writes the inbox by id. `RecoverPending` claims again
what failed or was abandoned, so a callback is applied again after newer ones.
`Reorder` says whether a callback may first arrive after a later one. `MergeJoin` and
`MergeLeave` are the rules for the one row of a participant. Users of the helpdesk
also confirm joins and leaves themselves; the sweep is split at its reads
(`ReadStale`, `CloseStale`, `EndAbandoned`). Times are numbers of one clock.

### NotificationPipeline

`job` is the stream with what the consumer group knows of each message (pending, how
often delivered, idle for longer than `reclaimIdle`), `dead` the dead letters,
`notification` and `delivery` the two rows of an idempotency key. A worker is a place
in the batch of a consumer: `ReadGroup` and `ReclaimPending` hand it a message,
`CreateAndPush`, `ScheduleEmail` and `MarkPending` are the writes of the handler, and
`Acknowledge`, or `JobFailed` and `AcknowledgeDead`, is what `processMessage` makes of
its answer. A request that sends a chat message does the same for a push
(`ScheduleReply`, which finds or creates the notification, and `SchedulePush`) without
a message; what it leaves undone is found by
`RecoverPushSchedules`. A sender is a place in the batch of a scan: `ClaimDue` and
`ReadClaimed` are the conditional update and the read after it, `Load` everything up to
the provider, `Send` the provider's answer, `Settle` the one transaction that writes the
row and the notification, by id and from the copy. Every step may fail or be the last
one of its process (`Fault`, `WorkerCrash`, `SenderCrash`).

Time is three flags: a message becomes idle (`BecomeIdle`) although its consumer may
still work, a retry becomes due, a lease ends. A scan normally gets through its batch
within the lease of fifteen minutes, so the lease of a row ends after its scan did
(`LeaseEnds`). That a scan takes longer is a fault, `LeaseOverrun`: then two scans hold
the row, the first with an old copy. `overrun` remembers that this has happened, for
the properties that promise more while it has not. A key has one channel, as the callers of the two services use them.
Recipients who may not be notified (or whose membership cannot be read, which the code
does not tell apart) are `rejected`; a failed read of the notification is taken by the
code for a deleted one, the state `unreadable`.

## What TLC checks

Deadlock is not checked: requests, revisions and faults are bounded, and a
cancelled or settled system rightly stops.

| Run | Shows |
|---|---|
| `outbox_slow` | With handlers that may outlive the lease: `OpenRowsCanBeClaimed` (no open row at its retry limit, which no poll would select again), `PublishedWasDelivered`, `DeadAfterMaxRetries`, and under fairness `EventuallySettled`. One event, two pollers, one immediate publisher, one fault, retry limits 1 and 3, so that backoffs of one and four minutes both occur. |
| `outbox_prompt` | When every relay writes back within its lease: `OnePublisher`, `ReplayIsServed`, and `EventOutbox` implements `EventDelivery`, of which a settled event stays settled. Two events and two pollers, batches of one (so the limit is exceeded), a two-tick lease, one fault. |
| `case_state` | All technical operations and commands in every order, for eight of the twelve kinds of ticket, with meetings and child tickets that come and go, one of them at a time, revisions 0 to 5: `ResolutionRecorded`, `ResumeOnlyWhileWaiting`, `OfferedStepsSucceed`, `CaseCanAdvance`, `TerminalStatusIsFinal`, `TypeOK`. |
| `case_commands` | Two commands under two keys, of an engineer and a manager, arriving at any time and repeatedly among the technical operations, without meetings and child tickets: `StaleNeverApplied`, `ConflictIsFinal`, `RetryNeverConflicts`. |
| `ai_turns` | Two workers, batches of two, two turns of one conversation, two attempts, one fault: `TurnsInOrder`, `SettledTurnWasAnswered`, `FailedAfterMaxRetries`, `SettledIsFinal`, `TypeOK`. |
| `ai_live` | `EventuallySettled` under fairness, with a crash, a lost heartbeat or a failed write. |
| `effects` | `ResultsAgree`, `AnnouncedIffSucceeded`, `NoConcurrentExecution` (for prompt keys), `SucceededIsFinal`; one key whose result is a ticket and one whose lease lapses, two executors, three tickets that are merged with each other. |
| `meetings_replay` | Callbacks first delivered in order, then repeated and recovered by two handlers that take over from each other, with crashes and failures: `PresenceFollowsRoom`, `ProcessedWasApplied`, `EndedIsFinal`, `StartedBeforeJoins`. |
| `meetings_reorder` | Violation of `PresenceFollowsRoom` (see below). |
| `supplier_rows` | Two suppliers of one company, three open transactions, three collaborations with the ids 1, 2 and 12 and their scopes: `OneActivePerSupplier`, `ServedWhileActive`, `EndedIsFinal`, `TypeOK`. |
| `supplier_clock` | Violation of `ClockResumes` (see below). |
| `notifications` | One key (a mail or a push), two workers, two senders, two deliveries of the message, one retry, one fault (a crash, a failed read or write, or a scan that outlives its lease): `AckedIsScheduled`, `SentWasAccepted`, `FailedAfterMaxRetries`, `DuplicateNeedsFault`, `SettledIsFinal`, and under fairness `EventuallySettled`. |

The runs leave out the type invariants of `EventOutbox`, `WorkflowEffects`,
`MeetingPresence` and `NotificationPipeline`, and `StartNeverMovesLater`: these are
proved for every instance.

*Why the bounds are enough.* In the outbox the conflicts are between relays of one
row, so two pollers and a publisher on one event meet in every way; a second event
is needed only for batches, and the prompt run has it. One fault may strike anywhere;
two retries pass through first failure, backoff, and death. `AgeCap` tells apart all
ages a backoff can, which `AgeCapAssumption` checks on each run. For the case, one
engineer and one manager are the two sides of every access rule that one ticket can
see (the run about cancelling needs a second engineer). The case graph is left and
re-entered within six revisions: new, assigned, waiting, back, resolved, closed and
reopened. `StateScopes` takes every kind of ticket under the strictest workflow and, to
keep the run short, those that are product and linked or neither under the other two;
`OneHold` leaves out a meeting and an open child at once, which hold back different
steps. The strictest workflow, the most permissive one and none are the extremes;
`Validate` confines every other one between the first two, and the theorem on
workflows covers them all. Two commands suffice for a conflict, an overtaking and a
reused key. In the reply jobs the conflicts are between two turns of a conversation
and two workers of a turn, and two attempts pass through the first failure and the
last. Effects conflict within a key; the theorems cover any number of executors. A
participant needs a join, a leave and a second join for two windows, which is what
the callbacks of the meeting runs are for. A handler whose lock ran out needs a second
one that takes over; `OverlapBound` of `MCMeetingPresence` keeps that overlap to the
times when neither users of the helpdesk nor sweeps are at work, and, with a user
present, leaves out a sweep after a fault; the theorems are without it. For suppliers two targets and three
transactions let two endings overlap with an invitation; the third collaboration is
the one that follows an ended one, or the one whose id begins with another's. Tickets
are merged in chains of three, the longest that `Resolves` tells apart. Notifications
conflict within a key; one message is enough, because a reclaim already gives it to two
workers, and one overrun gives a row to two scans; the theorems cover any number of
faults.

*Fairness.* `outbox_slow`, `ai_live` and `notifications` use it. The poll loop of the outbox is driven
by a ticker (weak fairness of `Poll`), time passes (`Tick`), and a relay that started
goes on (`Relay`): the code awaits nothing between its steps but the handlers, which
are assumed to return, and a process that dies is a `Crash` step that leaves the relay
idle. The workers of the reply jobs are started every two seconds and the recovery
every ten (`cronx/cron.go`), leases and backoffs run out, a run ends because its
context has a timeout (`Work`), and the heartbeat of a job in process goes on.
The consumers of the notification stream read in a loop and reclaim every ten seconds,
the scan of deliveries runs every fifteen, and a worker or sender goes on unless it
crashes.
Producers, customers, people at the desk, replays and faults are never obliged to
happen. For tickets people
decide what happens next, so no liveness is claimed; `CaseCanAdvance` says instead
that in every reachable state somebody can take the next step.

## What is proved

All proofs are for any constants that satisfy the modules' assumptions.

- `TypeCorrect`: `Spec => []TypeOK` of `EventOutbox`. `TypeOK` alone is not
  inductive, because a save uses the event of a relay's record; `RelayType` adds
  that a busy relay has one.
- `OpenRowsCanBeClaimedHolds` and `DeadAfterMaxRetriesHolds`, from the inductive
  invariant `RetryInv`. The difficulty is stale copies: a save writes a retry count
  that was read any time ago. `RetryInv` says of every *copy* in a batch or in work
  that its count is below the row's limit and at most the number of failures so
  far, and that `max_retries` of a stored row never changes; so incrementing it
  either stays below the limit or is a death that enough failures justify. No
  assumption on the length of a dispatch is needed.
- `PublishedWasDeliveredHolds`, from `ServedInv`: a relay past its handlers works on
  an event that was served, and served never returns to zero.
- `ValidWorkflowStrandsNoCase` of `CaseWorkflow`: in *every* workflow `Validate`
  accepts each open case state has an allowed successor one step nearer to closure.
  The comment at `workflow.go:51` promises that optional edges "can be disabled
  without stranding a case". That the operations find these edges is
  `CaseCanAdvanceHolds`, below.
- `OnePublisherHolds`, `ReplayIsServedHolds`, `RelayImplementsDelivery` (the refinement
  of `EventDelivery`) and `SettledStaysSettled`, for relays that write back within their
  lease (`~SlowDispatch`), from `LeaseInv`: the row of a busy relay reads `publishing`,
  its lease and the age of the claim add up to one minute, and the claim answers the
  newest request, because a replay does not requeue a row whose lease runs. For the
  refinement each step of the relay is shown to be a request, a delivery, a settlement
  or no step of `EventDelivery`.

- `WorkflowEffectsProofs`: `TypeCorrect`, `AllRunsAgree` (`ResultsAgree`),
  `AnnouncementsAreTrue` (`AnnouncedIffSucceeded`), `LeaseExcludes`
  (`NoConcurrentExecution`) and `FinishedStaysFinished` (`SucceededIsFinal`) for any
  keys, executors and results, from one inductive invariant. `ResultsAgree` alone is
  nearly inductive, because a run reports success only with the row it settled, or with
  what the ticket on a row it read resolves to, a settled row is never taken again, and
  a merge is never undone; two runs differ only if a merge lies between them. The exclusion is not: it needs
  `LeasedIsRunning` (a lease is held on running rows only) and `LeaseHeld` (a prompt
  executor between its acquisition and its last write has its key's row leased and
  running, and once it has read the row again, under its own attempt). Together they
  say that the row a second executor would need is refused to it by `MayAcquire`.

- `MeetingPresenceProofs`: `TypeCorrect`, `NoCallbackLost` (`ProcessedWasApplied`),
  `EndOfMeetingIsFinal` (`EndedIsFinal`), `StartIsEarliest` (`StartNeverMovesLater`)
  and `StartPrecedesJoins` (`StartedBeforeJoins`), for any number of handlers,
  participants and callbacks and with `Reorder` on or off, where the run has few of
  each. The types need that a busy handler has a callback (`BusyHasCallback`), the
  inbox that a handler about to mark its callback processed has applied it
  (`InboxInv`). The three properties of the meeting rest on one lemma about what any
  step may do to the meeting and to a join (`RoomChange`, `RoomStep`).

  `AttendanceFollowsRoom` (`PresenceFollowsRoom`) needs `~Reorder`; with reordering it is
  false, as `meetings_reorder` shows. Three invariants carry it. `SentInv`: callbacks
  are timed in the order of their numbers, and those about one participant alternate
  between joins and leaves. `OrderInv`: what the inbox knows was sent, and all sent
  before it is applied; so a callback applied for the first time is the newest about
  its participant, and any other is a repetition. `RowInv`: the row of a guest shows the
  newest callback applied, and after a leave it keeps a join that lies at or after all
  older callbacks. `JoinShows` and `LeaveShows` then go through the comparisons of
  `MergeJoin` and `MergeLeave`: a new callback moves the row on, a repetition leaves the
  window as it is.

- `NotificationPipelineProofs`: `TypeCorrect` and `NoMessageLost` (`AckedIsScheduled`)
  for any number of keys, messages, consumers, scans and faults. The types need that
  a busy consumer holds a message of its key (`WorkersHaveJobs`) and a busy scan a
  key. `AckedIsScheduled` is not inductive: a consumer acknowledges on the strength of
  what it did some steps before. `AckInv` adds what each consumer knows (`HandledBy`)
  and that a status in a mail's notification, or in the copy a consumer read before it
  schedules, shows that the delivery exists (`StatusMeansRow`); both survive the other
  consumers because a delivery row is never removed (`ScheduledStays`).

  `SentWasAcceptedHolds` and `FailedAfterMaxRetriesHolds` follow from `ReportInv`: what a
  scan holds is true when it settles by id, however old its copy is (a sender at `sent`
  was accepted, one at `refused` was refused, no copy counts more retries than failed).
  `DuplicateNeedsFaultHolds` and `SettledIsFinalHolds` are about scans within their lease
  (`~overrun`) and follow from `ClaimInv`: the row of a busy sender is in process and not
  stale, so no other sender has it; and all acceptances but one are paid for by a fault
  unless the last one is on record or about to be.

- `SupplierCollaborationProofs`: `TypeCorrect`, `OneActivePerSupplierHolds`,
  `ServedWhileActiveHolds` and `EndedIsFinalHolds`, for any suppliers, rows and
  transactions, from `LockInv`. It says what each lock preserves: an invitation past its
  search holds the ticket and, if it found nothing, there still is nothing; a
  transaction that ends a collaboration holds its row, which is still active. Other
  transactions read without these locks, and participation, wait and finality need no
  more. That an active collaboration keeps its scope is a second invariant, `ScopeInv`,
  for collaborations that are `Apart`: no other one of the account has an id that begins
  with theirs or begins theirs. `NotMatched` says that the search for another
  collaboration then misses the scope, and `EnsureScopeKeeps`, `DisableScopesKeeps` and
  `DisableAllKeeps` what the three ways of writing scopes leave alone.

- `AIReplyJobsProofs`: `TypeCorrect`, `SettledStaysSettled` (`SettledIsFinal`),
  `FailedAfterMaxRetriesHolds`, `TurnsInOrderHolds` and `NoTurnEndsInSilence`
  (`SettledTurnWasAnswered`), for any turns, conversations, workers and batches. The
  types need that a worker at work has a batch, and that copies are of turns that were
  sent (`WorkerOK`, `RowsOK`). A settled row is never touched because every write is
  either the fence of `Finish` or a claim of an unsettled row. `FailInv` bounds the
  count of every copy by the failures so far; `OrderInv` adds that turns are numbered
  as they are sent, so that no earlier one appears later; `AnswerInv` says that a worker
  about to settle a turn already knows why it may, which stays true because messages
  are not unsent and a conversation does not return to the AI.

- `TicketCaseProofs`: everything the runs check of a ticket, for every set of staff,
  kinds of ticket, workflows, keys and revisions. `Inv`, the inductive invariant, is
  `TypeOK`, `RowOK` (what the columns of the row relate: `ResolutionRecorded`,
  `ResumeOnlyWhileWaiting`, and the case that belongs to each technical status that
  stands for one) and `CommandOK` (a command saw a revision the case has had, and while
  it is still the revision also the case). It gives `ResolutionRecordedHolds`,
  `ResumeOnlyWhileWaitingHolds`, `ConflictIsFinalHolds`, `RetryNeverConflictsHolds`,
  `StaleNeverAppliedHolds` and `OfferedStepsSucceedHolds`, also with late invitations.
  The last one says of every step forward the page offers that it fails exactly when a
  meeting (of a case to be resolved) or a child ticket (of one to be closed) holds it
  back.
  The argument has two halves. Of a *row*: every operation is a write through `Sync`, and
  lemmas say once what a write does (`PlainWrite`, `CompletedWrite`, `Follows`), above
  all that the revision moves with the case (`Advances`). Of *commands*: a step writes
  the row, sends, executes, or does neither (`StepKinds`), so the commands need only
  `Advances`. `TerminalStatusIsFinalHolds` and `CaseCanAdvanceHolds` need `~LateInvite`,
  without which `MCTicketCase_invite.cfg` shows the first one false; `OrderInv` adds that a
  new case is in a status somebody can accept and that the ticket stays active while a
  supplier is being invited. `CaseCanAdvanceHolds` uses what `Validate` demands of a
  workflow, edge by edge. The one new assumption, `ReceiptAssumption`, is that the
  absence of a receipt is not a command. In `TicketCase` one write over another is `++`,
  a function merge that the provers can expand, with the meaning of TLC's `@@`.

All invariants and safety properties of the passing runs are proved. *Only model-checked* are
`EventuallySettled` of the outbox, the reply jobs and the notifications: liveness under
fairness is outside the prover's reach. The inductive invariants were checked with TLC on
the instances of the runs before they were proved, those of the ticket with late invitations and without. Deliberately broken
models (for example `MergeLeave` without the guard against leaves older than the join) make
the proofs fail at the step that uses what was removed.

## What was found

Each of these is a run whose violation is expected; `PROJECT.json` quotes the line
that says otherwise.

1. `meetings_reorder`: a participant joins, leaves and joins again, and the leave is
   delivered last. Her window was still open when the second join came, so its
   `joined_at` was kept, and the old leave closes it: she is in the room and recorded
   as gone. When callbacks first arrive in order this cannot happen, however often
   they are repeated (`meetings_replay`).
2. `supplier_clock`: two suppliers are resolved at the same moment; each transaction
   sees the other's wait as open, and the responsibility clock stays paused with
   nobody to wait for. `Resolve` does not lock the ticket; expiry and time-out do.

Further configurations of the same modules, not among the runs, reproduce smaller
disagreements with `tlc -config <file> <module>`; each ends with a counterexample.

- `MCEventOutbox_republish.cfg` (`SettledIsFinal`): a relay whose handlers need more
  than a minute loses its lease without noticing. Another relay publishes the row; when
  the first one then fails, its `Save` sets the row back to pending and polling
  publishes it again. With handlers that end within the lease this cannot happen
  (`outbox_prompt`).
- `MCNotificationPipeline_status.cfg` (`ReportedAsSent`): `scheduleEmail` writes
  `email_pending` after the delivery can already be claimed; a scan that sends the mail
  in between has its `email_sent` overwritten for good.
- `MCTicketCase_invite.cfg` (`TerminalStatusIsFinal`): a supplier invitation that
  read the ticket before a cancellation or a closure revives it, because the status
  is not read again under the lock (`ticket_supplier_collaboration_service.go:583`).
  Without such an interleaving terminal states are final (`case_state`).
- `MCSupplierCollaboration_scopes.cfg` (`AuthorizedWhileActive`): ending the collaboration
  with the id 1 disables the scope of the active one with the id 12 of the same account,
  by the `LIKE` of `ticket_supplier_collaboration_repository.go:339`. What the supplier
  may do in its collaboration is decided by its participation
  (`requirePartnerCollaborationWork`), which it keeps; only the scope row is wrong.
- `MCTicketCase_resume.cfg` (`AssignedHasAssignee`): a case put on hold while
  assigned, then recycled to the pool, resumes as assigned with nobody assigned.
- `MCTicketCase_pool.cfg` (`ResolvedLeavesDispatch`): a resolved case without
  assignee is pulled back into the dispatch pool when its conversation is queued.
- `MCTicketCase_reopen.cfg` (`OfferedReopenSucceeds`): reopening is offered on a
  resolved case with neither owner nor assignee, where it is always refused. (That the
  page also offers to resolve during a meeting and to close before a child ticket is
  part of what `OfferedStepsSucceed` states.)
- `MCTicketCase_cancel.cfg` (`OfferedCancelSucceeds`): in an unbound workflow,
  cancelling is offered on a resolved case to an owner who is no longer its assignee,
  where it is always refused.
- `MCTicketCase_retry.cfg` (`RetryReturnsReceipt`): an engineer who repeats his own
  successful reopen, having lost the answer, is forbidden to see it.
- `MCAIReplyJobs_rounds.cfg` (`RoundsCountReplies`): `ai_reply_rounds` is written as
  the successor of a value read before the run; a repeated run does not count right.

## What is not modelled

- The handlers of the event bus: an environment that succeeds or fails. A crash
  takes down one relay, not all relays of an instance; this only adds behaviours.
- Tickets from before case statuses existed, drafts and registrations, service
  requests; who merges tickets and when, and that a merged ticket accepts no update
  (`WorkflowEffects` has merging as an environment step); the graph of ticket relations,
  of which `TicketCase` keeps whether a child is open; `video_support`, which a standard case cannot reach;
  `ChangeStatus` and `Transition`, which refuse standard cases.
- Whether an account may be assigned (team membership, schedules, disabled users),
  fault codes, knowledge candidates, the conversation itself beyond who serves it.
- In `TicketCase` the end of the last collaboration is one step; its interleavings
  are the subject of `SupplierCollaboration`. There, members other than the owner of
  a collaboration, further accounts of a company, the removal of members, and messages
  are left out, and the case
  status is reduced to open, concluded and closed.
- The agent: what it answers, which tools it calls, and the interrupts it may store
  are inputs of `AIReplyJobs`. A node of a workflow is an input of `WorkflowEffects`;
  the rest of the graph executor (branches, loops, subflows) keeps no shared state.
- Creation of rooms (a flag of `TicketCase`) and tokens, transcripts, archives, and what the end of a meeting
  does to its ticket. Attendance of users with an account depends on two independent
  sources with their own clocks; `PresenceFollowsRoom` is about the others.
- Of notifications: malformed messages and unknown job types (dead letters at once),
  the trimming of the stream at ten thousand messages, attempt records, templates,
  in-app notifications, the erasure of rows by privacy requests, and notifications that
  are deactivated while their delivery waits.
- Elapsed times and durations: date arithmetic.
- Locks themselves: a deadlock between row locks is broken by the database.
- Everything listed as `not_modelled` in `PROJECT.json`, with its reason: user
  interfaces, external providers, queries and configuration records.

## Plan

In the order of importance:

1. **Done**: `EventOutbox`, `EventDelivery`, `CaseWorkflow`, `TicketCase`,
   `SupplierCollaboration`, `AIReplyJobs`, `WorkflowEffects`, `MeetingPresence`,
   `NotificationPipeline`, their runs, and proofs of all their safety properties.
2. **Closing**: `CloseEffects`, the side effects of a closure after its commit, the
   recovery scan and crashes in between, composed with `EventDelivery` as the outbox
   it uses. Property: every closure's effects happen in the end and none is skipped.
3. **`CaseOwnership`**: disabling an account while it becomes the owner of a case.
   Property: no open case is owned by a disabled account.
4. **Deliveries**: `ChannelOutbox` (no atomic claim), against an abstract at-least-once
   delivery that `NotificationPipeline` implements too.
5. **Composition** of `AIReplyJobs` and `WorkflowEffects`: a repeated turn meets the
   effects of its first run.
6. **Dispatch attempts** and the conversation that shares them.

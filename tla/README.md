# Verification of Kelpie

Kelpie (`src/`) is a local daemon, `kelpied`, that carries messages between
terminal agents run by Herdr and programs connected to its Unix socket. It keeps
everything that must survive in one SQLite file and never claims more about a
message than the evidence allows. This directory holds TLA+ models of that code,
the TLC instances that check them, and TLAPS proofs about them.

| Module | Models | TLC instance | Theorems |
|---|---|---|---|
| `Messaging` | messages, obligations, the prompt write boundary, sweeps, recovery | `MCMessaging`, `MCPickup` | `MessagingProofs`, `MessagingSafety` |
| `ReplyContract` | what an ask promises, in the abstract | through `Messaging` | `ContractProofs` |
| `Gates` | clear, renew and prompts of one incarnation, and what they hold back from each other | `MCGates` | `GatesProofs` |
| `Lanes` | the Herdr executor, the poll loop, client connections | `MCLanes` | `LanesProofs` |
| `Identities` | logical agents, names, incarnations, runtimes, recovery | `MCIdentities` | `IdentitiesProofs` |
| `Inbox` | socket waiters and their inboxes, pull asks and their leases | `MCInbox` | `InboxProofs` |
| `Recurring` | reply reminders and repeating tell schedules | `MCRecurring` | `RecurringProofs` |

`PROJECT.json` maps every definition to the source lines it stands for, and lists
the hazards of the code with the properties aimed at each.

## 1. Inventory

| Component | State | Operations | Hard behaviour | What makes it correct |
|---|---|---|---|---|
| Messages, deliveries, operations (`store.rs`, `slice.rs`) | `messages`, `deliveries.outcome`, `operations.outcome`, `operation_attempts.phase`, `scheduled_at_ms` | create ask / tell / reply / notice, submit, accept, reject, mark unknown, supersede | crash inside a write; a late answer; two owners of one row | written at most once, recorded honestly, settled once |
| Reply obligations (`store.rs`) | `obligations.state`, `resolving_message_id`, `unavailable_since_ms` | open, progress, resolve, cancel, orphan | two finals, cancel and sweep in flight together | one settlement, by an accepted final or with notices |
| Prompt write boundary (`daemon.rs` `awaiting_prompts`, `slice.rs`) | parked prompts, their owner, `intent_committed` | park, lane opens or fails, commit, send, complete | work prepared against rows that change before it runs | the commit re-reads the row |
| Due sweep | queued rows with a due time, `due_inflight` | supersede settled asks, fire due rows | missed wakes, rows of an earlier daemon, rows behind a clear | a due row that nothing holds back leaves the queue |
| Absence sweep | `unavailable_since_ms` | observe, orphan after grace | clock restarts, an answer on its way | a stranded ask settles |
| Socket waiters, socket inbox | waiter rows, `targeting_ended_at_ms`, queued rows, live sessions | register, push, ack, end | ending while rows are queued; re-delivery | nothing left behind |
| Ask-pull sink | queued rows, receive lease | claim, receive, ack | a lease taken over by another receiver | each row acknowledged once |
| Idempotency replay | keys of operations and inbox rows | look up, refuse, replay | retry after a timeout | one effect per key |
| Recovery | `live_operation_floor` | startup and live reconcile, missed wakes | runs beside live writes | abandoned and owned work told apart |
| Incarnations and names | incarnation state, pane, terminal, name | start, adopt, continue, retire, rename, archive | snapshot races, half-done starts | at most one Ready incarnation |
| Clear, renew | clear operations, renew cycle, gates | begin, probe, write, settle | several steps, each may be the last | a gate never outlives its cause |
| Reminders, repeating tells | reminder and schedule rows | arm, fire, snooze, skip | unknown outcome, missed slots | no double fire |
| Herdr executor (`herdr_exec.rs`) | lanes, four workers, leases | open, send, drop, cancel | blocked workers, FIFO per pane | order per pane |
| Poll loop, sessions, CLI, envelope, paths | sockets, buffers, text | parse, render, I/O | partial reads | every client answered or closed |

The parts interact as follows. A client request runs one handler in the event
loop, which commits one or more SQLite transactions and may *park* a prompt on
the lane of the recipient's pane. When the lane has a connection the daemon
commits the intent (`submitted`) and hands over the text; when Herdr answers,
or the read times out, the daemon records the outcome and, for a final reply,
settles the ask in the same transaction. Sweeps and recovery run in the same
loop between these callbacks. So handlers are atomic with respect to each other,
and what interleaves is parked work, clients, time, the agents' lives and
crashes. The hazards this exposes are listed in `PROJECT.json`, each at its line.

## 2. How the modules compose

The daemon is one thread over one database, so any two components share state.
The modules cut it where the code itself passes little through:

* `Messaging` takes the life of a prompt on its lane (open, commit, write, answer,
  loss) as steps of their own; `Lanes` is the executor behind those steps, and
  shows what they rest on: one written command per pane, none after the verdict,
  every job ended.
* `Messaging` takes a clear, a renew cycle about to clear or clearing, and any other
  lifecycle work on an agent as something that opens and ends at will (`BeginWork`,
  `EndWork`); `Gates` is the protocols behind these steps, and says what closes the
  gate on a recipient and what opens it.
* `Messaging` takes a change of the Ready incarnation as one step; `Identities` is
  the protocols behind that step.
* `Messaging` takes an acknowledgement of a picked up row as one step and the end of
  a waiter as another; `Inbox` is the sessions, leases and sweeps behind them.
* `Recurring` produces what `Messaging` carries: reminders are prompts without a
  reply obligation of their own, and a firing is a scheduled tell.

What the modules share is restated, not imported: each keeps the part of a row
that its own decisions read. `ReplyContract` is the only abstract specification,
because it is the only promise the code makes across components.

## 3. `Messaging`

Messages are identifiers with constant attributes (who asks, who owes, what a
reply answers, which key the client used); a message whose outcome is `"none"`
does not exist yet. Texts, ids and timestamps are left out. Time is kept only as
what the code compares: a due time is absent (`"now"`), ahead (`"later"`) or
reached (`"due"`), and the absence clock of an ask is `"no"`, `"observed"` or
`"expired"`.

| Model | Code |
|---|---|
| `obl`, `resolver`, `absent` | `obligations.state`, `resolving_message_id`, `unavailable_since_ms` |
| `outcome`, `sched`, `target` | `deliveries.outcome`, `scheduled_at_ms`, `recipient_incarnation_id` |
| `op`, `attempted` | `operations.outcome`, an attempt past phase `prepared` |
| `ready`, `gen`, `ended` | the Ready incarnation, incarnations so far, ended waiters |
| `open` | open clears, renew cycles in `ready` or `clearing`, and whatever else counts as presence: starts, adoptions, retirements, cycles in another phase; each with the incarnation it is on |
| `preparing` | asks that are `renews.ask_message_id` of a live cycle |
| `job`, `carried`, `up` | `awaiting_prompts` by owner, operations at or below the live floor, process alive |
| `landed`, `crashes` | history: prompts Herdr took, crashes so far |

| Action | Handler |
|---|---|
| `RecordAsk`, `RecordTell`, `RecordSocketTell`, `RecordReply` | `record_ask`, `create_tell_with_due`, `create_socket_tell`, `create_reply_with_due`; a replayed or refused request changes nothing and is a disabled action |
| `BeginRenewPrepare`, `CycleMovesOn` | `begin_renew_prepare` as parked by `park_due_renews`; `cancel_unanswered_prepare` |
| `FireTellSchedule` | `fire_tell_schedule` with a target it can reach |
| `CancelAsk`, `CancelTell`, `EndWaiter` | `record_cancel` over `cancel_queued_delivery` / `cancel_with_response`, `end_socket_waiter_with_owing_due` |
| `Ack` | `ack_socket_inbox_delivery`, `ack_ask_pull_delivery` |
| `OpenFails`, `PromptOpened` | `fail_parked_prompt`, `on_prompt_opened` with `commit_prompt_intent` |
| `HerdrTakes` | external: Herdr takes the text, and then sees the agent work or not |
| `PromptAccepted`, `PromptRejected`, `PromptLost` | `complete_prompt_delivery`: observed, stalled and unobserved writes are all accepted; an explicit refusal is rejected; anything else is unknown |
| `DueSweep`, `AbsenceSweep` | `begin_due_deliveries`, `sweep_absent_asks` with `orphan_ask` |
| `Crash`, `Restart`, `LiveReconcile` | process death; `bind` after startup recovery; the same reconcile in the live daemon |
| `BeginWork`, `EndWork` | a lifecycle operation or a phase of a renew cycle begins and ends; a clear that was written pushes queued rows behind its settle gap (`complete_clear`, `mark_clear_unknown`) |
| `DueTimeArrives`, `GraceElapses`, `LoseIncarnation`, `BindIncarnation` | the clock and the agents |

A clear holds prompts back in two places, and both are modelled. A prompt that is
recorded while a clear of its recipient is open becomes due at once and is left to
the due sweep (`DueTime`, `Deferred`: `prompt_schedule`), and the due sweep passes
over what is addressed to an incarnation with an open clear or a clearing cycle
(`Gated`: `due_deliveries`). Notices of the absence sweep are parked without either.
A restart settles every clear, gives up the rows that came due while no daemon ran,
and keeps two kinds of them for a late write: firings of schedules, and rows behind a
clear (`MissedWake`). Nothing makes a clear end before that: one that failed stays
open as long as the daemon runs.

Abstractions to know about. A start, adoption or continuation becomes ready in the
single step `BindIncarnation`; until then it is part of `open`, which is all that the
absence sweep asks about it. Work may end without having been written, and the settle
gap after a clear (in which a prompt for now is deferred too) is a due time ahead like
any other. A rejection as `target_unavailable` by Herdr is not told apart from
`rejected`. `EndWaiter` parks its notices either for the retirement session
(`"notice"`) or for the absence sweep.

`ReplyContract` is the abstract promise: an ask is opened once, settled at most
once, and resolved only in the step in which the waiter receives a final reply
to that ask. `Messaging` is shown to implement it by the mapping
`state <- obl`, `answer <- resolver`, `received <- finals whose delivery is
accepted`.

## 4. `Gates`

One incarnation, its pane, and all that may be written there. `clear` holds the
client's clear (`awaiting_clears` with its operation), `row` a renew cycle (a row of
`renews` with what the daemon has parked for it), `policy` the schedule behind a
recurring renew, `prompt` and `due` the deliveries to the incarnation, `lane` and
`sent` the pane's lane. `live` is the backend session the agent really runs and
`recorded` the one the store saw last: a clear is proved by the difference.
`timing` is the backend's clear protocol, chosen once: the session rotates on the
clear, on the next prompt, or there is no clear command.

Each action is a function of the daemon and has its name: `PromptStep` records,
fires, opens and settles a prompt, and parks the notices and reminders that do not ask
the gate (`AbsenceSweepNotice`, `CollectDueReminder` with `OnReminderSnapshot`);
`ClearStep` takes a clear through its settling,
probe, write and rotation observation; `RenewStep` takes a cycle through
preparation, answer or timeout, clear, injection, confirmation, completion or
abandonment, with cancellation and the end of the target at any point. `Crash`
loses what is parked and runs recovery (`Recover`). Two
crash points inside one handler that commits two transactions are actions of their
own (`CrashInPrepare`, `CrashInClearing`). Deadlines are steps that may come at any
time; only the gap after a clear and the abandonment of a proof are counted.

`GatedWritesAwaitClear` is what the gates achieve: between the moment a clear is
written and the moment its outcome is recorded, the lane carries no write that asked
the gate before it was parked, which are client prompts, cancel notices, prepare asks,
resume prompts, deliveries fired by the sweep and other clears. The gate is asked when a
write is parked and not when it opens, so this rests on what may stand in the lane behind
what. Two kinds of prompt do not ask, are in the model, and can be written into an open
clear (see observations): notices of the absence sweep, which are recorded without a due
time and parked at once (store.rs:7047-7067, slice.rs:4530, daemon.rs:2857-2878), and
reminders, which look for an open clear when they are collected and not again after the
lifecycle snapshot (daemon.rs:2914-2965). Nor does the property say that a prompt is
never written into a renew's clear: the code holds back only deliveries fired by the
sweep, which is the second half of the property.

## 5. `Lanes`

`exec` is the executor's queue: per lane the queued jobs and the job in flight,
the jobs that joined a queued snapshot, and the channel to the workers. `worker`
is what each thread does, `lease` the channel by which the daemon tells an open
job to write or to drop, `events` what the workers reported. On the daemon's side
`parked` is the union of `awaiting_reads`, `awaiting_prompts` and the
`awaiting_adopts` that a request for an alias passes through, `owners` is
`herdr_owners`, `fanned` is `pending_events`. A connection is reading, parked,
writing or closed.

`LaneIsExclusive` speaks of written commands and not of jobs in flight: a failed
job frees its lane while its worker still waits on the lease, so two jobs of one
lane can be in progress, and only the lease's verdict keeps them apart.
`SnapshotIsFresh` compares the jobs a request covers with those submitted before
it was made.

A request for an alias takes up to four jobs: a snapshot to find the agent; when its
name has to be given first, a rename in its pane and a snapshot that confirms it, asked
for after the rename was answered; then the prompt of the resumed request. `whoami` and
`who` adopt in the same way and then answer: an alias request without its last job. In
the model they are reads, which end with their first snapshot.

`EveryClientIsReleased` speaks of the methods that are modelled: those served at once,
those that wait for a snapshot, a prompt or an alias, and `cancel`. It has one exception,
`NoticeForgotten`, which the observations explain.

## 6. `Identities`

`db.inc` is the table of incarnations with the start, adoption or retirement that
is open on each; `db.name` the logical agents with their names; `herdr` what each
pane holds; `req` the daemon's parked record of each request, with the snapshot it
is working from; `launch` remembers which incarnation launched each runtime.
Snapshots are taken in one step (`HerdrObserves`) and used in a later one, and
everything else may come between; the other `Herdr...` actions start, rename, prompt
and close. `PeopleAct` is what happens in Herdr on its own: a runtime ends, one is
started by hand, a name is taken away, or Herdr restarts with new terminals and its
agents in any panes.

`Reconcile` is `Store::reconcile` with `continue_restored_occupants`, a function of
the database and a view; boot, the `recover` request and a rename all use it, as
in the code. `RecoveryLeavesLiveWork` is what the live operation floor is for.
`FailedStartLeftNothing` is about the evidence: an answer that was lost proves
nothing, so such a start becomes unknown. It speaks of starts whose launch Herdr
never answered with a terminal: a launch that was answered may end as failed and
still have left a runtime behind. The poll of the launch fails it as soon as the
terminal shows another name, a runtime in Herdr can be given another name by hand
or by the adoption of its pane, and can be given the start's name again later.

A request for an agent the daemon does not know is refused (`Unminted`,
`AdoptRefused`), as the code's lookups do.

## 7. `Inbox`

`waiters`, `agents` and `inbox` are rows; `conn` is the inbox session of each
waiter with what is offered, buffered, on the wire and held by the host; `daemon`
is the absence sweep with its snapshot job; `pull` is the event log of a pull ask
with its lease and `readers` what each reader has seen. `absent` is history: how
long a waiter has really been unconnected, in sweep intervals.

`WaiterNameExclusive` crosses the two places where names are given: registration
checks agents, and starts, adoptions, renames and continuations check waiters when
they become ready and not only when they begin. `ExpiredHadItsGrace` allows one
interval less than the grace: a sweep marks connected waiters once per interval,
so a connection that drops just before the next sweep has already been away for
up to an interval when its clock starts.

## 8. `Recurring`

`policy` is a row of `obligation_reminders`, `attempt` and `draft` a reminder from
collection to outcome, `job` the lifecycle snapshot with the asks collected for it,
`schedule` a tell schedule with the log of its firings, `gap` an open clear of the
agent with the gap behind it. Time is counted in units of the busy recheck.

`WrittenReminderIsDue` looks at the state in which the text is written, although
the code decided it from a snapshot, a draft and a commit at three earlier times.
`activity` and `lapsed` are history, kept apart from the policy row so that the
property does not repeat the guard.

## 9. Runs

| Run | Instance | Shows |
|---|---|---|
| `messaging` | two Herdr agents, one ask, of a client or of a renew cycle, two finals, one crash | resolved exactly by one accepted final; an accepted final is the answer; the contract holds |
| `pull` | a pull ask, a tell with the key of the ask, a schedule's firing, times ahead and reached, one crash | at most one write per message and per key, honest and stable outcomes, live writes spared by recovery |
| `socket` | a socket waiter's ask, a progress and a final reply, a socket tell, deferred notices, two incarnations | an ended waiter is drained, no silent close |
| `live` | a pull ask with its final, a clear of one agent and other work on the other, under fairness, one crash | stranded asks settle, due rows that nothing holds back leave the queue |
| `gates` | a client's clear, a prompt, an orphan notice, a reminder, up to two renew cycles of a policy, one crash, one rotation | clear and renew exclude each other, no write that asked the gate reaches an open clear, one clear per cycle, the policy stays armed, the prepare ask ends with its phase, an injected cycle ends |
| `lanes` | three clients, one of which binds an alias in up to four jobs, two panes and the snapshot lane, two workers | one written command per pane, fresh snapshots, nothing written after its verdict, every client released |
| `identities` | one running agent, another that may be minted, two requests at a time, two of: a change in Herdr, a failed job, a crash | retired means gone, one launch per start, a failed start left nothing, recovery leaves live work, continues only what stopped |
| `inbox` | two waiters, two agents, two names; or one inbox with two messages; or a pull ask with three events and two readers | names exclusive, grace observed, queued rows leave, events acknowledged |
| `recurring` | one ask or one schedule, six units of time, two incarnations, two events, one crash | a written reminder is due, deadlines never move earlier, one notice per run of failures |
| `carried_write` | as `messaging`, scheduled | **violated**: see findings |
| `orphan_race` | as `messaging` | **violated**: see findings |
| `stalled_final` | as `messaging` | **violated**: see findings |

### Bounds

`Messaging`: `MaxCrashes = 1` gives a row a life before, across and after a
restart; every recovery decision looks at one restart only. `socket` has none: rows
to be picked up have no operation, and recovery does not look at them.
`MaxIncarnation = 2` lets an agent come back as another incarnation, which is what
makes `target` stale; with 1 an agent can still be lost. `MaxParked = 2` is what one
row needs to be parked by its client and by the sweep at once; beyond that, prompts
of different rows do not interact except through the ask they share. `pull` also bounds
the prompts that clients and the schedule record at all to `MaxPrompts = 2` of its three:
two with one key, or one and the firing. (Where these two are 9, they bound nothing.)
`Schedules` selects the due times that clients give. `Work` says which lifecycle work may
open: in `live` a clear of the agent that owes the answer and other work of the one that
waits for it, so that a gate and a presence that outlives its incarnation both occur;
elsewhere none, because the safety properties do not depend on the gate (the theorems
hold for any `Work`) and `Gates` is about what does. The theorems below hold without
these bounds.
`SymmetricReplies` permutes two finals that differ in nothing, and is used only
where no liveness is checked.

`Gates`: `MaxCycles = 2` is a cycle and the one it arms; a third differs from the
second in nothing. `MaxSessions = 1` is one rotation; a second would be compared
with the first in the same way. `MCGates` starts from states where part of the work
is over, so that two cycles, or a clear and a prompt, or one cycle with a clear or
a prompt, each meet a crash, and all three meet without one. One notice and one reminder
are the two kinds of write that do not ask the gate: both meet the clear of a client and a
crash, and the notice meets a cycle without one.
`InjectedCycleEnds` is asked of the cycles before the last, since the last one
cannot arm its successor within the bound.

`Lanes`: three readers are one in flight, one queued and one that joins it; two
workers are one that can be held by a pane while the other goes on; one of the
clients writes, and chooses between two panes where it writes a second time (the other
notice of a cancel, the rename before a prompt), because the panes are alike.

`Identities`: `MaxIncs = 3` and `MaxRuns = 3` are the agent, its successor and a
rival; the disturbances are bounded to two of three kinds per behaviour.

`Inbox`: each behaviour spends one budget, on names, on a connection or on the pull
ask, which share no state. `Grace = 3` intervals leaves room for a reconnect and
for a sweep that was asked before it and answered after it; `Wire = 1` makes the
second offered line wait.

`Recurring`: `Interval = 2` and `Longer = 3` units in six leave room for a busy
recheck, a snooze and a second reminder; four firings make two runs of failures
with a success between them.

All instances are finite and their clients may run out of requests, so every run
may end: `CHECK_DEADLOCK FALSE`.

### Fairness

`Messaging` (`FairSpec`, run `live`). `Restart`: the service manager restarts
`kelpied`. `DueSweep` and `AbsenceSweep`: the loop runs them at their interval. The
clock steps: time passes.
`CompletePrompt`: every read on a lane has a timeout
(`PROMPT_WAIT_READ_TIMEOUT`), so an opened prompt is answered. `PromptOpened` is
strongly fair: connections may fail any number of times, but not always. Nothing is
assumed of agents, clients or of Herdr taking a prompt, and nothing ends lifecycle
work: a clear that failed stays open until the daemon is restarted, and the code
promises nothing of what waits for it. So `DueDeliveryLeavesQueue` speaks of rows that
no clear or renew cycle holds back for good, and `StrandedAskSettles` of asks of which
a party is absent in the sense of the code, which an agent with a failed clear is not,
and one that returns within every grace neither. `StrandedAskSettles` also excludes asks
held by a final that is queued, submitted, accepted or unknown (the code holds those on
purpose, and an unknown final holds its ask until someone cancels it) and the ask of a
live renew cycle, which is its cycle's to settle.

`Gates` (run `gates`). The poll loop parks due renews, completes proven ones and
ends those whose target is gone; the clock runs; the read of the live session is
strongly fair, since any one may fail. Nothing is assumed of the agent, of a
rotation or of a prompt.

`Lanes` (run `lanes`). The loop passes over connections and events, and a worker is
a thread whose calls have time limits. A client that never sends its line, or never
reads its answer, is cut off by the daemon's deadline (`GiveUpReading`,
`AdvanceWrite`).

`Inbox` (run `inbox`). The loop pumps sessions, the clock and the sweep go on, the
supervisor restarts the daemon, and a host or a reader that is connected reads and
acknowledges. A host that does not come back is what the sweep is for.

## 10. Findings and observations

Runs that expect a violation:

* `carried_write`: startup recovery leaves a delivery queued for a later time.
  It is below the live floor, so when the new daemon writes it, a reconcile that
  runs during the write marks it unknown, and the acceptance that follows is
  lost.
* `orphan_race`: the outcomes that hold orphaning do not include `pending`, so
  an immediate final that is recorded and not yet submitted does not hold it.
* `stalled_final`: SPEC.md says a stalled submission must not resolve an
  obligation; the code accepts it and resolves the ask of a final reply.

Behaviour met while modelling that the models contain and no property states. Line
numbers are of `src/src/` unless another file is named.

*Prompts and lanes.*
A prompt is written to the pane it was prepared for even if its incarnation was
replaced meanwhile (daemon.rs:3117); the initial message of a start is committed
without rechecking that the recipient is still Ready after the settle time
(daemon.rs:3480). When the intent commit of a cancel's notice fails, its client is
never answered (daemon.rs:3136; `NoticeForgotten`). `herdr_owners` keeps an entry
after a failed connection (only `Dropped` removes it, daemon.rs:3067). A refused
initial message is recorded as unknown, because its error is wrapped before
`complete_initial_delivery` sees it (daemon.rs:3216, 3574), while
docs/client-protocol.md:221 promises the refusal; the same path leaves a start open
until restart when the answer to `agent.start` is lost.

*Clear and renew.*
A rotation timeout of a clear clears its job before it fails the clear by that job,
so the client is not answered (daemon.rs:3853 against docs/client-protocol.md:827).
A crash between the prepare ask and the phase that waits for it leaves the cycle
scheduled with its key used (slice.rs:2778). A failed clear leaves its operation
pending, and the gate closed, until a restart (daemon.rs:3873). While it stays open its agent counts as
present, and an ask it owes or waits on is not orphaned, even if its runtime is gone
(store.rs:10278). Prompts sent at
once are not held back by a renew's phases (slice.rs:2145 against SPEC.md:702). The
settle gap is computed once and not checked again (SPEC.md:586). With on-timeout
`proceed` an agent that never saw the prepare prompt is cleared (SPEC.md:660).

SPEC.md:588-591 says that prompts and reminders MUST remain queued while a clear awaits
its rotation. Orphan notices of the absence sweep do not: they have no due time, are
parked in the same pass of the loop (daemon.rs:2857-2878), and the intent commit looks at
their own operation only (store.rs:1433-1444); nor do reminders collected before the clear
(daemon.rs:2914-2965). `Gates` contains both writes.

*Identities.*
A crash after a handoff launched its runtime lets boot recovery make the new
incarnation Ready without superseding the old one (store.rs:10167 against
docs/client-protocol.md:203). A recovery whose snapshot precedes `agent.rename`
clears the pending name, and Herdr then renames (store.rs:9189 against
SPEC.md:1069). A stale snapshot of a recovery marks an incarnation lost that became
ready meanwhile. `adopt --logical-id` of an agent that is Ready elsewhere is not
refused (store.rs:1038). After archiving, an alias with the archived name is
continued in the archived identity by a later occupant (slice.rs:1275, 4036 against
the comment at store.rs:4341). A crash between readiness and the initial message
loses that message.

*Inbox.*
A waiter may expire up to one sweep interval before its connection has been away
for the grace. A name is free for a waiter while its incarnation is retiring.

*Recurring.*
One reminder in flight holds all others back. A reminder drafted before a clear can
be written while the clear awaits its rotation (store.rs:7252 does not look at open
clears; SPEC.md:588). A reply to an ask whose delivery was never accepted arms its
policy (store.rs:10541), which SPEC.md says needs an accepted delivery.

## 11. Proofs

Every theorem is of the specification `Init /\ [][Next]_vars` of its module (`Spec`)
and for all values of the constants that satisfy the module's named assumption. TLC
evaluates the assumptions on every instance and checked each inductive invariant on
instances before it was proved, which is how several conjuncts below were found.

Assumptions. `Messaging`: `PartiesAssumption` (owing agents are Herdr agents, agents and
waiters are disjoint, pull asks wait on Herdr agents), `RepliesAssumption`,
`BoundsAssumption` (firings are tells, the asks of renew cycles are asks, work is of the
three kinds). `Recurring`: the longer interval is longer, and the bounds are
numbers. `Inbox`: the grace and the wire are positive, budgets are numbers. `Lanes`:
there is a worker; a client's methods are the ones the daemon serves. `Gates`: the
bounds are numbers. `Identities`: panes are finite (Herdr lists them), requests that
name something name it with a name, and there is room for the incarnation and the
runtime that exist at the start. The sets of agents, messages, keys, clients, jobs,
panes, clears, prompts, asks and schedules are arbitrary.

### `Messaging`

`MessagingProofs` proves type correctness, one step per action.

`MessagingSafety` proves that `PromptInv` is inductive. The properties are not
inductive by themselves: that a message is written at most once depends on the
outcome row of every parked prompt, on the due time, and on who owns the prompt.
`PromptInv` says, for each message, what the operation row says about the
delivery row (`RowsAgree`), what the delivery row says about writes
(`WritesAgree`: before submission nothing was attempted; a failed row was never
taken), what parked prompts say about both (`JobsAgree`: at most one in flight,
an unscheduled row has one parked prompt, a notice session's prompt is
unscheduled); and across messages that one key has at most one operation that
did not fail (`KeysAgree`), that notices exist exactly for closed asks unless
withdrawn (`NoticesAgree`), and that an ask and its obligation are recorded
together (`AsksAgree`). Steps are of three kinds: those that record one message,
those that close asks, and quiet ones. `MsgFrame` disposes of the messages a
step leaves alone, `RowStays` of what no step may do to an existing row.

From it follow, for all constants: `AtMostOneWrite`, `KeyLandsOnce`,
`OutcomeIsHonest`, `LiveWriteIsSubmitted`, `NoSilentClose` and
`SettledDeliveryStays`. `EndedWaiterIsDrained` needs one fact more and its own
induction: `RowStays` says that no step puts a recorded row back into a queue, and
what ends with its waiter (`Drains`) takes the queued rows along in the same step.

`ContractProofs` proves that `Messaging` implements `ReplyContract`. `StepMoves`
says that every step is, for each ask, one of five moves (untouched, opened, in
progress, answered, closed), that an accepted message stays accepted, and that a
final newly accepted over Herdr is recorded as the answer; `PromptInv` is needed
because completing a prompt resolves the ask without looking at the delivery
row: only the invariant says that the row is `submitted` and turns `accepted` in
that same step. The moves are the contract's actions under the mapping, and
`ResolvedByAcceptedFinal` and `AcceptedPromptFinalResolves` are inductive
together: an ask with an answer is resolved, and a resolved ask has no move left.

### `Gates`

What a gate checks when a write is parked has to hold when the write gets the pane,
which may be much later and after other writes. `GatesInv` therefore says what may
stand in the lane behind what: nothing behind a clear (`ClearsAgree`), each prompt and
each renew write once (`PromptsAgree`, `RenewsAgree`), a delivery fired before a cycle
came to its clear only in front of that clear (`FiredAgree`); that a cycle's writes, its
recorded attempt and the place of its job agree (`RowAgrees`); and that rows are used in
order with at most the last one alive (`RowsInOrder`, `PolicyAgrees`).
`ClearExcludesRenew`, `OneClearPerCycle`, `PolicyStaysArmed`, `PrepareAskEndsWithCycle`
and the action property `GatedWritesAwaitClear` follow. Notices and reminders that do not
ask the gate may stand anywhere in the lane (`Ungated`), which is why the order of the
others has to be stated without them.

### `Lanes`

Queues, workers and the daemon each know a part of where a job is. `ExecAgrees` says
where the executor has a job (in one place of one lane, or joined to one other job, or
in the channel), `WorkersAgree` that workers hold different jobs, `OpenedAgree` and
`CommandsAgree` that a command which was given or written belongs to a parked prompt
which holds its lane and of which no event is under way. From these,
`LaneIsExclusive`: a job that failed has lost its lease before its lane is given on.
`AnswersAgree` carries what a worker's request covers to the events made of it
(`SnapshotIsFresh`), `DropsAgree` that a request hears its verdict before the last event
of its job, so that `NoWriteAfterVerdict` holds also for jobs that joined another.
`ClientAgrees` says that the jobs of an alias request come one after another, so a later
one never meets an event or a lease of an earlier one.

### `Identities`

The store is a value that the operators of `store.rs` transform. `Follows(d, e, F, G)`
says what a transaction may make of the rows of `d`: agents and seats stay, an accepted
launch stays accepted, a row that was started keeps its runtime, at most the rows in `F`
are refused and at most those in `G` retired. Each operator has a lemma, and
`FollowsTwice` composes them. `Reconcile` settles each row by itself and appends one row
for each claim it grants, in some order, which exists because the panes are finite
(`OrderExists`): the recovery is proved for any number of rows. `Repairs` is what one
step of a recovery or a rename does, and `RepairsFollow` gives both
`RecoveryLeavesLiveWork` and `ContinuesOnlyTheStopped`.

`IdentitiesInv` says of each request that it fits the store (`Fits`: it has the
incarnation, the name and the snapshot that its next step uses), and of launches
(`LaunchesAgree`) that a start that may still be launched has launched nothing and was
not refused, that a refused row has no launch, and that two requests own different
incarnations. The last is what makes a retry safe: the incarnation a busy start launches
again is nobody else's. `AtMostOneLaunch` and `FailedStartLeftNothing` follow.

`RetiredMeansGone` is about views that grow old while Herdr goes on: a close may be
confirmed, and a recovery may complete an earlier daemon's retirement, on a snapshot
taken long before. `Knows` says of every view that a request still holds that it does not
show a seat empty in which the runtime of a row it may be used to retire is sitting. That
stays true because a runtime never comes back to a seat that it left (`Later`,
`StaysGone`): runtimes are numbered as they are launched, and a restart of Herdr, which
may put one back into its pane, puts it on a terminal that no row names yet (`Terms` and
`Runs` type the records by the terminals and runtimes there have been). So what a
transaction retires has left its seat at that moment, not only when the view was taken
(`Departed`), and stays away (`SeatsKept`).

### `Inbox`

`InboxInv` has three independent parts. What is buffered, on the wire, held or
acknowledged was offered on that connection (`SessionAgrees`). Names: with
`WaiterNameExclusive` itself, that only ready and retiring agents have a rename pending
and that active waiters have a name (`NamesAgree`). Time: a waiter's clock is at most
one interval ahead of its absence, and a connected waiter has just been seen, unless the
sweep that is due has yet to see it (`ClockAgrees`), from which `ExpiredHadItsGrace`.

### `Recurring`

`AskAgrees` says that an armed policy waits a whole interval from the latest reply and
that whatever was collected, drafted or written has a deadline; `WrittenReminderIsDue`
and `DeadlineNeverMovesEarlier` follow. `LogAgrees` says of a schedule's log that a run
of unavailable firings begins only when every earlier tell is delivered, so that a
firing skipped after it has a delivered one in between; without this
`NoticeOncePerRun` is not inductive.

### Only model-checked

The liveness properties (`StrandedAskSettles`, `DueDeliveryLeavesQueue`,
`InjectedCycleEnds`, `EveryClientIsReleased`, `QueuedLeaves`, `PulledEventsAreAcked`)
rest on fairness, which is out of the prover's reach, and stay with TLC. Every invariant
and every other action property that a passing run checks is also a theorem.

## 12. Not modelled

* Command line, paths, envelope text, attribution, message formats: pure text or
  I/O, on which no protocol state depends.
* Migrations: SQL that runs before the daemon serves. The constraints that matter
  at run time are guards in the models.
* The comparison of a replayed request with the recorded one: a replay changes
  nothing either way.
* Reports (`who`, `report`, `status`): reads that change nothing. The snapshot some
  of them wait for is in `Lanes`.
* The operator inbox beyond the notices that raise it.
* Learning a native session identifier, backends of different kinds and different
  working directories (`Identities` takes them as equal).
* Boundary reminders (`boundary_check_at_ms`, set when an ask's delivery is accepted,
  store.rs:1984): every ask `boundary_reminders` finds is past its `next_due_at_ms` and
  its snooze, so `due_reminders` finds it in the same pass, and the due reminder goes
  first. Leaving them out loses no behaviour.
* In `Lanes`, the jobs of start, clear, renew, adopt, rename, retire, reminders and
  inbox clients, and the renames by which a recovery repairs names: what these requests
  do is in `Gates`, `Identities`, `Inbox` and `Recurring`, where a job may take any
  time and fail, but no queue is modelled.
* The wire format of Herdr's socket, and framing of client lines.

# Mission Control, in TLA+

Formal specifications of the parts of Mission Control (`flanksource/mission-control`)
whose correctness depends on the order in which concurrent actors act: model-checked
with TLC on small instances, and proved with TLAPS where that is in reach.

Mission Control is one Go server (the *upstream*) on PostgreSQL. Goroutines, cron jobs,
HTTP handlers and other processes (agents, plugins, several replicas) meet in the tables
of that database, so a component's state is mostly a set of rows, its steps are
transactions, and its hard behaviour is what other actors do between two of them. The
data layer (`github.com/flanksource/duty`: models, `postq` consumers, cron jobs) is a
library that is not in this repository; definitions for it are modelled from its use in
`src/` and are marked *duty* in the modules and *external* in `PROJECT.json`.

## 1. Inventory

| Part (source) | State it keeps | Operations | What makes it hard | What makes it correct | Here |
|---|---|---|---|---|---|
| Playbook runs (`playbook/run_consumer.go`, `playbook/runner`, `controllers.go`, `jobs.go`) | `playbook_runs`, `playbook_run_actions` | create, approve, schedule the next action, execute, cancel, time out, agent poll and report | two pools of consumers, people, agents and a job move one run; an action executes inside a transaction that may roll back | one action at a time, in the order of the spec, within its retries; a final status is final; every run ends | `PlaybookRun`, `StepRunner`, `PlaybookRunProofs` |
| Plugin supervisor (`plugin/machinery/local`) | client, stopped flag, restart budget behind a mutex | start, watch the exit, watch the binary, restart, stop | the lock is released between the steps of a restart; goroutines of earlier processes live on | a live process is watched; restarts are bounded; stop means stopped | `PluginSupervisor`, `PluginSupervisorProofs` |
| Plugin registry and reconciler (`plugin/registry.go`, `plugin/reconciler`, `plugin/machinery`) | entries and references behind a mutex, the `plugins` table, binaries on disk | reconcile, roll back, delete, delete stale, upgrade, replay, proxied registration | each operation is several critical sections; a start may fail at each of them | references resolve exactly; no process leaks; what runs is what the spec says | `PluginRegistry`, `PluginRegistryProofs` |
| Notifications (`notification/`) | `notification_send_history`, event queue | constraints, wait, evaluate, send, retry, fall back, trigger a playbook | two jobs on every replica, asynchronous consumers outside the queue's transaction, what is sent cannot be rolled back | a row is sent once, retries and fallbacks are bounded, a waiting row gets settled | `NotificationSend`, `NotificationSendProofs` (groups, caches, several recipients left out) |
| Playbook triggers (`playbook/events.go`, `webhook.go`, `schedule.go`, `playbook.go`) | cache of playbooks by event, cron entries, runs and their parents | match events, fire schedules, take webhooks and requests, start children, forbid them | a query is acted on after the playbook was saved or deleted; the cache is filled after a flush; handlers fail and are retried | the cache is what the database would answer; the scheduler has the present schedules; a parent ends whatever becomes of its children | `PlaybookIntake`, `PlaybookIntakeProofs`; runs started by notifications in `NotificationSend` |
| Approvals (`playbook/approval.go`, `events.go`, `db/playbooks.go`) | `playbook_approvals`, two kinds of event | approve, decide on the pending runs of a playbook | approvals are judged by a later event, against what the playbook says by then | no run that needs approval starts without it; one that has it starts; what is over stays over | `PlaybookIntake` |
| Playbook agents (`playbook/runner/agent.go`, `playbook/jobs.go`, `run_consumer.go`) | rows of the action in two databases | long poll, save, execute, push, mark | answers are lost, results pushed twice or by two runs of a job, either side restarts | an action is handed out once; both sides agree on its outcome; it is reported | `PlaybookAgent`, `AgentLink`, `AgentLinkProofs`; the upstream's view of it in `PlaybookRun` |
| Artifacts (`artifacts/jobs.go`, `upstream/push.go`) | `is_pushed`, `is_data_pushed` | push records, push data | two jobs, a loop that any failure ends | data follows its record and arrives | `PlaybookAgent` |
| Agent tunnel (`upstream/tunnel`) | one session per agent, behind a mutex | dial, register, replace, watch, open a stream | each end notices the end of a connection in its own time; the watcher of an old session runs after the new one is registered; streams are opened without the lock | calls go to the only open session; streams have an owner; the agent reconnects | `AgentTunnel`, `AgentLink`, `AgentLinkProofs` |
| Views (`views/table.go`, `db/views.go`) | a generated table, a row of panels, shared refreshes in memory | read or refresh, time out, fall back, delete | a refresh outlives its request and is joined by others; a request reads in several statements | rows and panels are of one refresh; nobody is shown older data than before; who is told to try again does not do so in vain | `ViewRefresh`, `ViewRefreshProofs` |
| Event queue (`events/`) | `event_queue` | upsert, consume, retry | upsert of a queued event resets its attempts | no event is lost | in part: the events of `NotificationSend` and `PlaybookIntake` |
| Plugin gateway, manifest cache, SDK | connections, files | forward, stream, upgrade, report | - | requests reach the present runtime | in part: upgrade, report, calls through the tunnel |
| Everything else | single rows, or none | CRUD, rendering, clients of other services, the CLI, the UI | - | - | not modelled; each part and the reason are in `PROJECT.json` |

How the parts interact: a change of health puts an event into the queue; its handlers
start playbook runs and send or postpone notifications; a notification may start a
playbook run through another event (`playbook.run`), and the run writes back into the
notification's row; an action may start child runs, which resume it; agents poll and push
over HTTP, and the upstream calls them back through the tunnel they dial; the reconciler of the Plugin CRD starts supervisors, which the gateway routes
requests to. All but the last go through rows; the plugin parts go through a mutex.

## 2. Modules

    StepRunner          what a run promises                 abstract specification
    AgentAction         what the engine and an agent's      abstract specification
      ^                 side rely on of each other
      ^ both implemented by
    PlaybookRun         the engine                          MCPlaybookRun (requests)
      ^ extended by PlaybookRunProofs
    PlaybookIntake      how runs come to be and are         MCPlaybookIntake (playbooks)
      ^ PlaybookIntakeProofs            approved
    PlaybookAgent       actions on an agent, artifacts; implements AgentAction too
    AgentTunnel         the tunnel to an agent
      ^ composed, with shared restarts, by
    AgentLink                                               MCAgentLink (kinds of actions)
      ^ AgentLinkProofs
    PluginSupervisor    one plugin binary                   checked directly
      ^ PluginSupervisorProofs
    PluginRegistry      registry, reconciler, upgrades      MCPluginRegistry (names, sources)
      ^ PluginRegistryProofs  (a runtime stands for a supervisor)
    NotificationSend    send history of a notification      MCNotificationSend (notifications)
      ^ NotificationSendProofs
    ViewRefresh         stored data of a view               checked directly
      ^ ViewRefreshProofs

`PlaybookIntake` ends where `PlaybookRun` begins: its `EndRun` and `Cancel` stand for the
engine, and `PlaybookRun`'s `Create` and `Approve` stand for it. `PlaybookAgent` is the inside of
what `PlaybookRun` sees as `AgentPoll` and `AgentResult`, with the agent's rows. That the two
mean the same by them is `AgentAction`: the life of an action's row at the upstream, which
is assigned, handed out, withdrawn or refused, and reported once. Both modules implement it,
`PlaybookRun` with `RowsKeepContract` (one row of `Actions` per attempt, `cancelled` the runs
that are) and `PlaybookAgent` with `UpKeepsContract` (`up`).

A module ends with its properties. Operators called *Mutant of X* are slips that the code
could plausibly have; nothing uses them, they are listed in `PROJECT.json` with the
property that catches each of them.

### PlaybookRun

`run[r]` is the status of the run row, `rows[r]` its action rows in the order of creation.
`ScheduleRun` is the transaction of `RunConsumer` (`FOR UPDATE SKIP LOCKED`), with
`NextStep`, `NextAfter` for `GetNextActionToRun`. `ClaimAction`, `Execute`, `Commit`,
`EndUnrun`, `SkipCancelled`, `WaitForChildren` and `Abort` are the transaction of
`ActionConsumer`: it locks the action row, reads the run without locking it, executes, and
commits or rolls back; anything may happen in between. `CancelCheck`/`CancelWrite` and
`TimeoutScan`/`TimeoutMark` are the two halves of updates that read first and update by id
later. `AgentPoll`, `AgentTemplateError` and `AgentResult` are an agent as the upstream
sees it: the answer to a poll may be lost, then the action stays `running`.

Abstractions: a spec is a sequence of steps with flags for what the engine looks at
(retries, wait, filter, delay, agent, children); the outcome of an action is free;
`expired` is `NOW() - scheduled_time > timeout`, and delays and retries move
`scheduled_time`, so they start the timeout again. What `duty` does when an action ends is
a constant, `RescheduleFrom`: the statuses a run is rescheduled from. Attempts are ordered
by creation; that is the order of `start_time` as long as one clock writes it.

What the model shows about the code besides the properties: a run pinned to an agent is
never selected and ends by its timeout only; a run created by an event has no timeout; an
action that was queued when its run timed out is still executed, since `RunAction` only
looks for cancellation; a late timeout write replaces `cancelled`, and a queued action is then
executed after all, so `CancelHonoured` is about runs without a timeout; an action whose
transaction aborts after it was executed is executed again (`RepeatsExplained`: once more
for each such transaction, and never otherwise; `ran` and `lost` of a row count both); the
latest action is the one started last, and an agent's clock writes the start of its own; a
step with a delay whose retry waits is postponed for ever once it failed, and a run with such
a step (`Endless`) does not end by its timeout either, since each postponement starts that
again.

### PlaybookIntake

`row[p]` is the row of a playbook (its spec and whether it is deleted), `cache` the
playbooks of an event, `crons` the entries of the cron scheduler, `runs[r]` the run with the
copy of the spec its trigger has read, `queue` the events, and `work[w]` what a handler has
read and not yet acted upon: `EventMiss`/`Fill` are the query and the fill of the cache,
`SyncRead`/`SyncApply` the query of `syncPlaybookSchedules` and its update of the entries
under the lock, `BeginDecide`/`Decide` the read of the playbook and the update of its pending
runs, `BeginChild` with `CreateChild` or `ForbidChild` the start of a child for a parent that
`AskChildren` has put to waiting. `had`, `raced` and the field `flushed` are history.
`Fail` is a handler whose transaction rolls back and whose event comes again.

Abstractions: a spec is who approves and how, whether the event triggers it, its schedules
and its children; which playbooks' filters and parameters match is free, and so is whether
the database announces the change of an approval that was absent before or after.
An approval by the same approver again inserts another row and another event (it counts as
a trigger, so that it cannot keep the queue busy for ever).

What the model shows about the code besides the properties: a deleted playbook is still
triggered by events, since `FindPlaybooksForEvent` does not look at `deleted_at`; a pending
run of a playbook whose approval is taken out of the spec stays pending, because both events
return early; approval by *all* is satisfied by the rest when one of the approvers has no
row; a run is approved by whom its own spec names, but judged by the count its playbook asks
for now; the fill of the cache by a query that a flush has overtaken stays for an hour;
a forbidden child resumes its parent while other children are still asked for; when one
child is not found the others that were asked before it stay asked.

### PlaybookAgent, AgentTunnel, AgentLink

`up[a]` and `row[a]` are the rows of an action at the upstream and at the agent, `poll[p]` the
handler of a long poll, which may go on when the agent no longer waits (`asking`), `claim[k]`
the row lock of a consumer, `push[j]` what a run of `PushPlaybookActions` has read or
sent, `artifact[a]` and `uploaded` how far an artifact is. A request between the two sides is
several steps: the upstream's transaction (`Check`), the answer (`Reply`, or `GiveUp` and
`SaveFails`), the agent's. `PushFails` and `SyncFails` fail before or after the other side
has stored what was sent. What the templates of an action do is its `kind`: they work, fail
at the upstream, or fail on the agent; or the action never comes.

`AgentTunnel` has the agent's loop (`Dial`, `Serve`, `AgentNotices`), the upstream's handler
(`Hijack`, `Register`), the watcher of each session (`Watch`, with `DeleteIfSame`) and the
goroutine of `Open` (`OpenStream`, `HandOver`, `GiveBack`). The caller of `Open` is the
`http.Transport` that was made for the request: it owns the stream, keeps it idle for 90
seconds at most and closes it (`EndCall`). `AgentLink` runs the two side by
side; they share the processes, so a restart of either is one step of both.

What the model shows besides the properties: an action whose answer was lost stays `running`
at the upstream until the run's timeout; an action whose templates fail on the agent is
rolled back and picked again first, so later ones wait behind it, though a comment says "We
do not retry playbook actions"; `SyncArtifactItems` locks its rows with `SKIP LOCKED` outside of
a transaction, so two runs push the same artifacts; nothing announces to the upstream that
an agent's plugin was removed.

### ViewRefresh

`req[r]` is one request after the other: has the table (`Ask`), is it fresh (`Look`), join or
start a refresh (`Refresh`), wait for it or for the timeout (`Served`, `Failed`, `Timeout`), and
read rows and panels apart (`ReadRows`, `ReadPanels`). `flight[l]` is a refresh that
`singleflight` runs with a context of its own; `Land` is the transaction of `populateView`.
`Delete` is `DeleteView`, four statements without a transaction. What is stored is the
version of `world` that a query saw. `seen` and `shown` are history.

What the model shows besides the properties: who joins a refresh that was started by a
request without rows gets none; a view without a table never falls back to stored panels,
contrary to the comment on the refresh timeout; the table of one fingerprint makes the timeout
of another answer *cached* with nothing in it; rows, panels and the time of the last refresh
may be of different refreshes in one answer; a refresh that lands after `DeleteView` creates
the table and the panels again, and nothing removes them.

### PluginSupervisor

One variable per field of `Supervisor` and one program counter per goroutine: `exitw[p]`
for `watchExit` of process `p`, `binw[p]` for the `watchBinary` that was started with it
(it is never stopped by a restart, so several watch the same file). Each critical section
of `s.mu`, and each call outside of it (`Exited`, `Kill`), is one action. `Start` may fail
whenever it is called. `StartAgain` calls `Start` after `Stop`; it is refused because
`Stop` leaves the client set, contrary to its comment (`supervisor.go:338-339`). No caller
in the repository does so.

### PluginRegistry

`entries` and `refs` are the two maps of the registry, `rows` the table, `runtime[s]` the
supervisors and connections ever created, `work[w]` the program counters of the reconciler
(kopper reconciles one object at a time) and of concurrent upgrade requests. A registry
method is atomic; the operations above it are chains of such steps: persist = `PersistBegin,
PersistUpsert, [StopPop, StopStop,] StartPlugin, StartPath, StartSet, StartLaunch`, with
`StartUnset` and `PersistUndo` on the way back. `Restart` is a restart of the host, after
which `ReplayPlugins` is one `PersistBegin` per row. An object's uid has one name, so
`Name` is a constant. Manifests, their cache and `StopAll` at shutdown are left out.

What the model shows besides the properties: a plugin whose entry is removed while a
start is at `launch` is launched after its removal; a changed address of a remote plugin
is not dialled, since only source and version are compared; an upgrade removes the old
version's directory though another plugin of the same source may run it. And a plugin that
follows the latest version can miss it: while `v1` runs, `v2` is published and the plugin
is reconciled for some other reason, which installs `v2` and writes its path into the entry
(`StartPath`), but finds a runtime and starts nothing (`StartSet`); the upgrade request that
comes next reads the new path (`UpgradeBegin`), finds nothing to do (`UpgradeResolve`), and
`v1` goes on until something else restarts it.

### NotificationSend

One notification, chosen in `Init` among `Notifications`: to a service or a playbook, with
or without a wait, an evaluation phase, a repeat interval and a fallback. `events`,
`adding`, `sends` and `runEvents` are the queue; `rows` is the send history by
`created_at`; `tasks[w]` is what a consumer or job is at. The two sending paths differ in
the code and in the model: the consumer of `notification.send` writes its row on its own
connections (`TakeSend`, `Deliver`, `EndLog`, `Ack`), the jobs send inside the transaction
that locks the row (`TakePending`, `TakeFallback`, `Deliver`, `Commit`). `delivered` counts
what went out and is never rolled back (`Crash`). `MaxRetries` is `notification.max-retries
- 1`, the limit of the query that selects rows (3 by default). The status `started` is that
of the row `StartLog` writes. `StartLog` and `EndLog` may fail to save, each of them alone:
`TakeSend` then writes no row and leaves the event to a retry, and `EndLog` leaves the row as
it was.

What the model shows besides the properties: the query would mark a row `error` when its
retries are already at the limit, but such a row is never selected, so after its last
failure it stays `pending`; a fallback attempt is generated by every failure, where the
comment beside it says "after exhausting retries" (`job.go:222`); the row of a deleted
resource is saved as skipped and then written over with `sent`; the repeat interval is
measured from `created_at` and does not see sends in flight; a row stays `started` for ever
when the consumer of its event crashes, or the outcome of the message cannot be saved, which
is only logged; no job selects it (`CrashesExplain` counts these rows).

## 3. Runs

| Run | Instance | Distinct states | Shows |
|---|---|---|---|
| `playbook_run` | 1 run, 2 consumers, 13 kinds of request, 2 aborts, 6 attempts | 22 874 | one action at a time in a run that executes (`OneAction`), each repeated execution explained by an abort of its own, order, retries of local steps, final statuses, outcomes recorded once, cancellation, termination of runs without an endless step, implements `StepRunner` |
| `playbook_run_agent_retry` | one step on an agent with one retry | violation | an agent's attempts have no count: `RetryLimit` fails |
| `playbook_run_delayed_retry` | one step with a delay and a waiting retry | violation | the two waits alternate for ever: `RetryHappens` fails |
| `playbook_intake` | a parent in three forms and a child, 2 approvers and a team, 2 workers, 1 save, 2 triggers, 2 approvals or cancels, 1 failed handler | 134 913 | a fresh cache, no approved run and no waiting parent forgotten (`NoneForgotten`), no bypass of approvals, what is over stays over, approved runs start, schedules settle, parents end |
| `agent_link` | 2 actions, 2 polls, 2 consumers, a pusher and a syncer, 1 fault; 5 dials, 1 call, 1 cut; restarts of either side | 165 696 | handed out once, both sides agree, the upstream's rows keep `AgentAction`, data after records, one session, owned streams; actions are handed out, reported, their data arrives, the agent reconnects |
| `view_refresh` | 2 requests, 2 refreshes, 2 versions, 1 failure, restart, deletion | 1 575 606 | rows and panels stored together, nobody is shown older data, who is told to try again does not do so in vain |
| `plugin_supervisor` | 4 processes, budget 1, 2 hours, 1 change, 1 more Start | 36 198 | supervision, the budget, crashes noticed |
| `plugin_supervisor_stop` | the same | violation | a restart under way survives `Stop` |
| `plugin_supervisor_orphan` | budget 2 | violation | `watchExit` drops a process that is not its own |
| `plugin_registry` | 2 CRDs and an agent's plugin of one name, 2 versions, an address, the reconciler and 2 upgrades, 3 runtimes, 3 jobs | 661 900 | exact references to what is persisted (`RegistryExact`), routing with overlapping upgrades; no leaks and pinned versions without |
| `notification_mixed` | 4 notifications, 1 resource, 2 senders, 2 changes, 2 failures, 1 crash, 4 rows | 215 208 | sends and rows left behind explained by crashes (`CrashesExplain`), bounded fallbacks, settled rows stay, waiting rows settle |
| `notification_run` | a notification to a playbook | violation | the sender saves its old row over the recorded run |

Why the bounds are enough. *Playbook runs:* a race over one run needs two consumers, a third
would wait for the same lock; runs share nothing but consumers, which the proofs cover for
any number of them; every request has at most three steps, enough for a retry, the step a
failure skips and the one it goes to; `MaxRows` leaves room for every attempt a request
allows (the violation of `RetryLimit` needs three rows); two aborts put a crash at any point
of a transaction and of its repetition. The requests hold every feature of a step, alone and
in the combinations that can be postponed for ever, which only `RunEnds` excludes. *Intake:* one save is what a query, a decision or the
start of a child can be overtaken by; the second trigger finds a cache that is filled; two
inputs are the two approvals that *all* needs, or an approval and a cancel. *Agent:* two
actions let one overtake the other, one of them with an artifact; a second poll is the retry
of one that was given up; with a second run of a job the temporal properties take longer
than they are worth, and what two of them could break is proved for any number. Its side of the tunnel takes a cut, and a dial for each restart.
*Views:* two requests with a refresh each, or both with one; version 2 is what a refresh that
read version 1 must not be shown instead of. *Supervisor:* four processes are the first, one
launch by each watcher, and one more after the hour passed. *Registry:* two objects of one
name are what makes references move; two versions make an upgrade; two upgrades and the
reconciler are three workers over one entry. *Notifications:* two senders meet on one row;
one retry separates the first failure from the last; two changes take a resource to unhealthy
and back. Properties about two resources (groups, inhibitions) are in the model but beyond
the checked instance. What no bound decides is in section 4.

`TypeOK` is an invariant of every model; it is proved (section 4) and not listed in the runs.

Deadlock is not checked: every model stops when its work or a bound is used up.

Violations are disagreements between the code and what a comment or document of the
repository promises; each has an entry in `findings` with the quoted line.

### Fairness

`PlaybookRun`: the consumers poll once a minute besides being notified, and select the
oldest first, so scheduling a run, claiming a row and going on with a transaction are
weakly fair; the timeout job runs every 30 s; the clock reaches the timeout of a run that
stays where it is. Nothing is assumed of approvers, cancels and agents: `RunEnds` is about
runs that need no agent or have a timeout, and in which no step is `Endless`: without an
agent that is the step of `playbook_run_delayed_retry`, with one a wait or a delay is
enough, since its attempts are not counted (`playbook_run_agent_retry`). `PlaybookIntake`: a handler at work ends and its
event comes again if it fails; notifications of the database are delivered, so the cache is
flushed and the schedules are read and applied; runs end (which is `RunEnds`) and resume
their parent. Triggers, saves, approvals and cancels need not come. `PlaybookAgent`: the pull
job loops, a handler answers within the time of the long poll, consumers and the jobs that
push run every minute; faults are finitely many. `AgentTunnel`: the agent's loop dials again,
each end notices a closed connection by its keep-alive, goroutines go on; calls need not
end. `ViewRefresh`: the goroutine of a refresh goes on, for a minute at most; requests need
not. `PluginSupervisor`: each goroutine polls or has a timer, so its steps are weakly fair.
`NotificationSend`: jobs every 15 s, consumers as above; nothing is assumed of health,
silences or recipients. The registry has no liveness property: the reconciler's retries are
those of controller-runtime. All of it is weak fairness, of steps that stay enabled until
they are taken.

## 4. Proofs

For every value of the constants within the assumptions of the modules (`ASSUME`, named
`...Assumption`), so for any number of runs, workers, requests, sessions and rows. Each proof
module has one invariant that is inductive; most of its conjuncts say what a worker in the
middle of an operation knows, which the property to be proved does not mention and its
steps need.

*`PlaybookRunProofs`.* `OneLiveAction` alone is not inductive: it must be known where the
live row is, which run statuses allow one, and what a transaction holds. `EngineInv` adds
that: a live row is the latest of its run and its run is not one that `RunConsumer` could
select (`LiveIsLatest`), a claim holds a queued row (`ClaimsHold`), no two hold the same
(`ClaimsDisjoint`), and steps are in the spec (`StepsInRange`). `AttendedInv` strengthens it for
the other half of `OneAction`, that a run which executes has a live action, which is what ends
it or moves it on: a live row is in a status that its side (consumers or agent) looks for
(`Sorted`), and a transaction that found its run cancelled holds a row of a run that is over
(`Doomed`). Every action moves run rows
only, or one live row, or adds one row to a run without a live one, and the lemmas
`RunRowsOnly`, `OneRowMoved`, `RowRewritten` and `StartStepInv` prove the step once for each
kind. Theorems: `EngineCorrect`, `TypeCorrect`, `OneActionCorrect`,
`OutcomeKeptCorrect`, `StepOrderCorrect` (from the lemma `AttemptsStep`: a step keeps all
attempts or appends one that `GetNextActionToRun` chose), `EndedStaysEndedCorrect`, and
`LocalRetryLimitCorrect` and `CancelHonouredCorrect`. For the former, `Counted` is invariant:
the attempts never go back to an earlier step, and those of a local step carry increasing retry
counts up to its limit, so that the counts map them one to one into `0 .. limit`. For the
latter, an action that a cancellation finds waiting is `Halted` (its run stays cancelled, since
only a timeout or the end of that action itself could move it, and whoever claims it sees the
cancellation) until it has ended `Unexecuted`. `RepeatsExplainedCorrect` keeps an account per
row: its executions are at most one more than those that aborted transactions took back
(`AccountsInv`), and no more than these while the row is queued and in nobody's
execution, so that the next `Execute` cannot overdraw it; `AccountKept` to `AccountsCommit`
say for each kind of step that it keeps the accounts.
`RowsContract` is the step-by-step refinement of `AgentAction`.
`PromiseImplemented` is the refinement: each step of the engine is, for the run it
touches, `Accept`, `Begin`, `Finish` or `End` of `StepRunner`, or a stutter. The lemmas say it
for each kind of step (`RunRowMove` for a change of the run's row alone, `StepBegins` for a
new attempt, `RowMove` for the end of one) and lift it from one run to all of them
(`Lifted`). `PromiseImplemented` and `EndedStaysEndedCorrect` assume that an action that ends
reschedules only runs that execute (`RescheduleFrom = {"running", "waiting"}`, the part that
`duty` decides); the other theorems do not.

*`PlaybookIntakeProofs`.* `IntakeInv` grounds everything that is passed on: what is queued,
cached or at work speaks of playbooks and runs that exist (`QueueGrounded`, `CacheGrounded`,
`WorkGrounded`), a decision uses a spec its playbook has had (`RunsGrounded`, `RowsHad`),
approvals are by those the run's own spec names (`OwnApprovals`), and a query that no flush has
overtaken is what the database would answer (`CacheInv`). `NoneForgotten` is about what
is still to come: for a run that has its approvals an event that concerns it is queued, or a
worker weighs it with the approvers its playbook has now (`Concerns`, `Weighs`); a parent that
waits has a child, or the event that brings one is queued or at work (`Brings`); whatever is
saved, cancelled or fails meanwhile. Theorems: `NoBypassCorrect`, `NoneForgottenCorrect`,
`CacheFreshCorrect`, `CacheCorrect`, `OverStaysOverCorrect`.

*`AgentLinkProofs`.* Of the actions (`ActionInv`): an action is handed out when it stops
waiting (`Once`), one answer at most carries it and the agent has no row of it yet
(`Answering`), the agent has only what it was given (`Given`), a consumer's lock is on a row
that waits (`Locked`), a push reads what is over (`Batched`), and an artifact is left by an
action that is over (`Left`), what is marked as pushed is over and what was sent in a batch is
what the upstream has (`Marked`), and only an assigned action is withdrawn (`Assigned`). Of the tunnel (`TunnelInv`): a connection that was not dialled has
no session, and the goroutine of a call is there only while its caller waits or has left
(`Undialled`, `Opening`). The two halves share restarts only, and neither proof reads the other
half's variables. Theorems: `HandedOnceCorrect`, `AgreeCorrect`, `OutcomeStaysCorrect`, `UpContract` (every step
at the upstream is one of `AgentAction`, or a stutter),
`DataAfterRecordCorrect`, `OneSessionCorrect`, `StreamOwnedCorrect`, `LinkTypeCorrect`.

*`ViewRefreshProofs`.* `ViewInv`: no two refreshes of a fingerprint (`OneFlight`), so that one
brings nothing older than what is stored (`NewerFlight`); nothing is stored that the queries
have not returned, and nothing shown that was not stored (`Known`); who waits does so for a
refresh of what they have asked for (`Waits`); and what had been shown when a request came is
stored, and in what it gets (`Seen`). Theorems: `StoredTogetherCorrect`, `NeverOlderCorrect`,
`NoGoingBackCorrect`, all as long as the view is not being deleted, `SharedCorrect` (`OneFlight` and
`Waits`, which hold during a deletion too) and `TypeCorrect`.

*`PluginSupervisorProofs`.* `TypeCorrect`; `SupervisedCorrect`, which needs that a
goroutine about to call `Start` from `watchExit` has cleared its own client; and
`RestartBudgetCorrect`, whose invariant is an account: launches, plus the restarts granted
and not yet used, are at most the calls of `Start` plus what the budgets of the past hours
and the present count allow. Two theorems delimit the two violations, and no run lists them:
`StopHoldsCorrect`, a `Stop` that finds no goroutine between its look at `stopped` and its
start is final, so the late start of `plugin_supervisor_stop` comes from one that it overtook;
and `NoOrphansCorrect`, in an execution in which no `watchExit` is about to clear a client that
is not its own, every live process has an owner, so the unconditional `s.client = nil` is the
only cause of `plugin_supervisor_orphan`. Its invariant adds that a process seen dead stays so
(`Dead`) and that a process to be killed is in the hands of one goroutine (`Held`).

*`PluginRegistryProofs`.* `RegistryInv`: what a worker can be at, and what it may count on there:
an entry or a row that is still there, a stale namesake that is still on its list (`Busy`);
that the runtime of an entry was made for it (`EntryRuns`), that one a worker stops has been
taken out and one it launches was made for what it starts (`Mines`), that an entry with a
stopped one is in the hands of who has to take it out (`Routed`), and that what is registered
has its row (`Persisted`). Theorems: `RegistryExactCorrect` (references are
exact, and what is registered has its row), `StoppedNotRoutedCorrect`, `TypeCorrect`. While no upgrade begins, `AloneInv` holds besides: what
is up is in an entry or in the reconciler's hand (`Owned`), no entry is removed or replaced that
still has a runtime (`Vacant`), the runtime being launched is the entry's (`Launching`), of the
spec that is being put in place (`Asked`), and every other entry runs what its spec pins
(`InPlace`). Theorems: `NoLeakCorrect` and `PinnedRunsCorrect`.

*`NotificationSendProofs`.* `SendInv`: a consumer of `notification.send` holds a row of its
own that only the playbook engine may have moved on, a job holds a queued row with retries
left (`Held`), and no two hold the same (`Apart`); a row whose `playbook.run` event is queued
waits for it (`Triggered`); nothing was sent of a queued row but by transactions that rolled
back, unless a job is at it (`Accounted`); and the children of a row are an account of its
failures, and of the one refusal of the playbook it triggered (`Parented`). An action touches
one row, one sender and perhaps appends a row, which `OneTouched` proves once for all of them.
`CrashesExplain` adds to the sends of one row the rows that are left behind in `started`
(`Stranded`), of which a step adds at most the row it touches, and only when it is counted in
`crashes` (`StrandedStep`, by cardinality). Theorems: `CrashesExplainCorrect`,
`FallbacksBoundedCorrect`, `SettledStaysCorrect`, `ApartCorrect`, `TypeCorrect`.

Only model-checked: everything under fairness, which is out of the prover's reach
(`RunEnds`, `ApprovedStarts`, `CronsSettle`, `ParentsEnd`, `HandedOut`, `Reported`, `DataArrives`,
`Reconnects`, `TryAgain`, `CrashNoticed`, `RowsSettle`).

## 5. What is not modelled

The map covers a small share of the repository's lines, and most of the rest has no
behaviour that a state machine would tell more about than its code does: generated code
(deep copies, protocol buffers), the API types and their CRDs, clients of the API and of
cloud services, the CLI, the UI, reports, notification templates, the rendering of views and
catalogs, and handlers that read, or write one row, and answer. Besides these:

- What actions, templates, plugins and messages do outside the database; their outcome is
  free.
- Authentication and authorisation: who may do what is a condition of an action at most
  (approvers). Token and session handling is not concurrent beyond a cache with an expiry.
- `duty`: everything this repository does not show. What its use shows is marked *external*;
  whether an action that ends reschedules a run with a final status is a parameter.
- Notifications: groups, several recipients, the rate limit's window, the caches of
  notifications and silences.
- Views: changes of a view's spec (its table is dropped and made again), and several
  replicas, each of which refreshes on its own, since `singleflight` is in memory.
- Artifacts beyond their upload; retention jobs.
- Incidents, applications, catalogs, connections, AI agents: CRUD and calls of other services.

`PROJECT.json` lists each part with its reason, and under `hazards` the behaviour that no
property covers, with a note.

## 6. Plan

Done: the playbook engine, its intake, its agents and their tunnel, the plugin supervisor and
registry, one notification's history, a view's refreshes; every invariant and action property
that a run checks is proved, and so are the refinement of `StepRunner` and the two of
`AgentAction`. Next:

1. The agent's side of `AgentAction` with retries: an abstract specification of an action's
   execution that `row` of `PlaybookAgent` implements, as `up` does.
2. Abstract specifications of the other components in the same manner: of the send history
   of a notification (what `CrashesExplain`, `FallbacksBounded` and `SettledStays` say
   together), and of what a view serves.
3. Notifications of a group: one message for several rows, and the repeat interval between
   them; then the run `notification_mixed` needs two resources.
4. Views of several replicas, and a changed spec while a refresh is under way.

# TG2Cloud: specification

TG2Cloud is a Telegram Bot that fetches the media sent to it and stores them on
a WebDAV server (CloudDrive2 or OpenList) through rclone. One asyncio process
runs the Bot; its memory is a SQLite database, a download directory and whatever
the WebDAV side holds. This directory contains TLA+ models of it, the TLC runs
that check them and TLAPS proofs. Paths below are relative to
`src/src/tg2cloud/` unless they start with `src/`.

## 1. Inventory

For each part: the state it keeps, what it does, what is hard, what makes it
correct. The parts are listed with their status in `PROJECT.json`.

**Task rows** (`domain/states.py`, `persistence/sqlite.py`). One row per media
message: a state out of sixteen, local and remote paths, attempt counters, a
failure kind, a cancellation mark, a receipt (`verified_at`). Besides:
`retained_objects`, `task_recoveries`, the quota ledgers, `service_meta`.
Operations: insert, reserve, transition, update, requeue, recover, defer,
request_stream, confirm. Hard: every other part reads and writes rows across
awaits; recovery has to make sense of any row a crash left. Correct when rows
move along legal edges only and no row is lost in flight.

**Transfer coroutines** (`transfer/download.py`, `streaming.py`, `upload.py`,
`recovery.py`). A buffered task is downloaded to `<file>.part`, renamed, and
handed to an upload coroutine; a streamed one goes from Telegram straight into
rclone. Both then pick a final name, move the staging object to it (CloudDrive2)
or have written it there (OpenList), check its size, record a receipt
(`cleanup_pending`), remove the local copy and complete. State: the row, local
variables, `_finalize_lock`. Hard: errors and timeouts whose remote effect is
unknown, resumption from recorded paths, cancellation at any await, a
notification awaited inside a `try`. Correct when no local copy goes before its
object is safely stored, nobody's object is overwritten, and nothing is reported
as received that is not.

**Scheduler** (`transfer/scheduler.py`, `transfer/destination.py`). Once a
second starts download and upload coroutines within two adaptive windows, the
disk budget, member slots and per-account caps; a resource loop cancels downloads
when the disk is full; a destination probe with a cooldown gates uploads. Hard:
streams use both windows, reservations are sums over rows, emergency
cancellation of coroutines at any point. Correct when bounds hold and every
admitted task is taken up again.

**User actions** (`transfer/actions.py`, `telegram/commands.py`). /cancel stops
the coroutine, removes remote objects and local files; /retry, /recover (an
offer the user confirms, bound to the row's revision), /stream and /confirm
change the row; orphan clean-up lists staging objects without an owner and
removes them after a confirmation. Hard: they run while coroutines of the same
task do. Correct when a finished cancellation is complete, retained objects stay
and a clean-up removes no live task's object.

**Listener** (`listening/*`, `persistence/plans.py`). An optional user account
watches chats by rules: per source a cursor, per message a decision, per matching
message a plan the user may submit. State: sources with revisions, `listener_events`,
`transfer_plans`, cursors, the login state. Hard: crash between decision and cursor,
rules changed while a message is handled, errors of a replaced client arriving
late, flood waits shared by parallel chunk requests (`transport.py`), caps on
events and plans. Correct when every message is handled once, in order, under
the rule in force, and an old session's result never changes a new login.

**Monitoring** (`monitoring/*`). Adaptive windows over measured rates
(`resources.py`), fault notifications with delay, cooldown and recovery notices
(`notifications.py`); the rest are read-only views.

**Members** (`persistence/users.py`, `features.py`, `quotas.py`, `control.py`).
Grants, limits and settings under a revision; edits are compare-and-set.

**Deployment** (`deployment/*`, `compose/*`, `addons/external_webdav/*`,
`persistence/backup.py`, `bundle.py`, `rehearsal.py`). Install, upgrade with
roll-back, instance backup (stop containers, snapshot, start them again), a
journalled change of web-server site files, an add-on WebDAV service. Hard:
several files or containers changed one by one, with failures in between and
other people editing. Correct when every path ends in the old or the new state.

**Interfaces** (`telegram/*`, `cli/*`, `domain/naming.py` and its neighbours).
Texts, menus, pure functions.

How they interact: handlers and the listener insert rows; the scheduler turns
rows into coroutines; coroutines and actions write rows and call the storage
port; a restart runs `recover` once before anything else (`app.py`). All run on
one event loop, so code between two awaits is atomic except for a crash.

## 2. Modules

| module | what it is |
| --- | --- |
| `TaskStates` | states, state classes and legal edges of `domain/states.py` |
| `TransferPipeline` | rows, files, objects, coroutines, cancellation, restart |
| `Delivery` | what the pipeline promises for each task (abstract) |
| `ListenerInbox` | one listened source: poll, decisions, plans, cursor, administrator |
| `Admission` | the scheduler's two rounds, disk budget, windows, a member's limits |
| `ListenerAccount` | login, session file, its lock, the Bot's client |
| `Pacing` | shared flood waits and the account's cap |
| `DestinationWatch` | probes of the destination and the adaptive window |
| `FaultNotices` | alerts and recovery notices over crashes |
| `Dialogue` | the administrator's cards, drafts, plans and templates |
| `TaskConsole` | recovery, cancellation, repair and orphan clean-up as confirmed by a user |
| `FamilyControl` | grants, quotas and settings changed from several terminals |
| `AtomicChange` | what a change of site files promises (abstract) |
| `SiteEntry` | the journalled site transaction that keeps the promise |
| `SharedProxy` | one Nginx configuration shared by all editions |
| `WebdavAccess` | the external WebDAV add-on: record, accounts, route |
| `InstanceUpgrade` | upgrade with roll-back, snapshot |
| `HostRemoval` | installation and removal of editions on one host |
| `MCTransfer`, `MCInbox` | instances and event budgets for TLC |
| `MCService`, `MCDeploy` | compose the machines of the Bot and of the host for TLC |
| `TransferProofs`, `RoleProofs`, `StoreProofs`, `InboxProofs`, `SiteProofs`, `DialogueProofs`, `ServiceProofs`, `HostProofs` | TLAPS proofs |

### TransferPipeline

Variables and what they stand for:

- `row[t]`: the columns that steer the code: `state`, `mode`, `lpath` (no local
  path, the `.part` file or the finished file), `rpath`, `temp`, `final`
  (`remote_path`, `remote_temp_path`, `remote_final_path`), attempt counters,
  failure kind, cancellation mark, receipt, number of recorded recoveries.
- `retained`: `retained_objects`. `part`, `file`: the two local files of a task.
  `store`: for each remote path the object there, whose it is and whether it has
  its full size.
- `pc`, `job`: where the download and the upload coroutine of a task stand and
  their local variables (the attempt, the path written, the name being tried,
  the row as read at the start where the code uses a stale copy). A task may
  have both at once, as in the code. `lock`: `_finalize_lock`.
- `cancelling`, `purge`: a /cancel at work and the remote objects it is to remove.
- `spent`: how often each kind of outside event has happened, against `Limit`.

An action is the code from one await to the next. The labels in `Synchronous`
split two stretches without an await (rename and record, receipt and unlink and
complete) because the process may die inside them; `Yielded` keeps everything
else from running there. `Turn` reflects the order of the event loop: a
coroutine created in one round runs in the next, so the other coroutine of the
task is at most as far as the step it was waiting for. A coroutine cancelled
before it began (`pc = "start"`) runs none of its handlers.

Outside events: a crash (all coroutines gone, `recover` runs), a stop
(coroutines cancelled, then a restart), low disk (`_enforce_disk_emergency`),
I/O failures, a local file that is deleted or truncated by hand, an accepted
object that changes outside the Bot, /cancel and the other commands. A failed
remote write or move may have had its effect or not (`Landed`).

Data abstraction: one shared remote name, because only equal names interact;
sizes are "whole or not"; failure kinds are the classes the code treats
differently (`transient`; `refused` for `authentication`, `permission` and
`rate_limited`, that is 401, 403 and 429 or a wait imposed on the account; `access`
for `source_access`, a listener account that may not read the source; `conflict` for
`remote_conflict`).

Bounds, all named constants: `MaxRetries` is the setting itself;
`MaxRecoveries` bounds recorded recoveries, `MaxSuffix` the numbered names
tried, `Limit` the outside events. A stranger's objects are there from `Init` or not
at all: a name that an outsider takes between the Bot's look-up and its MOVE is
outside `NoForeignOverwrite`.

### Properties

| property | what it says |
| --- | --- |
| `ReceiptBeforeRemoval` | a complete local file goes only with the task's own complete object stored under the recorded path (or by cancellation, or by hand) |
| `RemovalNeedsReceipt` | the same with the receipt on record in place of the object; holds under every interleaving, is proved, and follows where a run checks the one above |
| `CompletedIsStored` | completed means stored, complete, and the task's own |
| `NoForeignOverwrite` | nobody's object is ever replaced by another's; a stranger's is not even removed |
| `UniqueClaim` | two rows never record one final name |
| `RetainedNeverTouched` | what a recovery retained is never written, moved or removed |
| `HeldUntilRecover` | a row held for review leaves its failed state by command only |
| `CancelledIsClean` | a cancelled task left no file and no object but retained ones |
| `InFlightHasWorker` | a row in flight has a coroutine or a pending cancellation |
| `Settles` | once failures and commands stop, every task ends or waits for the user |
| `DeliversAsPromised` | the pipeline implements `Delivery` |

`Delivery` knows of a task only what its user does: its fate (open, accepted, received,
withdrawn), whether he asked to withdraw it, whether the finished local copy is there,
whether the whole object is stored where the record says, and whether anything is left
elsewhere. Its steps say in which order these may change: nothing is accepted unless it is
stored and still here; the copy goes only after that, or for the user, or by hand; an
acceptance is taken back only when the object is not there; received means stored, then and ever
after; while a withdrawal is on, no object and no copy come into being; a withdrawn task
has left nothing, and opens again by command only. `Promise` maps `fate` to the class
of the row's state, `asked` to its cancellation mark, `stored` to the object under
`remote_path`, `left` to a `.part` file or an object that is not retained, and `world` to
`spent`, so that a step of somebody outside can be told from one of the Bot. One step
of the pipeline may be a step of every task, as a restart is.

### ListenerInbox

`source` is a row of `listener_sources` (`wanted` stands for the rules: whether
they match; `polled` for `polled_at`), `event` and `plan` the tables
`listener_events` and `transfer_plans`, `task` whether a message's task still
counts against the queue limit, `client` the number of the connected client,
`poll` the running `Listener.poll` with the revision and client it started from.
`rested` says that the loop has nothing to do before something changes. `preview`
is a history preview the administrator looks at.

The actions named `Poll...` are the stretches of `poll` and `receive` between awaits; a
decision and the cursor update, and the creation and the submission of a plan,
are separate steps because the process may die between the two transactions
(`Synchronous`; nothing else runs there, `Yields`). `Receive` is the part of
`receive` after its last await, used both when the membership was verified a
moment ago and after verifying it again. `PollFails` is `source_failure`. The
administrator's actions are the callbacks of `telegram/planning.py` and
`listening/management.py`; each ends in one transaction, before which the code
compares revisions, so it is one action (a refused one changes nothing).

The chat and the server are outside: messages appear in order, and a page may or
may not contain messages older than `LOOKBACK`, since the request gives both an
id and a date. A tick of the clock is long against a poll: it passes between
polls only, and while the source is listened to only when the loop rests.

| property | what it says |
| --- | --- |
| `NoMessageJumped` | the poll's cursor passes only what is decided or older than the window |
| `DecidedByRuleInForce` | a decision follows the rules, the switch and the account as they are when it is written |
| `NeverReprocessed` | a plan submitted, ignored or expired is never pending again |
| `DeletedHasNoPending` | a deleted source has no plan to approve |
| `EventuallyCaughtUp` | a source that stays enabled is read to its newest message |

### Admission

`row[t]` is the state, `transfer_mode`, `downloaded_bytes` and the member's ledger
entry of a task; `bytes` what it really has on disk (the row is told later, so the
two differ); `loading` and `sending` are `download_tasks` and `upload_tasks`,
`slots` is `quota_slots`. `turn`, `batch` and `room` are the scheduler between its
awaits: it reads a batch, computes the free places, then reserves task by task,
and everything else may move in between (`Others`). `Reserves` and `Sends` are
`_start_downloads` and `_start_uploads` with the transaction of `TaskDB.reserve`
and `admit_upload`; `Sets` includes the ledger trigger. Every task belongs to one
member; the limits may be any of `Limits`. A member's usage is a sum over the rows:
`Units` lists the bytes one by one, so that `Total` is the size of a finite set.

Two places where the code is looser than one would expect, both in the model and
both outside the properties as they are worded: a /stream between the batch read
and the reservation admits a stream without the check of the upload window
(`transfer/scheduler.py:204-208` looks at the row it has read), and an upload that
is repeated from `cleanup_pending` runs without a member slot (`upload.py`).

### ListenerAccount

`account` is the row in `service_meta`, `session` and `lock` are
`personal.session` and `session.lock`, `client` and `kept` the fields of
`Listener`, `closing` the disconnects under way. The loop and a download's read
through `CheckedSource` are two coroutines; the terminal login is another process.
An answer is given by Telegram at one moment (`PollAnswered`, `ReadAnswered`) and
seen by the coroutine later (`PollSeen`, `ReadSeen`): in between the account may
be switched. Writes compare the whole value they started from (`WriteStateIf`).

### Pacing

`reader[r]` is a chunk request of a download inside `ListeningClient._call` with
the gate it has seen and what it has already waited; `gate` is the shared
deadline, `backoff` the `DownloadBackoff` of the account, `cooling` its
`cooldown_until`. `latest` is the longest announced wait, kept by the model to
state the property.

### DestinationWatch

`asker` are the callers of `_probe_destination_once`, merged by its lock; `probe`
is what the last one found and when the next may start. The policy is OpenList's
(`probe_cooldown`); others probe without the pause. `win` is one `AdaptiveWindow`
with its trial, moved by every turn of `_resource_loop`; of the window only the
range is checked.

### FaultNotices

One incident of `notifications.tick`: the attempt is persisted before the message
goes out, `delivered` after it is confirmed, with crashes and unconfirmed
deliveries between. `phone` is what the administrator has really received.

### Dialogue

`feed`, `offer`, `template` are the tables; `screen` is what each chat message
shows and which of its buttons still hold a token; `draft` and `asked` the
editor's draft and the text it waits for; `handler` a callback between its awaits.
A press takes its token, acts up to the first await, and continues in a slot of
its own while others are pressed (`Continues`), where the code compares revisions
again before it writes. A configuration is reduced to its directory layout (which
decides whether a folder has to exist) and the rest.

In the model, and not excluded by the property: a batch confirmation takes the
plans and revisions of the moment it is pressed, not those displayed when the
batch page was opened; the editor's save takes the draft away when it begins to
wait for the folder; a text that answers a plan is forgotten only after awaits.

### TaskConsole

`job` is a task row (`at` is `updated_at`, `gen` the recoveries recorded), an
attempt of the pipeline is one state here. `offered`, `asking` and `planned` are
the confirmations the Bot holds, `cards` the messages with a button on them.
`repair` is `retry_confirmed` working through a page of listener failures, `sweep`
a scan or removal of orphans between its awaits. A temporary object no row names
at the start stands for one that an earlier look-up missed. A restart between a
question and its confirmation is not modelled; the confirmations are in memory
and are simply gone after it.

### FamilyControl

A terminal shows a page, asks for a confirmation, and sends a request into the
Bot's container under the edition's lock. When it stops waiting (`StopsWaiting`)
the request stays and may be carried out later (`CarriesOut`) or be lost.
Removing a member leaves his quota row, which a later grant finds again.

| property of the Bot's parts | what it says |
| --- | --- |
| `WithinBudgets` | the disk is not promised twice, and a member's slots and daily bytes hold over all phases of a transfer |
| `WindowShared` | an upload or a stream starts only where uploads and streams together leave room |
| `LostIsTrue` | the account is reported as revoked only while its session is |
| `SessionExclusive` | while the terminal logs in, the Bot holds no client on the session file |
| `PausesKept` | no chunk request and no probe starts before the announced pause is over |
| `NoticesInOrder` | a recovery is announced only after an alert that arrived, once; alerts are a cooldown apart |
| `ShownIsDone` | a card, draft, plan or confirmation acts only on what its reader saw |
| `EnabledIsReady` | a source is enabled only when the folder it files into was made |
| `GrantsAsShown` | a request changes grants, a quota or settings only from the values displayed |
| `CleaningSpares` | a clean-up removes no object a row names or a recovery retained |

### AtomicChange and SiteEntry

`SiteEntry` is `ExternalEntry.transaction` with the journal of `SiteTransaction`
and `proxy recover`: `entry` is the committed record, `context` the revision in
`external-context.json`, `disk` and `served` the files and what Nginx has read,
`journal` the file that survives a kill. A change is journalled, published file by
file, reloaded, possibly published a second time when the certificate is there,
verified, committed. `Abort` and a failure send it to the roll-back; `Kill` leaves
the journal to `Recover`; `EditSite` is the owner of the directory.

The owner takes no lock, so a comparison and the write that rests on it are two
steps. `PublishCompares` and `RollbackCompares` read a file and decide
(`tool.seen`); `Publish` and `Rollback` are `os.replace` or `unlink`, after a
temporary file was made, written and flushed (`external_transaction.py:25-49`). The
owner may edit in between, and a kill or an error may come in between. The second
publication compares all its files in `Obtain` and writes them afterwards in `Final`.
`InHand` are the files compared and not yet written. An edit that falls into this
gap is overwritten, in the model as in the code; `EditsSurvive` says that no other
edit is. The module's docstring calls the procedure "Compare-and-swap"
(`external_transaction.py:1`) and `src/docs/DOCKER-NGINX.md:98` promises that
a concurrently modified site is not overwritten: both hold up to that gap.

`AtomicChange` knows only the committed contents, the files and whether a change
is in progress. `Promise` instantiates it with `busy <- journal # NoJournal`;
`KeepsPromise` says that `SiteEntry` implements it: no commit without all files,
no end with half of them.

### SharedProxy

The deployment scripts (`DomainProxyManager`), Compose deployments
(`ComposeProxyManager`) and the add-on (`apply_shared_state_locked`) change one
configuration under one lock. A configuration is the set of routes it contains.
The states of `op` are the steps of the three managers in their order: bootstrap
page, certificate, target configuration, verification, record, registry, fence, and the
way back. `calm` marks that no operation was cut off since the last that ended.

### WebdavAccess

`record` is `config.json`, `auth` the accounts in the auth file, `route` the
edition's entry in the shared configuration, `job[t]` the operation a tool has
under way with the record it saw. `configure` and the family accounts drop the
locks while the operator works in the backend ("manual", "relock"). `tidy` is no
state of the code: it is FALSE once a tool was cut off, or kept from withdrawing
an account it had opened, and a record may then disagree with the auth file until
the next repair. `LeftOpen` are the members such a tool leaves behind.

### InstanceUpgrade

The upgrade script and its roll-back (`src/packaging/hooks/openlist`) and the
snapshot of `deployment/backup.py`, over the program files, the image tag, both
containers and the database. Steps fail, the tool is killed, people start and stop
containers. Not excluded by `EndsWhole`, which speaks of operations that reported
their end: a kill after the files were copied leaves a mixture that the next
start calls "current"; a kill inside the roll-back followed by `manage.sh start`
can run the old program on the new database; the roll-back brings the old
database back and with it drops what the new Bot had accepted. That a restored edition has both
services running rests on the OpenList script, whose roll-back starts the gateway
(`GatewayBack`); CloudDrive2's (`src/packaging/hooks/clouddrive2/remote_install.sh:58-94`)
starts the Bot only, since its upgrade leaves the gateway alone.

### HostRemoval

`inst` is what an edition has on the host, `mgr` the management command and its
bundles, `shared` the shared proxy, `held` the locks. Plans are made and shown
without a lock, then the locks are taken and the plan is compared with a new one.
A tool killed while it publishes a bundle leaves a candidate directory (`litter`)
after which every installation is refused; one killed while it deletes a bundle
leaves it `torn`.

| property of the host's tools | what it says |
| --- | --- |
| `KeepsPromise` | refinement: a site change is all or nothing |
| `Settled` | without a journal, disk and Nginx hold the committed files |
| `EditsSurvive` | an edit of the owner is lost only if it falls between the comparison of a file and its replacement; the tool never decides to write over one |
| `Resolved` | a journal left behind is cleared, unless an edit stands against it |
| `RoutesServed` | Nginx serves the recorded routes after every operation that ended, and the other editions' during one |
| `NoReopen` | a failed change of a WebDAV route leaves it closed |
| `RecordTellsWhoEnters` | an entry or member recorded as closed or in need of repair lets nobody in; unless an operation was cut off or kept from clearing up, who enters is recorded as enabled |
| `NoneInherited` | nobody completes an account while another one is open and its record waits (violated, see below) |
| `OvertakenWritesNothing` | a tool whose record was changed meanwhile writes nothing |
| `EndsWhole` | an upgrade that reports its end, done or taken back, leaves one version |
| `QuietArchive` | a snapshot is of services at rest, unless somebody acted during it |
| `ServicesAsFound` | a snapshot puts every container back as it was |
| `UsedIsKept` | a removal spares the proxy and the command while another edition uses them |

### MCService and MCDeploy

The eight machines of the Bot and the five of the host share no variable at the
level they are modelled at. A run that interleaved them would multiply their
states and show nothing; a run for each would repeat the same set-up. A behaviour
of `MCService` or `MCDeploy` therefore chooses one machine (`machine`) and follows
it through its whole state space, with the others at rest. What does couple them
is inside one module: the pipeline with its commands, the rounds with the quotas,
the loop with the terminal login.

## 3. Runs

In the pipeline runs `MaxRetries = 2`, `MaxRecoveries = 1`: two attempts give a first, a
last and an exhausted one; one recovery gives an old and a new staging name, and
a second one repeats the situation.

| run | instance | shows |
| --- | --- | --- |
| `PipelineStorm` | 1 task, every event but /cancel, notifications yield | receipts, completion and retained objects survive crash, stop, low disk, two failures, loss, drift and a command |
| `PipelineCancel` | 1 listener task, every event but low disk and drift, fair scheduling | cancellation, recovery and held rows; every step is one of `Delivery`; liveness; the lock is always released |
| `PipelineNames` | 2 tasks, one streamed, OpenList, a stranger may own the name | the race for a name |
| `InboxStorm` | 2 messages, 3 ticks, any 2 events, fair | decisions, cursor and plans survive crashes, failures and the administrator; liveness |
| `Service` | eight machines of the Bot | each over its whole state space (863,756 states together) |
| `Deploy` | five machines of the host | the same, with a kill or failure between any two steps (1,162,863 states) |
| `PipelineDouble` | 1 task, one /cancel, notifications yield | violation, see below |
| `PipelineHeld` | 1 task, one failure, one stop, notifications yield | violation |
| `PipelineDisk` | 1 task, one low-disk event, fair scheduling | violation |
| `PipelineStuck` | 1 task, one refused download, one crash | violation |
| `WebdavRename` | 2 tools, two names for the main account | violation |
| `WebdavInherit` | 2 tools, two family accounts | violation |

`NotifyYields`: awaiting a Telegram message lets other coroutines run. In the
code it always does; FALSE drops that one kind of interleaving. `PipelineStorm`
checks its properties with TRUE. `PipelineCancel` and `PipelineNames` use
FALSE, because the races reported below live exactly in
the notifications; they show that there is no further one. `Limit` leaves
/cancel out of `PipelineStorm` and low disk out of `PipelineCancel` for the
same reason. `SourceErrors`, the kinds a failing download may be classified as, is
`transient` alone in these runs: with `refused` the row of finding 6 is left behind.

Why the instances suffice: names are the only thing tasks share besides the
lock, so two tasks meet in every way that matters; with one task every
property about one row is checked against deeper event budgets. Drift happens to
rows in `cleanup_pending` only: at any later time it would refute
`CompletedIsStored` and `DeliversAsPromised` without any step of the code. A lost file is not taken away
while rclone reads it, which rclone would report as a plain failure. Deadlock is
not checked: a finished task and an exhausted budget leave nothing to do.

Inbox bounds: two messages give one inside and one behind the page or the queue
limit of one; `Lookback = 1` and `Retention = 2` keep the order of six hours and
seven days, and three ticks let a pending plan run out. `EventLimit = 3` is not
reached; the same exit of the poll is taken at the queue limit. A history preview
lists at most five candidates, more than there are messages. `Limit` allows one
event of each kind and two edits; `Budget` bounds their sum, to two because the
run also checks liveness over the whole graph. The four safety properties are proved
for any number of events (section 4). `InboxStorm` states no type invariant: `Shape` in
`InboxProofs` is one, and proved. Of the caps only the queue limit binds in the run:
with two messages there is none left that `EventLimit` or `PendingLimit` could stop.

Bounds of `Service`. Admission: three tasks, one of size 2, on a disk of 4 with a
safety line of 1, two downloads and one upload, so that the disk, each window and
the daily, queued and active limits are reached in turn; `LocalBudget` equals the
capacity, so that the disk and its safety line stop a download before the budget does.
Account: three clients
and seven commands let a client be replaced twice and a late answer of the first
meet the second login. Pacing: two readers, a short and a long wait, a clock that
outlasts both. Dialogue: one source, two plans on it, two messages, two handlers
at once, three inputs. Console: one task, four presses, enough for an offer, an
older offer's button and a clean-up around it. Family: one member and two
terminals, two requests, so that one overtakes the other. Watch: two callers,
pauses of 2, 3 and 1 to 3 in place of 300 and 60 to 900 seconds, in the same order.

Bounds of `Deploy`. Two sites, two contents, three transactions, one foreign edit, at
any point of them and in the gap of a comparison too, and two faults (the second one
hits the recovery of the first). Two editions and
two domains, one fault and one lost certificate. Two WebDAV tools, one main and
two family accounts, three revisions and one cut; a second family account, because
only another user's operation can inherit what a first one left open. Two editions and two removal tools, one kill.
`FirstRun = FALSE`: see the limitation under the disagreements.

**Fairness of the inbox.** Weak fairness for the poll's steps, for closing and
connecting, and for the transfer of each queued task: the loop runs every five
seconds, a poll is under a timeout, and a task leaves the queue
(`Settles` of the pipeline). Nothing is assumed of the administrator, the clock
or the server.

**Fairness of the pipeline** (`FairSpec`). Weak fairness for every step of a
coroutine or of a cancellation and for the scheduler's starts: the event loop runs
what is ready, rclone and Telegram calls end (they have timeouts), the scheduler
looks at all rows each second and lets a task through eventually. Strong fairness
for taking `_finalize_lock`: asyncio locks serve waiters in order. Nothing is
assumed of failures, users or low disk.

**Fairness of the site** (`SiteFair`, in `MCDeploy` while the site is followed).
Weak fairness for `ToolStep`: a tool that is not killed goes on to its end, and an
operator who finds a journal runs `proxy recover`, as the error message tells
them. Kills, failures and edits are not assumed to stop except through their
bounds.

### Disagreements found

1. `PipelineDouble` (`transfer/actions.py:164`). The download coroutine of a
   task still sends its notice while its upload has begun; /cancel cancels the
   first it finds. The upload runs on, and after the remote objects were purged
   removes the local copy and reports completed.
2. `PipelineHeld` (`transfer/upload.py:321`). A stop while the notice of a held
   failure is being sent moves the held row back to `waiting_upload`; the next
   start uploads it although the documentation asks for a confirmed /recover.
3. `PipelineDisk` (`transfer/scheduler.py:45`). A download cancelled before its
   first step stays `reserved`; only a restart takes it up again.
4. `WebdavRename` (`addons/external_webdav/service.py:296`). `configure` with
   another user name saves the pending record, which names the new account only,
   and revokes the old account after that, both outside its `try`. When the
   revocation fails or the tool is killed in between, the old account can still
   log in and no record names it; every later operation, `disable` included, is
   refused by `preflight` because the registry and the record disagree.
5. `WebdavInherit` (`addons/external_webdav/users.py:149`). An account is put in
   the auth file and verified, then the save of its completed record fails. That
   save lies outside the inner `try`, so the locks are released with the account
   open and its record `pending`. When a second user's operation takes them next,
   it advances the revision, and the first one's outer handler, which compares
   it, withdraws nothing. The comment at lines 139-140 means to exclude this.
6. `PipelineStuck` (`transfer/download.py:143`). A failed attempt writes its
   `failure_kind` into a row that stays in `downloading` for the next attempt, and the
   next attempt does not clear it. If the process ends before the task leaves
   `downloading` and the kind was `authentication`, `permission`, `rate_limited` or
   a conflict, `recover` (`persistence/sqlite.py:860-863`) takes the row for one that
   waits for the user and leaves it alone. No coroutine works on it, the scheduler does
   not look at `downloading`, and /retry refuses it because it has not failed; only
   /cancel ends it.

One limitation is kept out of the runs by a constant. `FirstRun = TRUE` lets the
first transaction ever be killed between its journal (`external_entry.py:466`) and
`external-context.json` (`external_entry.py:472`). `proxy recover` then parses a
context that is not there (`cli/proxy.py:211`) and fails, and
`external_entry.py:69-70` refuses every other operation, so that `Resolved` does
not hold; the documentation (`src/docs/DOCKER-NGINX.md:92,95`) names
`proxy recover` as the way out. `Deploy` runs with `FirstRun = FALSE`.

## 4. Proofs

TLAPS proves the following for every value of the constants, that is for any
tasks, messages, sites, members, clients, limits and budgets. The only
assumptions are the named ones in the modules (`PipelineAssumption`,
`InboxAssumption`, ...) and, where the table says so, `Undisturbed` and what is named beside it: sizes are naturals, special values lie outside the sets,
and what the code's settings guarantee (a retention longer than the look-back); tasks
are finitely many, and the safety line fits the disk.
TLC evaluates each of them.

| module | theorem | says |
| --- | --- | --- |
| `TransferProofs` | `TypeCorrect` | `Spec => []TypeOK`; no attempt counter passes `MaxRetries` |
| | `RemovalIsRecorded` | `Spec => RemovalNeedsReceipt` |
| `RoleProofs` | `ReviewIsHeld` | `HeldUntilRecover`, if `Undisturbed` and `Unstopped` |
| `StoreProofs` | `ClaimsAreUnique` | `UniqueClaim`, if `Undisturbed` |
| | `RetainedIsLeft`, `ForeignIsLeft` | `RetainedNeverTouched` and `NoForeignOverwrite`, if `Undisturbed` |
| | `ReceivedIsStored`, `CancelledLeavesNothing` | `CompletedIsStored` and `CancelledIsClean`, if `Undisturbed` |
| | `ReceiptComesFirst` | `ReceiptBeforeRemoval`, if `Undisturbed` |
| | `PromiseIsKept` | the pipeline implements `Delivery` (`DeliversAsPromised`), if `Undisturbed` |
| | `InFlightIsAttended` | `InFlightHasWorker`, if `Undisturbed`, `Unstopped`, `Steady` and `Plainly` |
| `InboxProofs` | `NothingJumped`, `DecisionsInForce`, `NothingReprocessed`, `DeletedHasNone` | all four safety properties of `InboxStorm` |
| `SiteProofs` | `SiteTypes`, `SiteSettled`, `SiteEditsSurvive` | the safety properties of the site machine |
| | `SiteKeepsPromise` | `SiteEntry` implements `AtomicChange` |
| | `UpgradeEndsWhole`, `ArchivesAreQuiet`, `ServicesComeBack` | the three properties of `InstanceUpgrade` |
| `DialogueProofs` | `CardsActAsShown`, `SourcesAreReady` | `ActsOnWhatWasShown` and `EnabledIsReady` of the cards |
| | `RestartsAreShown`, `CleaningIsSafe` | `ConfirmedAsShown` and `CleaningSpares` of the console |
| `ServiceProofs` | `NoticesOrdered` | `NoticeSpec => NoticesInOrder` |
| | `ServiceKeepsPauses` | `ServiceSpec => PausesKept`, from `PacingHonoursWaits` and `WatchSpares` |
| | `ServiceActsAsShown` | `ServiceSpec => ShownIsDone`, from the two theorems of `DialogueProofs` |
| | `BudgetsKept`, `WindowsShared` | `WithinBudgets` and `WindowShared` of admission |
| | `AccountSession`, `AccountLostIsTrue` | `SessionExclusive` and `LostIsTrue` of the listener account |
| | `FamilyGrantsAsShown` | `FamilySpec => GrantsAsShown` |
| | `ServiceTypes` | `ServiceSpec => ServiceTypeOK`, the types of all eight machines in the composition |
| `HostProofs` | `ProxyServed`, `ProxyNoReopen` | `RoutesServed` and `NoReopen` |
| | `EnterersKnown`, `OvertakenQuiet` | `RecordTellsWhoEnters` and `OvertakenWritesNothing` |
| | `UsedKept` | `UsedIsKept` |
| | `DeployTypes` | `DeploySpec => DeployTypeOK`, the types of all five tools in the composition |

Each module states an invariant, proves that the initial states satisfy it and
that every step keeps it (a lemma per action or per group of actions that change
the same), and derives the properties from it.

**TransferProofs.** `TypeOK` is not inductive: a step that counts an attempt writes
`try + 1`, so `TryBound` adds that inside the attempt loop the attempt is below
the limit (what is entered from the re-check of an accepted object counts none
and carries `outside`). Removal needs three more facts: `OneAtATime`, only one
coroutine is inside a stretch without an await, so none can change a row between
another's receipt and unlink; `ReceiptHeld`, at label `receipt` the row is
`cleanup_pending` and verified; `Withdrawing`, while a cancellation works its
mark is in the row, so a file removed by it is excused. A coroutine's action is
shown to be a `WorkerStep` (it changes the row, label and variables of its own
worker in a typed way and removes the file only at `receipt`), and `NextInv`
combines them.

**RoleProofs and StoreProofs** share one hypothesis, `Undisturbed`: if notices
yield, there is neither a /cancel nor a disk emergency
(`NotifyYields => Limit["cancel"] = 0 /\ Limit["disk"] = 0`). `PipelineCancel`,
`PipelineNames` and `PipelineHeld` satisfy it; finding 1 is what it excludes. A
coroutine that has only a notice left to send is still in the table of running tasks,
and what cancels it there believes that it has stopped the work of the task, while
the other coroutine may be at it: the table no longer agrees with the row.
`ReviewIsHeld` also excludes a service stop in that place (`Unstopped`), which is
finding 2. Everything else is unrestricted: any tasks, both backends, notices that
yield, any number of crashes, failures with or without effect, lost and changed
files and commands, and, where notices do not yield, cancellations and disk
emergencies as well. `NoticesYield`, kept beside the invariant, says that no coroutine is
ever at a notice unless notices yield; `NoNotice` draws from the two that what is
cancelled has work left.

`Roles` is that agreement. For each task it says which half of the code its
two coroutines may run while the row is in a given state (`Coroutines`, `Downloading`,
`Streaming`, `Uploading`), that a /cancel has ended the coroutine it found (`Cancelled`)
and what the row knows of the local copy (`FitsCopy`). No property says so much, and
none can be proved without it: a write of the database checks only that the
edge is legal, so that a step is harmless must come from the state of the row it finds.
An upload may wait at its start for a row that is in any of six states, which is why
`StartUpload` re-reads it. One lemma per step (`...Done`) says what the step leaves
in row, label and local values; the invariant is then shown from these alone.

`NameInv` needs `Roles` and speaks of names: `Listed`, which names a row may record,
given its state and its /cancel; `OwnStaging`, a staging name belongs to a task and
to a number that only /recover raises; `Holds`, what the holder of the finalize lock
has found out about the name it is about to record. `UniqueClaim` is part of it and not
inductive alone: two tasks are kept apart by what the second one looks up under
the lock, and an object under a recorded final name is the task's own or nobody's
(`Owned`) because the name was free when it was recorded. `NamesMove` says what any step can
do to the store: remove or write under a name on the record of the task that acts.
Both action properties follow from it.

`KeptInv` needs both and speaks of contents. `OnRecord` is the converse of `Listed`: what a
task has stored lies under a recorded or a retained name, so that /cancel, which only
removes what is recorded, leaves nothing. `Purged` follows a /cancel that works through
its list; `Knows` says what a coroutine relies on after an await, that the object it
is about to report is whole and its own, or that the names it goes on to write are free.

`FlightInv` is what `InFlightHasWorker` needs: nobody may leave a row behind in a state that
only a coroutine can end. `Attended` says that a row in flight which is not being cancelled
has a coroutine past its start and before its notice; `Clear`, that a row which the next
process must take up carries no kind for which `recover` would leave it alone. A
coroutine that ends must therefore have moved its row on, and a write that the table of
legal edges refuses ends it where it stands. So the proof has to show that every failure
finds an edge: `Written` and `Stands` say that what a coroutine has renamed or verified is
there, so that it cannot be found missing in a state that has no failed edge, `Streams` the same of
a refused stream, and `Aboard` that a staging object exists while its final name is
chosen. Each hypothesis excludes one finding: `Undisturbed` the first, `Unstopped` the
second, `Steady` (no disk emergency) the third and `Plainly` (no download fails with a
kind in `Barring`) the sixth. That one was not known before: the proof that a crash keeps
`Attended` failed for a row in `downloading` which carries the kind of an
earlier attempt, and the state it asked for is reachable. `PipelineCancel` and
`PipelineNames` satisfy all four.

`PromiseIsKept` is the refinement. Initial states map to initial states
(`InitPromise`). For a step, `Deals` says in terms of rows, files and objects what may
happen to one task: how its row may turn (`Turns`), when it may be marked (`Asks`) and
what becomes of its copies (`Copies`). `DealIsStep` shows once that this is a step of
`Delivery`, from what the invariants say before and after (`Fits`); then each group of actions
is shown to deal with its own task in this way and to leave the others as they are
(`LocalDeals`, `RemoteDeals`, `CleaningDeals`, `UploadDeals`, `CancelStepDeals`, `RetryDeals`,
...), or, for a restart and an emergency, with all tasks at once (`RestartedDeals`). Two of them
carry the weight. A receipt finds the object whole (`ReceiptStored`) because of `Knows`. A call cut off by a
crash or a cancellation may still take effect, but never under a path that a row records
which is marked or done with (`LandedStays`), so a withdrawal does not deliver. One fact is needed beside the
earlier invariants: `Unmarked`, a row that is done with bears no cancellation mark. It
is inductive with `Deals`.

**InboxProofs.** That a cursor jumps nothing cannot be seen from the step that
moves it: it depends on which messages were read into the page and on what
happened to the records since. `Covered` says that, as long as the revision is
the poll's, whatever lies between the cursor and a message of the page is in the
page, decided or too old. `AtLabel` says what the poll knows of the page's first
message at each label. `Ledger` relates event, plan and age: a plan that waits has
a decision and a source that is not deleted, and a plan whose decision was
forgotten belongs to a message outside the window; this is where
`Retention > Lookback` is used, and why nothing is offered twice. `Offered` says
the like of a history preview. `Revisions` makes sure that an edit leaves polls and previews
behind. Every action is shown to be `Good`: it keeps the invariant and does what
the three action properties allow.

**SiteProofs.** `Recorded` holds while a journal exists or a tool works: each
file, on disk and in Nginx, is one of the contents the journal names or an edit,
and the comparison of the record's revision with the context tells which contents
are committed. `Calm` holds otherwise. `Position` says for every step of the tool which
files it has written and which Nginx has read; it is what the commit needs. The
refinement maps `busy` to the presence of the journal: a transaction maps to a
start, an arbitrary number of changes, and an end with everything or nothing; a
comparison is a stuttering step, and `Listed` (what was compared is still to do) tells
that whoever writes has a journal. `SiteEditsSurvive` has two halves: only a file that
was compared is written (`WritersCompared`), and no comparison lets an edit pass
(`EditsAreSeen`), because neither the old contents nor any content the journal
notes is an edit (`JournalShape`).

`InstanceInv`, in the same module, ties the upgrade, the roll-back and the snapshot to
their steps. `UpgradePosition` and `SnapshotPosition` say what each step has
established as long as nobody else has acted (`Alone`): which files and which tag are
there, which containers rest and which of them are still to be started. `BotFits` is the
part that is easily missed: a snapshot starts the Bot it stopped, and that Bot would
stop again on a database newer than its program. It was running before, so the
database fits it; and that stays so because the copy a roll-back puts back is
never newer than the database it replaces.

**DialogueProofs**, the console. `Owned` and `Numbered`: an object on the server
bears the number of one task and of one of its attempts so far, so a later
attempt cannot be given an old object's name. `Abandoned`: what a clean-up is
about to remove belonged to a task that has ended, or has begun a later attempt
since; this is what makes removing it after an await safe, and it needs that a
task which ended begins again only under a new number. `Confirmable`: a token is
on one message only, and the message shows the row that the offer has kept for
that token; so a press whose token is still the offer's confirms what was read.
`HandlersSound` is what the console's types need besides: a task runs only while
its row says so, which a repair relies on when it requeues a failed row without
looking whether an attempt runs; this is inductive only with the fact that a
cancellation removes what is left after the attempt has ended.

**DialogueProofs**, the cards. Nothing locks a source while a handler waits; what
the code has is the revision on each card. `DialogueInv` says what makes that
enough: whatever a page, a draft or a waiting handler says of a source, a plan,
the templates or the draft is still so *if the version it carries is the present
one* (`SourceTrue`, `OfferTrue`, `TemplateTrue`, `DraftTrue`, `HandlerTrue`).
Steps move versions upwards and change contents only together with them
(`FeedMoves`, `OfferMoves`, `TemplateMoves`, `DraftMoves`), so whatever is not
rewritten by a step stays true (`PageStays`, `HandlerStays`), and each action's
lemma only looks at the page it draws. An action that writes has compared the
version, hence writes over what was shown. `EnabledIsReady` needs one
fact of the late write: a handler that is to enable the source and has passed its folder
step (`HandlerTrue`, label `newest`) has made the folder of this very revision.

**ServiceProofs.** Fault notices: `Told`, a delivery on record, or about to be
recorded, was the last thing to arrive; `Spaced`, no alert arrived after the last
attempt on record. Flood waits: `Guarded`, while the longest announced wait
lasts, the shared gate and the account's cooldown lie beyond it. Probes:
`WatchInv`, one caller probes at a time and the recorded time of the next probe
is the end of the pause the last answer asked for. Its doubled pauses are
numbers for every bound only because `WatchAssumption` asks for `MaxStrikes` of at
least 1, as in the code.

Admission: a sum over tasks is defined as the number of its bytes (`Units`: a pair
of task and number for each byte), so that the library's facts on finite sets
replace an induction over the tasks: `TotalGrows`, `TotalAdds`, `TotalJoins`. What
is invariant is not what `reserve` compares. It adds the free disk to what growing
downloads have not *reported*; `Claim` counts what is on disk and, for a local
download under way, its whole size, and `Admitted` bounds the sum of that. The two
meet at a reservation (`DiskTaken`) because no growing row reports more than is on disk
(`RowSound`). The rest of `Admitted` counts local files, charged tasks and slots
(`SlotTasks`: a task between reservation and end of its download or stream,
and the uploads' slots) the way a state change leaves them: `SetsKept` shows once
that a write which is `Settable` takes nothing, so only submission and requeue
(`AdmittedKept`), `Sends` and `Reserves` remain. For the window, `RoundSound` says
that what the upload round has left of its room still fits beside the uploads and
running streams: streams start in the other round only, and a row that becomes a
stream by /stream is queued. It assumes that `MinFree` is not above the
capacity and that nothing else fills the disk.

The account: `LockInv` follows the lock of the session file through the loop
that connects, the client, the disconnect that gives it back and the terminal.
`TruthInv` says that a number is given to one client only and that a refusal seen
for the current client is true, since nobody can have logged in while it held the
lock. The family: a revision is given once (`Fresh`), so a request whose revision
still matches was made from what its terminal displayed (`Current`, `Shown`).

At last `MCService`: a step of the composition is a step or a stutter of each
machine (`ServiceRefines`), so it has the properties of all. `ServiceTypes` needs a
few invariants of its own. Pacing: the cap, halved by a wait and raised by one at a
time, stays within the window's largest, and no request sleeps more often or longer
than `_call` tolerates (`LimitedType`, `AfterAllowedType`, `TurnTypes`). Watch:
`WindowSound`, the window stays within the ceiling although a growth may pass it
before it is cut off (`WideRow`), and a growth on trial is put back to a window that
was there, at least 1. Admission: `SchedulerSound`, the room of a round is never more
than the windows. Bounds that exist for TLC only (`MaxInputs`, `MaxPresses`) are not
part of the types.

**HostProofs.** Three machines, each with an invariant of its own.

- `RemovalInv`: `HoldsLocks` gives the locks of every step, so that a plan
  compared under them cannot become untrue; `DropsLast` says that a removal which
  drops the proxy forgets every route there is before it does; `CommandFirst`
  that the command is there from before the first edition is touched until after
  the last; `OneEdition` that an installation works on one edition.
- `AccessInv`: `Keeps` says of every tool what it may rely on at its step: that it
  holds the locks (`Locked`), that the record under them is its own (`Works`),
  that a revision was given to it alone (`Stamped`), and what it has opened or
  closed so far (`Writing`). `Shut` and `Told` say what is left when nobody has
  them. A first attempt failed for a good reason: the step that completes an
  account could not be shown to leave nobody else open. Looking for the state in
  which it does not gave finding 5; the model now follows the handlers of `users.py` there
  (`tidy`, `LeftOpen`), and the invariant speaks of what is left.
- `ProxyInv`: `Aimed`, an operation's target differs from the record in its own
  edition's route; `Installed`, files are there before Nginx is told and before anything
  is recorded; `Rested` between
  operations; `Spared`, the other editions' routes stay; `Reached` ties all this
  to the step, on the way back too, where a WebDAV route is closed already. `ProxyAssumption` asks for at
  least one edition, which the code's list of products has.

`DeployTypes` puts the five tools together: a step of `MCDeploy` is a step or a
stutter of each, so the type of every variable follows from the invariants above
and those of `SiteProofs`.

Checked by TLC only, and why:

- `Settles`, `EventuallyCaughtUp`, `Resolved`: liveness under fairness is out of
  TLAPS's reach.
- The properties of `RoleProofs` and `StoreProofs` without `Undisturbed`:
  `PipelineStorm` checks three of them with notices that yield and a disk emergency, but
  no cancellation. `UniqueClaim` does not hold there: with a file lost by hand too,
  two coroutines of one task can both be in the remote half.
- `RegisteredOnly`, `NoneInherited`: violated, findings 4 and 5.

## 5. Not modelled

In the pipeline: a changed base directory (`check_scope`), authorisation, failing
local disk operations other than rename and unlink, remote effects that become
visible long after their error, legacy rows of older database versions. Wording,
progress figures and logging are left out.

In the inbox: several sources in one round (each is polled under its own timeout
and state), albums and captions, the texts of rules and templates, source
directories, Telegram cooldowns, retries of failed tasks. The mark `gap` is
kept but no property is stated of it: whether a message that waits behind a full
queue for longer than `LOOKBACK` is still offered (`listening/service.py:694`)
depends on what Telethon makes of `min_id` with `offset_date`, and on the server.

Whole parts: health, readiness, progress and diagnostic views; generation of
compose files; prompts and dispatch of the command line; the pure functions on
names, texts and directories; read-only pages; archive formats and the rehearsal
of a restore; certificate renewal; the LAN entries' own roll-back and port
checks; schema migrations; release downloads. They have no state of their own, or
are sequences of host commands without anything running beside them.

Behaviour that was met while reading and that no property speaks of. Some of it
is in the models, as the sections above say, and the rest is here so that nobody
takes silence for a guarantee:

- A tool killed while it installs leaves `.candidate-*` behind, and
  `runtime.check_destination` refuses later installations; one killed inside
  `runtime.remove` leaves half a bundle.
- `DownloadBackoff.limited` with a window of 0 brings its cap down to 1.
- `editor.save` takes the draft out before it awaits `prepare_directory`, and
  `planning.text` forgets the interaction after its awaits; a second input in
  between finds the first one's state.
- Confirming a batch takes the plans and revisions of that moment.
- The editor's pages for types and lists fail on a rule without a condition group
  after the version was raised, and its `source-confirm` branch is unreachable.
- The confirmation of /cancel (`telegram/commands.py`, about line 262) carries no
  revision of the task; `cancel_requested` is cleared after an awaited reply
  (`transfer/actions.py:185-193`).
- A second cancellation inside rclone's `_run` leaves the process running.
- `Listener.connect` publishes `self.client` before `connected_identity` has
  verified it (`listening/service.py`, about line 391).
- Removing a member keeps the row in `member_quotas`.
- A restart between a question of the Bot and its confirmation (`TaskConsole`).

## 6. What could follow

1. Corrections for findings 1 to 3 and 6 would allow `PipelineStorm` with /cancel and low disk
   together, and `RoleProofs` and `StoreProofs` without hypotheses.
2. Several sources in one round, with the account-wide caps between them.
3. Albums: a decision about a group of messages instead of one.

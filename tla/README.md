# Formal models of Go-Python-Runner

A desktop program (Go backend, Wails frontend) that runs Python scripts. Each run
is a Python process that connects back to the program over a bidirectional gRPC
stream; goroutines of the backend watch the process, read the stream, forward its
messages to the frontend and record how the run ended. The models cover the part
of the program where these actors meet.

Line numbers for every definition are in `PROJECT.json` under `map`. Definitions
introduced by a comment that begins with *Mutation:* are not part of a
specification: each is a plausible bug of the code, and the property it is listed
with in `PROJECT.json` under `mutants` must catch it.

## 1. Inventory

| Component | State | Operations | Hard behaviour | What makes it correct |
|---|---|---|---|---|
| Run manager `internal/runner/manager.go` | `activeRuns`, `history`, per-run `cancelRequested`, `runs` table | `StartRun`, `waitAndSendStart`, `waitForExit`, `deriveFinalStatus`, `CancelRun`, `CancelAll`, `loadHistory` | three goroutines per run plus timers; the verdict is read from flags other goroutines write; a cancel may come at any time | one terminal status, the right one, delivered once and recorded |
| gRPC server `internal/runner/grpc_server.go` | `runs`; per run phase, flags, bounded channel, stream | `RegisterRun`, `UnregisterRun`, `Execute`, `trySend`, `TrySendStatus`, `SendStart`, `SendCancel`, `WaitConnected`, `WaitStreamDone`, cache, dialog and SQL handlers | blocking send under a lock, close of a channel in use, late streams, streams that break, a handler that waits for the user | never send on a closed channel, drop nothing that was read, always come to an end |
| Process `internal/runner/process.go` | context, `exec.Cmd`, stderr buffer | `Start`, `Wait`, `Cancel`, `Done` | kill, exit and reaping race | Done and kills are asked for; a script is not stalled by its output; what `Wait` returns is final |
| Cache registry `internal/runner/cache.go` | `blocks`: key, segment, references | `Register`, `LookupAndRef`, `Release`, `CleanupRun` | several runs share blocks; processes die without cleanup | a mapped block stays; nothing is left over |
| Python library `scripts/_lib/runner.py` | iterator, response queue, cancel event, mapped segments | `connect`, `output`, `progress`, `warn`, `info`, `complete`, `fail`, `run`, cache, dialog and SQL calls, atexit cleanup | threads share one stream; responses have no id; timeouts | each request gets its answer, each call returns |
| Runner service `internal/services/runner_service.go` | `groups`, `runGroups` | `StartRun`, `StartParallelRuns`, `CancelRun`, `CancelGroup`, `forwardMessages` | workers end while their batch is still being started or cancelled | cancel and rollback reach every worker |
| Reservoir `internal/notify/notify.go` | ongoing banners | `Report`, `DismissBanner`, `ReplaceBannersByPrefix` | emission outside the lock | every report reaches a surface; the page ends with the banners of the backend |
| Registry and watcher `internal/registry` | scripts, issues, fingerprint; watch set, debounce timer | `LoadBuiltin`, `LoadPlugins`, `Reload`, watch loop | overlapping reloads; new directories are not watched yet; banners published outside the lock | the catalog ends with what is on disk, the banners with the issues |
| Environment service `internal/services/env_service.go` | `op` | `InstallPackage`, `InstallRequirements`, `UninstallPackage`, `ListPackages`, `EnvBusy` | exit races the next request; two pipes of a command that blocks when nobody reads; a pane opened meanwhile | one operation at a time, the whole log, the packages that are installed |
| Ring buffer and logger `internal/logging` | ring of entries, callback | `Push`, `Entries` | wrap-around; the callback after the lock | the last *n* entries in order |
| Frontend hooks `frontend/src/hooks` | runs, groups, scripts, notifications, environment | reducers over events, fetches | events before the call that started the run returns; fetches that cross; the hook goes with its tab | the page at rest shows what the backend has |
| Start-up, shutdown, database `main.go`, `internal/db` | the `runs` table; what outlives the program | the end of `main` and its defers, `loadHistory` | goroutines go on while main stops; crashes; failing statements | the table never contradicts an outcome; the program ends |
| Script and log services, components | - | adapters, rendering | - | - |

How they interact: the service calls the manager, which registers a channel with the
gRPC server and spawns the process; the process calls `Execute`; `Execute` writes
flags and the channel; `waitForExit` reads the flags, writes the channel and closes
it through the server; the service's forwarder reads the channel until it is closed
and asks the manager whether the run was cancelled.

The hazards found in this code, each at its line with the properties aimed at it, are
in `PROJECT.json` under `hazards`.

## 2. Modules

| Module | Models |
|---|---|
| `RunLifecycle` | one run from `StartRun` to its record: manager, gRPC server, process, library, forwarder, timers |
| `RunPromise` | what a run promises to its observers, without any of that machinery |
| `RunEvents` | what the frontend hears of the runs: the boundary between `RunLifecycle` and `RunsView` |
| `ScriptRequests` | requests of a script's threads, the reader thread, the serial handler, timeouts |
| `SharedCache` | cache API, cache handlers, `CacheManager`, shared-memory segments, cleanup |
| `SharedObjects` | what the cache promises to scripts: objects, their users and who has them mapped |
| `ParallelRuns` | `StartParallelRuns`, rollback, `CancelGroup`, the group registry |
| `ScriptCatalog` | `Registry`, `Watcher`, the load-issue banners on their way to the page, and the page's copy of the catalog |
| `RunHistory` | the `runs` table and the history through shutdown, crashes and restarts |
| `EnvService` | the environment service, the command it runs, and `useEnv` |
| `Reservoir` | the notification channel and the banners on the page |
| `RunsView` | `useScripts`: runs and groups made of events and responses |
| `LogRing`, `BoundedLog` | the ring buffer, its stream and its viewer; the log it implements |
| `Process` | one script process and the capture of its stderr |
| `RunLifecycle_proofs` | theorems about `RunLifecycle`, and that it implements `RunPromise` and `RunEvents` |
| `ScriptRequests_proofs` | theorems about `ScriptRequests` and, as an instance, `Process` |
| `SharedCache_proofs`, `ParallelRuns_proofs`, `RunHistory_proofs`, `ScriptCatalog_proofs` | theorems about these |
| `LogRing_proofs` | that the ring implements `BoundedLog`, and that the viewer follows it |
| `Page_proofs` | theorems about what the page shows: `EnvService` and, as instances, `Reservoir` and `RunsView` |
| `MC*` | the modules TLC is run on where a run needs a definition of its own: symmetry sets, batch sizes |

### RunLifecycle

Every goroutine has a program counter (`starter`, `sender`, `waiter`, `canceller`,
`exec`, `fwd`, and `py` for the process); an action is the code between two points at
which another goroutine can look: a lock, a channel operation, a select, an atomic
load. So `deriveFinalStatus` is three actions, `trySend` is lock and send, and
`UnregisterRun` is the acquisition of the server mutex and, once `phaseMu` is free,
the close and delete.

Locks are predicates on the program counters: `ServerMuFree` (a writer holds
`GRPCServer.mu` across a wait only in `UnregisterRun`) and `PhaseMuFree` (held across
a wait only by a `trySend` blocked on a full channel). `Manager.mu` is never held
across a wait.

The stream is two queues. When the process is gone, what `Execute` has not read can
be lost (`WireLost`), a call that had not been accepted can be refused or still be
accepted, and a `Send` can fail before `Execute` notices. Timers fire at any moment
after they are armed. A context that is cancelled between exit and reaping makes
`cmd.Wait` return an error for exit code 0, and either outcome is allowed. The text of
messages is abstracted to a kind; output and progress are one kind, `warn()` and
`info()` another. A script does what it likes: it may send, complete, fail, raise
after `complete()`, exit with any code or hang.

`Execute` returns in two ways. The script closes its side and all of it is read (`ExecEnd`,
`exec = "done"`), or it returns early with a client that is alive (`StreamBreaks`,
`exec = "broken"`): `Recv` fails on a message above gRPC's 4 MB, or an answer cannot be
sent. The messages it has not read stay on `wire`, where nobody reads them any more.
`StreamBreaks` may happen before any message, since any may be the oversized one.

A thread of the script can ask for a file dialog (`PyAsk`, one at a time), and `Execute`
reads nothing while it is open (`exec = "dialog"`): not the status behind it, and not the
end of a process that is killed meanwhile. `DialogAnswered` has no fairness. What the
answer does to the script is in `ScriptRequests`; cache and SQL requests are answered by
`Execute` without waiting for anybody, so all a run sees of them is that the answer
cannot be sent.

`acked` is recorded for the properties only: it says that `complete()` or `fail()` saw
the end of the stream, which is the library's own confirmation, before the process
exited. A stream that broke looks the same to the script, so `NothingLost` counts what is
left on `wire` as unread, and says that there is none unless the stream broke.

### ScriptRequests

Requests carry an id that the code does not have, so that the properties can tell
whose answer was received. `SendChecked` and `Put` are separate because `_finished`
is read before the message is put. A `file_dialog` request is answered when the user
chooses; the user need not. `MaxTimeouts` bounds requests that are given up while
their answer can still come; when the stream is over a timeout is always possible.
`StreamBreaks` is that of `RunLifecycle`: `Execute` returns with the script alive, and its
threads go on until they meet the end of the stream.

### SharedCache

`Refs` is a multiplicity per run, because `Release` and `CleanupRun` remove one
occurrence. A segment is a name in `/dev/shm`; a name that is unlinked stays mapped
where it is mapped, which only matters to later lookups. `cache_get` opens the segment
when it takes the answer, so the segment can be gone by then (`KeyError`). A cancelled
`cache_set` creates and unlinks its segment in one go and is left out. A process ends
through its atexit handler (`PyExit`) or not (`PyKilled`), and its last requests may
reach `Execute` or not. After a request timed out the script makes no further cache call in
the model (`GiveUp`): from then on answers belong to earlier requests, as `ScriptRequests`
shows, so a yes says nothing about the key it is taken for.

`SharedObjects` has none of the streams and counts: a run is a user of an object or it is
not, and only a run that has the object no longer mapped ceases to be one. Under the
refinement a user is a run with a reference, and a run is over when it was cleaned up
after a drained stream.

### ParallelRuns

A run is reduced to what a group can see of `RunLifecycle`: it is active, its status
has been sent, it has left `activeRuns`, its forwarder has met the status. The order
of these is that of `waitForExit`.

### ScriptCatalog

Directories are numbered in the order in which they are scanned; what is in one is the
id of a script that loads, or `Bad`. `Reload` lists a root and then reads one directory
per step, so a directory can change, appear or go between two reads. `LoadBuiltin` and
`LoadPlugins` are one step each: only the disk could change meanwhile. `Compare` is what
happens under `Registry.mu`, `Publish` under `bannersMu`, `Emit` after both. A change in
a directory is an event only if the directory is watched, and a new one is watched when
`Run` gets to its Create event. `Fingerprint` keeps ids and sources and, like the code,
leaves the path of a script out.

Scans that are installed out of order leave the catalog behind the disk until the next
event: the code does not exclude it, and `newestLast` and `overlapped` record when it
may have happened, so that the properties say exactly what holds. A failed `fsw.Add`, an
overflow of fsnotify's queue and the end of `Run` are not modelled.

The page is the other half: `NotifyChanged` emits `scripts:changed` after `Reload` has
published, `useScripts` subscribes some time after its mount (`Listen`) and answers each
event with a `ListScripts` of its own (`Refetch`). A fetch is `Free`, `Asked`, or holds
the catalog it read. `raced` records that two fetches were on their way together, or that
an event came before the subscription.

### RunHistory

The counterpart of `RunLifecycle` for what outlives a run. A run is reduced to the steps
that touch the table, `activeRuns` or the history, its process and its stream. Its verdict
(`Judge`) comes before the record (`Record`), so a cancel accepted in between is not in it. A
stream is closed when the process ends, except while `Execute` is in a file dialog; then it
is closed when the user has answered. The number of lives of the program is bounded by `MaxLives`. The end of `main` is a program
counter: `CancelAll` makes its list under the lock (`Shutdown`) and goes through it
(`CancelNext`), the deferred `Stop` waits for every stream (`StopAndClose`), then the
store is closed. A crash (or the `os.Exit` of the panic handler) can come at any step.
What the end of the program takes with it: goroutines, timers and streams, not
processes. Every statement can fail, and so can reading the table or one of its rows at
the start; `dbFailed` records where. A `StartRun` in progress when the window is closed
goes on.

### EnvService

Calls are numbered as they are made, since nothing else tells them apart. `tryEnter` and
`exit` are two steps each, the store of `op` and the event. The command
writes lines to two pipes of `PipeSize` lines and blocks when one is full; a `Long` line
stands for one over the 1 MB of the scanner. Events are handled by the window in the
order in which they were emitted (one Wails event queue, external). The pane is mounted
while its tab is open, subscribes some time later, and its answers after an unmount
change nothing. `venv` is a version number; a list of packages carries the version it
read. `Fetch` bounds the calls of `ListPackages` at a time: with all in use the next
event waits. `MaxLines` bounds the lines of all commands together. A command may leave a child behind
that holds its pipes (`child`), and a scanner sees the end of a pipe only when that has
gone too. `useEnv` also returns `refresh`, a list on demand, which no component calls; lists
are asked for at the mount and at the end of an operation.

### Reservoir

Every operation is two steps: the change under `bannersMu` and the event after it. A
banner is the number of the operation that set it, so an older one can be told from a
newer one. `Route` is `routeWails`: severity and persistence to surface. The page
subscribes to `notify:*` once and to `run:error` while the tab with the runs is open
(`pane`). A report while `SetApp` has not been called is in `ScriptCatalog`. Toasts and
panes are not taken away again: the model records that a report was shown. No caller
reports a critical event as ongoing (`main.go:128` is an error, `registry.go:385` a warning),
so a banner is never critical.

### RunsView

The runs and groups of `useScripts`. The events of a run come in the order of `RunEvents`,
which `RunLifecycle` implements: one terminal status, and outputs before it, or after it too
when the stream was not drained; `StartWorker`, `Output` and `End` are `Start`, `Emit` and
`End` there, with outputs bounded by `MaxOutputs`. An output stands for a progress or an error
as well, whose handlers are the same; toasts and log entries do not reach `useScripts`. The
response of the call that started a run comes at any time;
`Updated` is `onRunEvent`, `Responded` the update that keeps an entry already
there, `DropGroups` the effect that follows a change. A batch of one stands for
`StartRun`. State goes when the tab is closed.

React calls an updater of `onRunEvent` twice under `StrictMode`, in development builds
only, and the updater changes the entry in place; the model is of the production build.

### LogRing

`entries`, `head` and `count` as in the code; `Push` is the part under the lock, `OnPush`
the callback after it, which `LogService.SetApp` installs. The viewer has two effects,
one fetches, one subscribes. `BoundedLog` is a log that keeps the last `Cap` entries.

### Process

Output is counted in chunks, the pipe holds `PipeCap` of them. The pipe has the script
and perhaps a child of it as writers; `cmd.Wait` closes the read end once the process is
reaped (`Reap`), and `ReadAll` then ends with what it has. `exec.CommandContext` kills
the process when the context is cancelled, not its children.

## 3. Runs

| Run | Constants | Checks |
|---|---|---|
| `lifecycle_safety` | 1 run, buffer 1, 2 messages, 1 cancel, 1 dialog at a time | eight safety invariants, deadlock |
| `lifecycle_liveness` | 1 run, buffer 1, no optional message, 1 cancel | `RunLifecycle` implements `RunPromise`; settling of an exit, cancel, connect timeout |
| `requests` | 2 threads, 2 kinds, 3 calls, each of which may time out | `AnswersMatch`, `InSync` until a first timeout, `CallsReturn`, `CancelArrives`, deadlock |
| `cache_safety` | 2 runs, 1 key, 3 calls each | four cache invariants, `SharedCache` implements `SharedObjects`, deadlock |
| `groups_safety` | a batch of 3 workers (4 asked for), one of 1 (0 asked for) | `CancelReachesAll` (rollback and cancel), `GroupStaysKnown`, deadlock |
| `catalog_safety` | 1 builtin and 2 plugin directories, 1 id, 2 issues kept, 2 Reloads at a time, 2 changes, 2 fetches | `CatalogIsCurrent`, `BannersFollowIssues`, `PageShowsCatalog`, deadlock |
| `history` | 2 runs, 2 lives | `RecordsTellTruth`, `HistoryKept`, `ShutdownEnds`, deadlock |
| `environment` | 2 operations, 2 lines in all, pipes of 1, 1 mount at any time, 2 lists at a time | `BusyFollowsService`, `LogComplete`, `PackagesCurrent`, `OperationEnds`, deadlock |
| `reservoir_safety` | 3 callers, 2 keys with the prefix and 1 other | `ReportsAreSeen`, `PageFollows` |
| `view_safety` | a batch of 2 and a single run, 1 output each, 2 mounts | `PageShowsRuns`, deadlock |
| `ring_safety` | capacity 3, 6 entries, 2 pushers | `RingIsLog`, `ViewerFollows`, deadlock |
| `process_capture` | a pipe of 2 chunks, up to 4 written | `CaptureIsFinal`, `WaitReturns`, deadlock |

Why these bounds are enough to meet the interesting cases. Runs share only
`GRPCServer.mu`, so one run has all the races of a run; what several runs can do to
each other through that mutex is covered for safety by the theorems. A buffer of 1
with two messages and a status makes every sender block in front of a full channel. The
liveness run needs no optional message for that: `fail()` sends its error by itself,
and the status follows it into the same buffer. Three
calls on two threads let a thread queue behind the other, and a late answer meet a later
request of the same or of the other thread. With three calls
a run can set, get and release, or release and set again while the other run holds the
block. Two batches share the map that
`clearRunFromGroup` scans; a rollback over two workers needs a batch of three. Three
directories allow an override, a duplicate id and more issues than are kept; with two
changes a directory can be created and filled, or moved, during two scans (a run with
three changes was made as well and agrees). Two runs let one be started while the other
is cancelled, and one of them be started in the second life; a run of the first life is
loaded, or not, by the second. Two operations race for `op`, and the second can begin
while the pane still handles the end of the first; two lines fill a pipe of one and can
be a long line and one behind it; the pane can be opened before, between and during them. Two fetches
of the catalog can cross, and cross a Reload. With three callers a list can be overtaken by a banner
and by a dismissal, and hold what the third has set. Six entries wrap a ring of three
twice. Four chunks fill a pipe of two twice.

Every run checks deadlock. The only states without a further step are the ones the
`AllReturned`, `Terminated`, `AllEnded`, `AllOver` and `Settled` actions describe: all
goroutines have returned, or nothing is left for the watcher, the page or the program to
do. In `EnvService` `Settled` also covers a command that waits for room in a pipe nobody
reads, in `Process` a `Start` that failed. In `Reservoir` the check says nothing: the tab
can always be switched.

**Fairness.** Weak fairness of each goroutine (the Go scheduler runs a goroutine that
can run; a mutex that stays free is acquired), of the timers, of the death of a killed
process, of a database answer, and in `EnvService` of the window's event loop. Nothing
is assumed of the user, who may leave a dialog open, of whoever calls `StartRun` or
`CancelRun`, of the choice between the ready branches of a select, of a stream, which need not
break, and of a process a command left behind. Nothing is assumed of scripts either, except in
`Process`, where a script writes what it has to write and then exits: the question there
is whether the backend can stop it from doing so. In `EnvService` a command that can
write does, and ends.

**Where the code and its comments differ.** The properties are about what the code does.
Where a comment or a docstring says more, the difference is an exception or a recorded
circumstance of a property, or a reachable state of a model:

| Model | What the code does | Where it shows |
|---|---|---|
| `RunLifecycle` | `warn()` is for issues "that don't invalidate the run's results" (`runner.py`), but sets `gotError` like an error: a run that completes afterwards is recorded as failed | `gotError` in `CleanCompletion` |
| `RunLifecycle` | `_finish` waits "until Go confirms receipt (stream EOF)", but the stream ends too when `Execute` returns early: messages behind an oversized one are lost and the run is recorded as failed although the script saw its confirmation and exited 0 | `exec = "broken"` in `NothingLost` and `CleanCompletion` |
| `RunLifecycle` | an `Execute` in a file dialog that nobody answers stays after its run is recorded | `"dialog"` in `ExitIsSettled` |
| `RunLifecycle` | a message forwarded after a cancelled run has left `activeRuns` opens an error pane | `WasCancelled` asks `activeRuns` |
| `RunLifecycle` | `Execute` can serve a client after `WaitStreamDone` concluded that none will come (`grpc_server.go:235`); the safety properties hold all the same | `ExecConnect` while `drain = "skipped"` |
| `RunLifecycle` | a cancel accepted after `deriveFinalStatus` has read the flag is not recorded as cancelled | `WaiterCancelled` against `CancelMark` |
| `ScriptRequests` | after a timeout the next request takes the late answer | `InSync` holds until the first timeout |
| `ScriptRequests` | a dialog gives up after 30 s like every request, although `dialog_open` says it blocks until the user chooses | `ResponseTimeout` |
| `SharedCache` | a block registered after `CleanupRun` (its run has no stream any more) stays and blocks its key; a process killed inside `cache_set` leaves a segment nobody knows | `drain[r] = "eof"` and the exception in `NothingLeaks` |
| `ParallelRuns` | a worker that ends before `registerGroup` leaves the group registered for good | `ClearRunFromGroup` before `RegisterGroup` |
| `ScriptCatalog` | a script whose directory is renamed keeps its old path: `Reload` sees no change | `CatalogIsCurrent` compares sources, not directories |
| `ScriptCatalog` | load issues of the boot never reach the page: nothing calls `ListBanners` | `uiBanners # {}` in `BannersFollowIssues` |
| `RunHistory` | `CancelAll` misses a run that is just being started, and `GracefulStop` waits for it | `missed` in `ShutdownEnds` |
| `RunHistory` | `GracefulStop` waits for an `Execute` that is in a file dialog, also when its process is dead: with a dialog left open the program does not end | the condition of `ShutdownEnds` |
| `EnvService` | the end of an operation is announced while the service is still busy: an install started from that event is refused | `ExitEmit` before `ExitStore` |
| `EnvService` | a line over 1 MB ends the forwarding of its stream in silence, and the command waits for ever once the pipe is full | `GaveUp` in `LogComplete` and `OperationEnds` |
| `EnvService` | a process that outlives the command and holds its pipes keeps the service busy: `wg.Wait` waits for the end of the pipes | `child` in `OperationEnds` |
| `EnvService` | a pane opened during an operation shows it as idle: `useEnv` does not ask `EnvBusy` | `heard` in `BusyFollowsService` |
| `Reservoir` | a list emitted late takes away a banner that nobody dismissed | `crossed` in `PageFollows` |
| `RunsView` | leaving the tab loses the groups of running batches | `missed` in `PageShowsRuns`, `Unmount` |
| `LogRing` | the answer of `GetLogs` replaces entries that came meanwhile | `disturbed` in `ViewerFollows` |
| `Process` | `cmd.Wait` closes the stderr pipe before it is read to its end; `Done` is not closed when `Start` fails | `Reap`, the failed `Start` of `Settled` |

## 4. Proofs

Every safety property that a run checks is also a theorem, and so are the four refinements
(`KeepsPromise`, `SharesObjects`, `RingIsLog`, and `EventsInOrder`, which no run lists): for any values of the constants that satisfy the `ASSUME` of
the module, where a bound of a run is any number. These assumptions say that bounds are
natural numbers, a buffer, a pipe or a capacity is not empty, the model values differ, and a
request kind or a set of keys is part of what it is chosen from; each proof uses no more
than that. A theorem about an instance (`Process`, `Reservoir`, `RunsView`) has what it needs of
it as a hypothesis (`OutputBounds`, `Keys`, `BatchesOfRuns` and a number for `MaxOutputs`), since the module it is proved
in does not extend the one that makes the assumption.

### RunLifecycle

`RunLifecycle_proofs` proves `TypeCorrect`, `LockSafety` (`NoSendOnClosed`), `VerdictSound`
(`TrustOrder`), `SuccessIsEarned` (`NoFalseSuccess`), `KillNeedsCancel`
(`HealthyRunNotKilled`), `StatusOnce` (`OneTerminalStatus`), `StatusEndsRun` (`StatusLast`),
`ConfirmedIsForwarded` (`NothingLost`), `ConfirmedIsRecorded` (`CleanCompletion`),
`PromiseKept`: `Spec => KeepsPromise`, and `EventsAreOrdered`: `Spec => EventsInOrder`. None of these is inductive alone. The invariant `Inv`
is the conjunction, for every run, of

- `TypeOK` and `Handed`: the message `Execute` holds is a payload, the status
  `waitForExit` holds is terminal;
- `Placed`: where the goroutines are relative to each other and to the phase. The
  channel is closed only when `waitForExit` is past `UnregisterRun`, and nobody sits in
  a send then;
- `Judged`: what `waitForExit` knows at each step. In particular `drain = "eof"` means
  that `Execute` has returned, so the flags no longer change while they are read, and
  `"completed"` was only ever decided on exit code 0 and a reported completion;
- `Unkilled`: a context of a live process is cancelled without a cancel request only by
  a sender that has returned without sending the StartRequest, so no such process can be
  in its main function;
- `Sent`: the terminal status is nowhere before `TrySendStatus`, then exactly once, in
  the channel or at the frontend;
- `SentLast`: after a drained stream it is the last message.

`InvNext` is proved with one lemma per part and one step per action. The sequence facts
(a status stays the only one under `Append` and `Tail`; joining the channel to what was
forwarded) are lemmas over arbitrary sequences. The refinement follows from `Inv`: each
action is an `Exit`, `Decide`, `Show`, `Record` or `Store` step of `RunPromise` or changes
nothing it sees.

`EventsAreOrdered` needs one fact more, that nobody forwards before `StartRun` has returned
(`Following`), since a script can send before that. Forwarding a status is then the `End` of
`RunEvents`, because `Sent` has no other; forwarding anything else is an `Emit`, and if the
status is already at the frontend, `SentLast` says that the stream was not drained
(`ForwardTells`).

`ConfirmedIsForwarded` and `ConfirmedIsRecorded` need a second invariant on top of it, `Delivered`: while the script is
alive, and for good once it was confirmed, the messages at the frontend, in the channel, in the
hands of `Execute` and on the stream add up to what was sent (`Conserved`, with the report of
`fail()` as one more); a stream that did not break ends only when the script has closed its
side and all of it is read (`Streamed`); and the completion is the last status on the stream
until it is in `pythonStatus`, or stays there when the stream broke (`Reported`, `Unread`).

### RunHistory, ParallelRuns

`RunHistory_proofs` proves `TypeCorrect`, `RecordsAreTrue` (`RecordsTellTruth`) and
`HistorySurvives` (`HistoryKept`). The invariant adds to the properties where the two
goroutines of a run are when it has an outcome (`Recorded`): `waitForExit` runs only after
`StartRun` has made its INSERT, and records once. So a row that says anything terminal was
written by that `waitForExit`, and the history a later life loads from it is true
(`HistoryTrue`). The verdict of a judged run stays as it is until it is recorded, whatever
cancels come.

`ParallelRuns_proofs` proves `TypeCorrect`, `CancelIsComplete` (`CancelReachesAll`) and
`GroupIsKnown` (`GroupStaysKnown`). `CancelReachesAll` speaks of the end of the two loops;
the invariant says the same of every position passed (`Walked`), which needs that a worker
of the list has a run at all, and that only a batch that has returned, and so is complete,
is cancelled (`Staged`). `Held` keeps every uncleared worker of a returned batch in
`runGroups`, which is what stops `clearRunFromGroup` of another worker from deleting the
group.

### ScriptRequests, Process

`ScriptRequests_proofs` proves `TypeCorrect`, `AnswersAreMatched` (`AnswersMatch`) and
`StaysInSync` (`InSync`). Answers carry no id; what makes them match is that, until a request
is given up, at most one is on its way (`OneInFlight`): the request of the thread inside
`_request_lock` is in exactly one of the stages of `Carried`, sent, served, answered or queued, and
without such a thread no stage holds anything. When the reader has ended so has `Execute`, and nothing
is on the stream back (`Endings`); the only thing it leaves in the queue is its sentinel. The cancel message shares the stream back
and is never taken for an answer (`OnlyCancels`).

For `Process` it proves `ProcessTyped` (`TypeOK`), `KillIsAskedFor` (`HealthyNotKilled`) and
`CaptureFinal` (`CaptureIsFinal`). The invariant adds that the context is done only after a
cancel or a reaped process, and that `data` no longer changes once the reader is done.

### SharedCache

`SharedCache_proofs` proves `TypeCorrect`, `MappedStaysRegistered` (`HandlePinned`),
`OwnedStaysLinked` (`OwnerKeepsSegment`), `CleanupIsFinal` (`DrainedRunHoldsNothing`) and
`SegmentsAreUnlinked` (`NothingLeaks`). A handle is pinned by a reference, and a reference can be
taken away by a release that is still on the stream. So the invariant follows the stream
(`Ordered`: only its last request can be one that waits for an answer), says what a yes
promises until the script has it (`Promised`), that no release of a mapped key is on its
way (`Pinned`), that a segment in the making belongs to no block yet (`Made`), that each run refers to
a block at most once and a segment is in one block (`Kept`), and that every segment is in a
block or in the making (`Accounted`).

`CacheSharesObjects` is `Spec => SharesObjects`. Each step of a script or of the server is one of
`SharedObjects` or unseen: that a reference goes only when its run has nothing mapped under
the key is `Pinned` (a release) or follows from the end of the process (`CleanupRun`), that a new
block takes no other's place or segment is the guard of `Register` and `Made`, and that an
object goes exactly with its last user relates a count per run to a set of users
(`DropLeaves`).

### ScriptCatalog

`ScriptCatalog_proofs` proves `CatalogFollowsDisk` (`CatalogIsCurrent`), `BannersAreCurrent`
(`BannersFollowIssues`) and `CatalogIsShown` (`PageShowsCatalog`).

For the first, `CurrentInv` says: when the system runs and no change is pending (no unread
event, no armed timer), the Reload started last has so far found what the part of the disk
that it has read holds (`Scanned`), and if it was the last to compare, the registry is current. It
is inductive because a directory that is there is watched or its Create event is unread
(`Watching`), so a change during a scan always makes something pending again. `ScanStep`
shows that reading the next directory extends what was found by exactly that
directory: whether its id is taken is what `Faulty` says of it. `ScanIsCurrent` shows that the
complete scan, cut by `Capped`, tells the winners and the last `MaxIssues` faulty
directories, by counting the issues behind each; `FingerprintTells` that a scan with the
registry's fingerprint may be dropped.

For the others, `CatalogInv` says, with the exceptions of the properties: of the Reloads only
one runs, it holds what it installed, and only between `Compare` and `Publish` are the banners
behind (`BannersBehind`); the page has the catalog, or a fetch that is alone on its way will
bring it, or it will be told (`PageBehind`).

`TypeCorrect` states `TypeOK`. Two of its parts are bounds: no more than `MaxIssues` issues are
kept, and the page is not told of more changes than there were. The second counts what can
still become a `scripts:changed` event (`PendingInv`): unread events, the armed timer, running
Reloads and the events emitted together never exceed the changes made.

`BootIsCurrent` is about the two loads of the boot, which are one step each and compute with
`LoadAll`, a recursive function over the numbers of the directories. That it has a value
(`ReadsExists`, `LoadAllGives`) is an induction, done by taking the least number of directories
for which it fails (`LeastNumber`) and refuting it; the step is `ReadStep`, the same lemma that a
Reload reads one directory by (`ScanStep`). The theorem says that before the first change on
disk the registry holds what main has read of the two folders, each of which may have been
unreadable: plugins over builtin scripts, and the last `MaxIssues` faulty directories of
both. The list of issues is cut after each load, so the proof needs that cutting twice keeps
what cutting once would (`CapStep`, `LatestTwice`).

### LogRing

`LogRing_proofs` proves `RingImplementsLog`, `Spec => RingIsLog`: the invariant is the typing
of the ring and `count < Cap => head = count`, and the step lemma shows by cases (room, or
full) that reading from `(head - count + Cap) % Cap` on gives the old entries, without the
first if there was no room, and the new one. `ViewerShowsLog` (`ViewerFollows`) rests on
`Following`: the buffer is the window of the last `Cap` entries (`Window`), and as long as nothing
disturbed it the viewer has the window up to some entry, the later ones being on their way in
order, first the emitted, then those whose callback has still to run (`Upto`). `TypeCorrect` adds
to both that all these numbers are of entries that were pushed (`Numbered`).

### What the page shows

`Page_proofs` proves for `EnvService` `BusyIsShown` (`BusyFollowsService`), `EveryLineIsShown`
(`LogComplete`) and `PackagesAreListed` (`PackagesCurrent`); for `Reservoir` `DueReportsAreSeen`
(`ReportsAreSeen`) and `PageShowsBanners` (`PageFollows`); for `RunsView` `RunsAreShown`
(`PageShowsRuns`). All six relate the backend to a page that has handled only part of its
events, and the invariants say what the events on their way will make of it:

- `EnvInv`: the last start or end on its way tells whether an operation is busy, and
  without one the pane knows (`Marked`); the lines shown, on their way and in the pipe add
  up to the lines written (`Accounted`, with `After`, which counts in what is behind a
  position of the queue); the list is up to date, or being read, or will be asked for (`Listed`);
- `ReservoirInv`: an emitted report was seen, lost or is on its way (`Seen`); the last event
  about a banner, unsent, on its way or handled, says what it is now (`Tracked`), as long as
  operations on banners did not cross;
- `ViewInv`: the output of an entry and the outputs on their way add up, one status is on
  its way exactly when a run has ended and its entry has not (`EntryFollows`); a group is
  there from the response until its runs are known to have ended (`GroupFollows`).

`TypeCorrect` (`EnvService`), `ReservoirTypeCorrect` and `ViewTypeCorrect` state the `TypeOK` of the
three, which relate counters of both sides also when events were lost: a pane never lists a
later venv than the installed one (`EnvTyped`), the page shows no banner that no operation has
set (`ReservoirTyped`), and never more output of a run than it wrote (`ViewTyped`, where what is
on its way is counted in).

### Only model-checked

Liveness (`ExitIsSettled`, `CancelEnds`, `ConnectsOrEnds`, `CallsReturn`, `CancelArrives`,
`ShutdownEnds`, `OperationEnds`, `WaitReturns`) and the absence of deadlocks: fairness and
`ENABLED` are outside this prover. The library's induction theorems take an operator as a
parameter and cannot be used either; the induction in `ScriptCatalog_proofs` therefore goes
through a least counterexample.

Only proved: `TypeOK` of each module, `EventsInOrder`, and `LoadedAtBoot` of `BootIsCurrent`,
which no run lists.

## 5. What is left, in order

1. The absence of deadlocks of `RunLifecycle` as a theorem, with the guards of the actions
   written out instead of `ENABLED`.
2. Two runs in a liveness check of `RunLifecycle`: the server mutex held while one run's
   channel is full.

### Not modelled

- A second `Execute` call for a run: the library opens one stream per process.
- The data race on `ch.stream` between `Execute` and `SendCancel`, beyond the two outcomes
  of reading it before or after the write.
- Queue overflow of fsnotify, a failing `Add` of a watch, the end of the watch loop.
- What a script does with the cache after a request timed out (`GiveUp` of `SharedCache`).
- The banner the page puts up itself when it cannot subscribe ("Live updates unavailable"):
  the next list of the backend replaces it like the others.
- The order of Wails events between the backend and the window: taken as first in, first
  out, since no code of the repository decides it.
- Opening the database and its migrations, `FindVenv` and the probing of `NewEnvService`
  (file lookup, run once), `OpenPath` and `LogError` (a check or a report without state),
  the log file and its rotation, the timers that take toasts away, rendering components,
  packaging, and the example scripts, whose calls the models allow in any order.

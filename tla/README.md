# block-storage-api: specifications, model checking and proofs

The repository is a Go service that manages block volumes over HTTP. A volume
is a row in a database and an object in a storage backend; requests are
accepted at once and carried out by goroutines that retry. This directory holds
TLA+ modules of the parts where that can go wrong, the TLC runs that check
them, and TLAPS proofs of their main safety properties. `PROJECT.json` lists the
components, runs, seeded faults, theorems, hazards, and the source lines behind
every definition.

    tlc -workers 2 -config service_racing.cfg MCVolumeService.tla
    tlapm VolumeSafetyProofs.tla

## 1. The system

| Component | Source | State | Operations |
|---|---|---|---|
| Life cycle (FSM) | `volume/fsm.go` | none: a table of transitions | `CanTransition`, `Transition` |
| Application | `volume/application.go` | rows through the repository, backend volumes, goroutines | `CreateVolume`, `DeleteVolume`, `AttachVolume`, `DetachVolume`, `ReconcileVolume`, `applyEvent`, `runWithRetry`, reads |
| Event broker | `volume/application.go` | the channels subscribed to each name | `publish`, `subscribe`, `unsubscribe` |
| HTTP controller | `volume/controller_http.go` | none of its own; one handler goroutine per request | ten routes; `streamVolumeEvents` lives as long as its client |
| Volume feature | `volume/factory.go` | `bgCtx`, a WaitGroup | `NewVolumeFeature`, start-up reconciliation, `Close` |
| Repositories | `volume/repository/*.go` | table `volumes` (unique name), table `volume_events` | save, update, load, list by state, delete, save event |
| Mock backend | `storage/mock` | a map under a mutex | create, delete, attach, detach, get, list |
| Ceph backend | `storage/ceph` | a map under a mutex, beside the RBD images | the same |
| Process | `cmd/api/*.go` | resources and their closers | `Setup`, `Shutdown` in LIFO order |
| NVMe-oF target | `transport/nvmeof` | map of exposed volumes, configfs | expose, unexpose, close; not wired into the service |
| Configuration, observability, migrations, assertions, generated API docs | `config`, `internal`, `assertor`, `docs` | none that the others depend on | read once, or write only |

How they interact. A handler runs in its request's context: it loads the row,
asks the FSM, updates the row and appends an audit row (`applyEvent`), starts a
goroutine and answers 202. The goroutine (`runWithRetry`) runs under `bgCtx`:
backend call, load, `applyEvent` with the success event or `error`, back-off,
`retry`, and `fail` after the last attempt. `applyEvent` ends by publishing to
the broker, whose channels the handlers of `/events` read. No lock is held
between a load and the update that follows it, the backend's mutex covers one
call, and the only thing that orders two creations is the unique name. `Close`
cancels `bgCtx` and waits for the WaitGroup, up to a deadline. When the process
starts, a goroutine looks for volumes left in transition.

What is hard: requests of several clients on one name; retry goroutines of one
operation beside the handlers of the next; events (`error`, `retry`, `fail`)
that do not say whose they are; backend calls that report an error after they
took effect, updates likewise; a row and its audit row written apart; the
shutdown at any point; a crash at any point and a backend that forgets; start-up
beside live requests; bounded channels that drop; a shutdown beside event streams.

What makes each part correct:

- FSM and application: rows move along the life cycle; a resting state tells
  the truth about the backend; an operation is carried out once; every accepted
  request comes to an end; deleted means gone.
- Backends: a call does all or nothing, or reports an error.
- Broker and stream: a client that waits for a volume hears of its coming to rest.
- Feature: `Close` reports the goroutines gone only when they are; what a crash
  interrupted is settled by the next start; start-up leaves live work alone.
- HTTP controller: every request is answered, and what an acceptance says of the
  volume is so.
- Process: a resource outlives what uses it, nothing stays open, and the shutdown
  ends by itself.
- NVMe-oF target: what is listed is served, and nothing is left over by a call that
  returned nil.

## 2. Modules

| Module | What it is |
|---|---|
| `VolumeFSM` | The transition table of `fsm.go`. |
| `StorageBackend` | What each call of the mock and of the Ceph backend may answer and do to one volume. |
| `VolumeService` | The application with repository, backend, handlers, goroutines and `Close`. The core. |
| `VolumeLifecycle` | The abstract specification of one volume: what the API shows, what the storage holds. |
| `HttpController` | Extends `VolumeService` with the handlers: checks, status codes, and the load that an accepted attach or detach is answered with. |
| `EventStream` | Extends `VolumeService` with the broker and the handlers of event streams. |
| `VolumeFeature` | Extends `VolumeService` with crash, restart and start-up reconciliation. |
| `Backoff` | The sleeps between attempts in the arithmetic of `time.Duration`, and which policies `validate` accepts. |
| `Process` | Extends `HttpController` and `Backoff` with `main`, `Setup` and `Shutdown`. |
| `NvmeofTarget` | The NVMe-oF target and the configfs. |
| `MCVolumeService`, `MCHttpController`, `MCEventStream`, `MCVolumeFeature`, `MCProcess`, `MCNvmeofTarget` | The instances for TLC (symmetry sets, the retry policies). |
| `VolumeServiceProofs`, `VolumeSafetyProofs` | Theorems about `VolumeService!Spec`, whatever clients do. |
| `VolumeSerialProofs` | Theorems about `VolumeService!SerialSpec`, and that it implements `VolumeLifecycle`. |
| `HttpControllerProofs`, `EventStreamProofs`, `VolumeFeatureProofs` | Theorems about the module each is named after, on top of `VolumeSerialProofs`. |
| `ProcessProofs` | Theorems about `Process`, on top of `HttpControllerProofs`, and about the sleeps of `Backoff`. |
| `NvmeofTargetProofs` | Theorems about `NvmeofTarget!TargetSpec`. |

### VolumeService

`db` is the row of each name (state and node), `audit` the `to_state` of its last
`volume_events` row, `backend` the backend's volume, `closing` how far
`Close` is, and `task[t]` one accepted request: `pc` is the *next call* it
makes, `vol` its local `*storage.Volume`, `event` the FSM event under way,
`attempt` the loop counter.

| `pc` / action | Code |
|---|---|
| `Arrive` | a route's handler starts (`controller_http.go`) |
| `lookup` / `Lookup` | `loadOrNotFound` or the duplicate check, and what the operation does with the row it finds (`LookupCreate` to `LookupReconcile`) or does not find (`LookupNothing`) |
| `save` / `Save` | `SaveVolume` in `CreateVolume`; a name already inserted refuses |
| `setnode` / `SetNode` | `AttachVolume`'s first `UpdateVolume`, which records the node *before* the FSM is asked |
| `inspect` / `Inspect` | `ReconcileVolume`'s `GetVolume`; its branch for an absent volume waits for `(nil, nil)`, which neither backend answers |
| `update`, `record` / `Update`, `Record` | the end of `applyEvent`: `UpdateVolume`, `SaveEvent` |
| `begin`, `call` / `Begin`, `Call` | top of the retry loop; the backend call |
| `load` / `Load` | `LoadVolume` after the call, with `postSuccess` and the FSM check of the event that follows |
| `backoff` / `Backoff` | the `select` on timer and `ctx.Done()` |
| `Close` | `VolumeFeature.Close` |

A step is a call that another goroutine can see, with the local computation that
follows it up to the next such call. `ApplyEvent` is that computation for
`applyEvent`; the whole of `applyEvent` is `ApplyEvent`, `Update`, `Record`.
Errors: the in-memory repository has none; Postgres may fail while
`faults < MaxFaults`, or at any call once the contexts are canceled, and a write
that fails may have been done. `rbd.Create` and `rbd.RemoveImage` may fail before
or after the image changed. A request's context may end early, which counts as
a fault.

`Spec` lets clients do anything at any time. `SerialSpec` restricts `Arrive`
only: one handler per name at a time, and attach only asked of an available
volume. Goroutines still overlap with later handlers. Most of what the
documentation says is true only there, and the two restrictions are what
`finding_lost_update` and `finding_rejected_attach` show to be needed.

`VolumeLifecycle` has no goroutines: storage changes only under the operation
the row announces, an operation is shown as done only when the storage agrees,
and `Truthful` is an invariant of it. `VolumeService` implements it with
`shown <- db` and `real <-` the backend's state and node.

### HttpController

`exchange[t]` is the handler of task `t`'s request: in the application (`app`)
or loading the volume it answers with (`show`); `answer` is the status the last
step sent. `Handle` is a step of the application in the handler together with
what the handler does when it returns: `Reason` names the sentinel error the
application gives up with, `mapAppError` its status, and `Refusals` adds the 500
of a fault. `Run` is a step of the goroutine, which goes on while the handler is
in `show`; a task therefore can be busy with the goroutine of the request whose
answer is still due. A body that does not pass the handler's checks is `Reject`;
`ErrInvalidSize` cannot come from the application then. Two creations that race
past the duplicate check are told apart by the insert, and the loser is answered
500.

### EventStream

`stream[s]` is a handler: subscribed and about to load the current state
(`current`), sending it (`tell`), or in the loop (`follow`), with the channel
`queue`. `Apply(t)` is a task's step; when it ends an `applyEvent` it publishes,
which appends to every channel with room and drops otherwise.
`ReconcileVolume` does not publish, and neither does an `applyEvent` whose update
reported an error. `Leave` is a client that goes away, a write past the server's
15 s `WriteTimeout`, or the shutdown. Start-up, whose `applyEvent` publishes too, is
not part of this module: streams on a volume that it writes over are not modelled.

### VolumeFeature

`startup` is the goroutine of `NewVolumeFeature`, `scan[n]` the goroutine it
starts for a listed row (`reconcileDBVolume`, `reconcileToError`) or for a backend
volume (import), again one step per call. `Restart` is a crash at any point or an
exit and a new start: tasks are gone, Postgres rows stay (or the database is a
new one), `RECONCILE_CEPH_ONLY` is chosen anew, and the backend has forgotten its
volumes (`Forgotten`): the mock and the Ceph backend both begin with an empty map
(`ceph.go:61-66`), though the images stay.

`GetVolume` of both backends answers an error for a volume that the map does not
have (`ceph.go:133-136`, `mock.go:100-103`), and start-up leaves such a row alone. What
waits for `(nil, nil)` is never reached: the three values of `RECONCILE_DB_ONLY`, and
with them `DeleteVolume` of the repository. Nor is the insert of an imported
volume, since the map holds only what goroutines of this life created, and these
began with the row; `NothingToImport` is that argument, checked and proved. These
branches have no actions. As nothing removes rows, a row needs no identity beyond
its name.

### Backoff

`RetryPolicy` is what the environment can ask for, `Valid` what `validate` lets
through. A multiplier is a fraction, `MaxDuration` the longest duration. `Scale` is
`time.Duration(float64(wait) * multiplier)`: exact products are cut down to
integers, and one out of range becomes what the build's conversion makes of it
(`Saturates`: the nearest on arm64, the most negative value on amd64). Rounding to
53 bits is left out. `Waits` are the sleeps of a policy; the first one is not
subject to the ceiling, so an initial wait above `MaxWait` sleeps longer than
`README.md:428` has it ("Maximum backoff delay").
`VOLUME_RETRY_MULTIPLIER=NaN` passes `validate` (`NaN < 1.0` is false) and is not
modelled, nor is infinity.

### Process

`main` follows `main.go`, `setup` counts the steps of `Setup` done, `closers` is
`rr.closers`, `open` what really is open, `wait` the goroutine of
`VolumeFeature.Close` that calls `wg.Wait()`.

| Action | Code |
|---|---|
| `SetupStep`, `SetupFails` | a step of `Setup`, done or failed; the observability step may fail with the tracer registered |
| `Request`, `Work` | what the server accepts, and every step of `HttpController` |
| `StreamStarts`, `StreamEnds` | `streamVolumeEvents`: the first handler of an event stream begins, the last one ends |
| `Signal` | `signal.NotifyContext`: the contexts of all requests end |
| `ServerFails`, `Leave` | the `select` of `main` |
| `CancelFeature`, `WaitStarts`, `WaitReturns`, `CloseFeature` | `VolumeFeature.Close`: cancel, `wg.Wait()`, return when it has or at the deadline |
| `StopServer`, `CloseServer` | `http.Server.Shutdown`: stops listening, and waits for every handler (`HandlersDone`), those of streams too, or for the deadline |
| `CloseOther` | the other closers |
| `Expire` | the 10 seconds of `Shutdown` are over |
| `Exit` | `os.Exit` |

The WaitGroup is external: its counter is the number of counted tasks, the step
that brings it to zero releases a waiter (`wait = "released"`), and a released
waiter that finds the counter above zero panics. `ContextHeeded` says what a
signal, which ends all request contexts, changes: the FSM and Postgres refuse
what a handler asks from then on; a call that is cut returns at the latest when
`Close` cancels. When the server fails (`main.go:47`), no request context ends,
and handlers go on: an event stream whose volume does not come to rest then
holds `http.Server.Shutdown` to the 10 seconds that all closers share.
`following` is whether some stream is open; what streams send is in
`EventStream`. The goroutine of the start-up reconciliation, which the WaitGroup
counts too, is left to `VolumeFeature`. `pgxpool.Pool.Close` waits for
connections in use; that has no step, since a call that has one ends by its
timeout. The exit code is left out.

### NvmeofTarget

`exposed` is the map of the target (the device each volume is listed with),
`subsys` the subsystem's directory: `attr_allow_any_host`, `namespaces/1`,
`device_path`. A call keeps the mutex, so `op` is the one call under way, and each
file system call is a step that may succeed, or fail with or without an effect: a
directory made or not, a file untouched, truncated or written, and any part of a
directory remaining after `RemoveAll` (the kernel's own rules for removals in the
configfs are external and stricter). `faulted` is what callers know: names about
which an error was reported, or that a crash left behind, and on which no call
succeeded since. `Close` goes on after a removal has failed, forgets the volume, and
keeps the last error only (`target.go:131`): `op.last` is the name in it, and the other
names that failed go to `overlooked`, about which no error said anything.

## 3. Runs

| Run | Specification and bounds | Shows |
|---|---|---|
| `service_racing` | `Spec`; 1 name, 2 tasks, 2 nodes, Ceph, Postgres, 2 attempts, 1 fault | `TypeOK`, `NodeRecorded`, `OneCreator`, `DeletedMeansGone`, `DrainedMeansQuiet` |
| `service_serial` | `SerialSpec`; 3 tasks, 2 nodes, Ceph, Postgres, 2 attempts, 2 faults | `StableStateIsTrue`, `MountIsNamed`, `OneAtWork`, `FollowsFsm`, `ImplementsLifecycle` |
| `http_live` | `FairHttpSpec`; 2 tasks, 2 nodes, Ceph, in-memory, 2 attempts, 1 fault | `HttpTypeOK`, `BodyIsAboutRequest`, `Attended`, `AcceptanceIsTrue`, `RequestsAnswered`, `TasksFinish`, `Settles` |
| `stream_following` | `FairStreamSpec`; 1 stream, 1 task, Ceph, in-memory, 1 attempt, 2 faults, channel of 3 | `StreamTypeOK`, `EndIsComing`, `AuditKeepsUp`, `StreamsEnd` |
| `startup_racing` | `FairFeatureSpec`; 1 task, Ceph, Postgres, 1 attempt, 1 fault, 1 restart, import or not | `FeatureTypeOK`, `DrainedMeansReconciled`, `NothingToImport`, `DeletedMeansGone`, `StartupEnds` |
| `process_shutdown` | `FairProcessSpec`; 2 tasks, Ceph, Postgres, 1 attempt, no faults but the set-up's and those of contexts, event streams | `ProcessTypeOK`, `NoUseAfterClose`, `NothingLeftOpen`, `BackoffIsBounded`, `ShutdownEnds` |
| `nvmeof_exports` | `TargetSpec`; 2 volumes, 2 backends, 3 failures, 2 crashes | `TargetTypeOK`, `ListedIsServed`, `NothingIsLeftInSilence`, `DeviceIsStable` |

What the properties say:

- `NodeRecorded`: a row on its way to, on, or from a node has a node, though
  racing requests overwrite each other's rows: no lost update joins such a state to
  the node field that a detach has cleared. Which node it is, racing attaches do get
  wrong (`finding_rejected_attach`).
- `MountIsNamed`: with clients that wait for each other, the row of a volume that the
  backend has mounted names the very node from the mount to the unmount, whatever
  the row's state: in a failed attempt, in `error`, and when the success of an attach
  could not be persisted.
- `OneCreator`: at most one goroutine provisions a name.
- `DeletedMeansGone`: a volume shown as deleted is not in the backend. It holds
  for any clients although updates get lost; section 5 says why.
- `DrainedMeansQuiet`, `DrainedMeansReconciled`: after a clean `Close` no
  goroutine touches a row or the backend.
- `StableStateIsTrue`, `FollowsFsm`, `ImplementsLifecycle`: with clients that
  wait for each other the rows follow the FSM and resting states are true.
- `OneAtWork`: while a goroutine may call the backend for a volume, the FSM lets no
  second one start, through failures and retries.
- `Attended`: a volume in progress always has a task that is bound to move it on.
- `BodyIsAboutRequest`: an accepted attach or detach is answered with the volume
  on that operation's way, however far the goroutine has come (if the volume's
  clients wait for each other's answers).
- `AcceptanceIsTrue`: at the moment a 201, 202 or 200 without a further read is
  sent, the volume is on its way to what was asked, and a reconciled row agrees with
  the backend, which `ReconcileVolume` asked two database calls earlier. (A
  refusal, on the other hand, may have changed the row: `finding_rejected_attach`.)
- `RequestsAnswered`, `TasksFinish`, `Settles`: requests and goroutines end, and a
  volume leaves the transitional states unless the service is stopped.
- `EndIsComing`, `StreamsEnd`: a stream that has begun to follow a volume ends
  once the volume is at rest. The invariant says why: subscribing before the
  current state is read leaves no gap, and the final event is queued, about to
  be published, or had no room because an earlier final one was queued. A volume
  whose update reported an error (Postgres) is excluded by the bounds.
- `NothingToImport`: every volume the backend lists has a row, beside start-up and
  over restarts and new databases, so that nothing is imported beside its creation.
- `DeletedMeansGone` is checked beside the start-up, too, which overwrites rows of
  volumes that requests are working on.
- `StartupEnds`: the start-up goroutine ends, whatever the database answers.
- `AuditKeepsUp`: unless a write fails, the last audit row tells the volume's state.
- `NoUseAfterClose`: within the deadline, no handler, event stream or goroutine, not
  even one that a late handler still starts, calls a backend or database that is closed.
- `NothingLeftOpen`: whichever set-up step failed, an exit leaves nothing open.
- `ShutdownEnds`: the shutdown ends although nothing forces the deadline, but
  for a stream that is open when the server failed and no signal came. Late
  handlers cannot keep it waiting: each leaves its volume in progress, where it
  accepts no other request, so there are finitely many of them for finitely many
  names; goroutines started by then finish at once.
- `BackoffIsBounded`: every accepted policy of the instance sleeps no longer
  than its ceiling from the second sleep on, whatever overflows (an overflow may
  make a sleep negative, which is no longer than the ceiling, and the next
  attempt immediate); while nothing overflows sleeps are positive, do not
  shrink, and follow the closed form.
- `ListedIsServed`, `NothingIsLeftInSilence`, `DeviceIsStable`: a listed volume is
  served from the device its entry names; leftovers in the configfs were named by an
  error, left by a crash, or by a `Close` whose error names another volume, never
  by a call that returned nil; a served device changes only under a removal.

Runs that end in a violation; each states what the repository says of itself:

| Run | Property | What happens |
|---|---|---|
| `finding_rejected_attach` | `RowNamesMount` | An attach refused with 409 has already overwritten the row's node. |
| `finding_lost_update` | `FollowsFsm` | Two deletions load the row as `available` and both are accepted; the first is done and shown as `deleted` when the write of the second puts the row back to `deleting`. |
| `finding_startup_race` | `OnlyInterrupted` | Start-up lists a volume that a request of this life has begun to work on, finds it in the backend and writes over its row. |
| `finding_unfinished_forever` | `UnfinishedMovesOn` | The process dies inside a creation. The next life's backend does not know the volume and answers an error; start-up leaves the row in progress, and no request is accepted from there. |
| `finding_wait_group` | `ShutdownIsClean` | A handler starts a goroutine between the last `Done` and the return of `Wait`; the WaitGroup panics. |

More of what the repository says of itself fails once a bound is relaxed; these
have no run of their own:

- `ReconcileVolume` never leads to `pending` (`application.go:293`,
  `README.md:285`), and `RECONCILE_DB_ONLY` is never consulted (`README.md:296`): both
  backends answer an error, not `(nil, nil)`, for an absent volume. A volume that
  the backend does not know stays as it is.
- A row left `pending` by a creation that was cut short is not listed by start-up
  (`factory.go:143`), and its name is refused: `UnfinishedMovesOn` fails for it, too.
- "Every FSM transition is persisted in `volume_events`" (`README.md:272`): with
  Postgres and one fault `AuditKeepsUp` fails, the row and its event being two
  statements. With two tasks it fails without any fault: the audit row of a
  goroutine's success and that of the next request on the volume can be written in
  either order.
- "Closes automatically when the volume reaches a terminal state"
  (`controller_http.go:448`): with Postgres and one fault `StreamsEnd` fails, since a
  stream whose load of the current state failed waits for events that need not
  come.

Bounds, and why they are enough. *Names*: nothing in the code relates two names,
so one name per run. *Tasks*: the races are between two goroutines of a name;
the serial run has three so that a late goroutine, a current one and a handler
meet. *Nodes*: two, to tell the right node from a wrong one; one where nodes do
not matter. *MaxAttempts*: two has a first and a last attempt with a back-off
between (three is the default); one where streams or restarts multiply the
states. *MaxFaults*: every place can fail; two faults let an attempt and its
follow-up fail. Postgres is left out of `stream_following` because one failed
call of it is enough for a stream not to end (above). *Capacity*: a goroutine
makes at most `2 * MaxAttempts` moves to states that do not end a stream, and
then one that does: three is exactly that for one attempt, and with two
`EndIsComing` is violated (as with four for two attempts). Two goroutines that
work on one volume at once, where a late publication is overtaken by a newer
one, need room for both: with two tasks and a channel of three the stream's
properties hold without faults and fail with one. The service's sixteen is room
for the default three attempts of two goroutines. These larger instances take
minutes to hours and are not among the runs. *MaxRestarts*: one; a crash comes
at every step, the start-up's included, and leaves rows in every state for the
next life to find. *Kind*: the passing runs use the Ceph backend, whose calls
can fail and which refuses less; the mock one serves `finding_rejected_attach`
and `finding_lost_update`, and the theorems hold for both. `finding_lost_update`
has no nodes, so that no attach, which writes a state without having it
accepted, is in its trace. The model also reaches an available volume without an
image: RemoveImage reports an error after removing, the Ceph backend's map keeps
its entry, and a reconciliation believes the map. No run is spent on it.
*MaxFaults* 0 in `process_shutdown` leaves the errors that a shutdown causes,
which are what the run is about; one attempt and one node leave the order of
closing against two requests. *MaxDuration* 31 with the multipliers 1/2 to 5,
initial waits up to 5 and ceilings up to 12: products on both sides of the
ceiling and of the range, and policies that `validate` refuses; five sleeps
reach the fixed point of each. `Saturates` is `FALSE`, the build that turns an
overflow negative. *MaxFailures* 3, *MaxCrashes* 2: an exposure fails, its
repetition fails, a removal fails, with a crash between any two.

Symmetry is used in safety runs only. Deadlock checking is on except where `main`
exits (`process_shutdown`, `finding_wait_group`): elsewhere a request or call can
always come.

Fairness. `TaskFairness` is weak fairness of each task's next step: goroutines
are scheduled, every call has a timeout (`dbTimeout`, `backendTimeout`, the
server's timeouts), timers fire. Weak is enough because a step stays enabled
until taken; `Step(t)` is one disjunction so that nothing is assumed of *which*
branch of a `select`, or which answer, is taken. The HTTP
controller adds that of the handler that loads the volume beside its goroutine, the
process that of `main` and of the wait in `Close`. Of the end of an event stream the
process assumes something only after a signal, which ends its context
(`controller_http.go:513`), and of the deadline, a timer, only while a stream is
open and no signal has come: everywhere else the shutdown has to end without it.
`EventStream` adds weak fairness of a handler whose client reads, `VolumeFeature`
that of the start-up goroutines. Nothing is assumed of clients, signals, faults,
`Close` or `Restart`.

Each property of a passing run has a seeded fault, an operator next to the
faithful one under a comment that begins "Faulty", with which TLC finds the
property violated.

## 4. Assumptions on constants

`RepoAssumption`, `KindAssumption`, `PolicyAssumption` list the variants that
`setup.go` and `config.go` accept (of the policies that of
`RECONCILE_CEPH_ONLY`, the one that is consulted); `MaxAttemptsAssumption` is
`validate()`'s `MaxAttempts < 1` check; `NodesAssumption` keeps the empty
`NodeID` apart from node names; `CapacityAssumption` says that channels are
buffered; `RetryPoliciesAssumption` that policies are made of durations and a
fraction and that some policy is valid, or set-up could never get past its first
step; `SaturatesAssumption` names the two builds; the others bound counters.

## 5. Proofs

Every invariant and every action property that a passing run checks is also a
theorem. The theorems hold for any sets of names, tasks, nodes and streams, either
backend, either repository, any number of attempts, faults and restarts, from the
named assumptions on constants; what is assumed beyond those is in the last column.
`Spec`, `ProcessSpec` and `RacingService` leave clients unrestricted. Two
specifications are defined with the proofs, to say once what holds of several:

- `OrderlyService` (`HttpControllerProofs`): the controller with clients that wait
  for each other, whoever closes the service and when. `HttpSpec` implements it
  (`HttpIsOrderly`), and so does `OrderlyProcessSpec` (`ProcessIsService`): what is
  proved of it holds of the controller and of the whole process.
- `RacingService` (`VolumeFeatureProofs`): the feature with start-up and restarts
  beside clients that wait for nobody. `FeatureSpec` and `PatientSpec` implement it
  (`FeatureRaces`).

| Theorem | Property | Of | Inductive invariant | Assumes |
|---|---|---|---|---|
| `TypeCorrect` | `TypeOK` | `Spec` | `TypeInv` | |
| `NodesAreRecorded` | `NodeRecorded` | `Spec` | `NodeInv` | |
| `OneTaskCreates` | `OneCreator` | `Spec` | `CreatorInv` | |
| `DrainedIsQuiet` | `DrainedMeansQuiet` | `Spec` | itself | |
| `DeletedVolumesAreGone` | `DeletedMeansGone` | `Spec` | `GoneInv` | |
| `AuditIsUpToDate`, `AuditIsUpToDateForStreams` | `AuditKeepsUp` | `Spec`, `StreamSpec` | `AuditInv` | in-memory, `[]InTurn` |
| `OneTaskIsAtWork` | `OneAtWork` | `SerialSpec` | `SerialInv` | |
| `RestIsTrue` | `StableStateIsTrue` | `SerialSpec` | `SerialInv`, `RowsAreTrue` | |
| `MountsAreNamed` | `MountIsNamed` | `SerialSpec` | `SerialInv` and itself | |
| `RowsFollowTheFsm` | `FollowsFsm` | `SerialSpec` | `SerialInv`, each step | |
| `ServiceImplementsLifecycle` | `ImplementsLifecycle` | `SerialSpec` | `SerialInv`, each step | |
| `HttpTypes` | `HttpTypeOK` | `HttpSpec` | `HttpInv` | |
| `AcceptancesAreTrue` | `AcceptanceIsTrue` | `HttpSpec` | `HttpInv`, `SerialInv`, each step | |
| `BodiesAreAboutTheirRequests` | `BodyIsAboutRequest` | `HttpSpec` | `BodyInv` | |
| `ProgressIsAttended` | `Attended` | `HttpSpec` | `AttendedInv` | in-memory |
| `ControllerImplementsLifecycle` | `ImplementsLifecycle` | `HttpSpec` | `SerialInv`, each step | |
| `StreamTypeCorrect` | `StreamTypeOK` | `StreamSpec` | `StreamTypes` | |
| `TheEndIsComing` | `EndIsComing` | `StreamSpec` | `EndInv` | in-memory, `[]InTurn`, `Capacity > 2 * MaxAttempts` |
| `FeatureTypes` | `FeatureTypeOK` | `RacingService` | `StartInv` | |
| `DrainedIsReconciled` | `DrainedMeansReconciled` | `RacingService` | `StartInv` | |
| `NodesSurviveRestarts` | `NodeRecorded` | `RacingService` | `NodeInv`, `CarriesInv` | |
| `DrainedIsQuietAcrossRestarts` | `DrainedMeansQuiet` | `RacingService` | itself | |
| `OneTaskCreatesAcrossRestarts` | `OneCreator` | `RacingService` | `CreatorInv` | |
| `DeletedStaysGoneAcrossRestarts` | `DeletedMeansGone` | `RacingService` | `ProvisionInv` | |
| `NothingIsImported` | `NothingToImport` | `RacingService` | `ProvisionInv` | |
| `KnownVolumesAreTrue` | `KnownAreTrue` | `PatientSpec` | `PatientInv`, `SerialInv` | |
| `MountsAreNamedAcrossRestarts` | `MountIsNamed` | `PatientSpec` | `PatientInv`, `SerialInv` | |
| `OneIsAtWorkAcrossRestarts` | `OneAtWork` | `PatientSpec` | `SerialInv`, `PatientInv` | |
| `ProcessTypes` | `ProcessTypeOK` | `ProcessSpec` | `ProcessInv` | |
| `EverythingIsClosed` | `NothingLeftOpen` | `ProcessSpec` | `Ladder` | |
| `NobodyUsesWhatIsClosed` | `NoUseAfterClose` | `ProcessSpec` | `ProcessInv` | |
| `ProcessRecordsNodes`, `ProcessHasOneCreator`, `ProcessDeletesForGood` | `NodeRecorded`, `OneCreator`, `DeletedMeansGone` | `ProcessSpec` | those of `Spec` | |
| `ProcessDrainsToQuiet` | `DrainedMeansQuiet` | `ProcessSpec` | `Curtain`, and a wait that has returned | |
| `ProcessImplementsLifecycle` | `ImplementsLifecycle` | `OrderlyProcessSpec` | as for `HttpSpec` | |
| `ProcessRowsAreTrue` | `FollowsFsm`, `StableStateIsTrue`, `MountIsNamed`, `OneAtWork` | `OrderlyProcessSpec` | as for `SerialSpec` | |
| `ProcessAnswersTruly` | `AcceptanceIsTrue`, `BodyIsAboutRequest` | `OrderlyProcessSpec` | as for `HttpSpec` | |
| `ProcessAttends` | `Attended` | `OrderlyProcessSpec` | `AttendedInv` | in-memory |
| `EverySleepIsBounded`, `SleepsAreExponential` | `Bounded`, `Exponential` | `Waits` | induction on the attempts | a valid policy |
| `BackoffStaysBounded` | `BackoffIsBounded` | `ProcessSpec` | the two before | |
| `TargetTypeCorrect`, `ListedVolumesAreServed`, `NoLeftoverInSilence`, `DevicesAreStable` | `TargetTypeOK`, `ListedIsServed`, `NothingIsLeftInSilence`, `DeviceIsStable` | `TargetSpec` | `TargetInv` | |

`InTurn` says that at most one task at a time is under way for a name: a request
comes after the goroutine of the one before it has ended. Requests for other names
may be under way, as many as there are tasks.

Why each invariant is more than its property:

- `TypeInv` adds `Coherent`, which ties a task's `event`, `op`, `attempt` and local
  row to its `pc`. Without it `Continue` could count past `MaxAttempts` and
  `SuccessEvent[op]` be asked of a reconcile.
- `NodeInv`: the local copies satisfy the property too, since any of them may be
  written back at any time; and an attach that has passed `setnode` carries a node.
- `CreatorInv`: a task that creates has its row inserted; no action removes rows.
- `GoneInv` says per name: nothing happens before its row is inserted (`Untouched`);
  from then until the backend has provisioned the volume the row, and every stale
  copy of it, is still early, so that no other operation can be accepted
  (`Reserved`); and whoever is about to write `deleted` has seen the volume leave the
  backend (`Gone`). Only a creation brings a volume back, and a creation excludes a
  claim of deletion: that is why lost updates, which break the FSM's order, do not
  break this.
- `AuditInv`: the copy that a task is about to record, or to write back without a
  change of state (an attach's node), shows the state of the row.
- `SerialInv`: of the tasks on a name only one is `Engaged`, that is, still going to
  write the row or to call the backend; goroutines that only have their last audit row
  to write overlap with it. `Claim` is what each task knows: the row shows its
  operation in progress or failed, the backend has done what a success reported,
  and the FSM still allows the write that follows. The restriction on clients
  keeps handlers apart; that a handler and a goroutine do not meet is the FSM's
  doing, through `Claim`: the row of an owned volume admits no operation.
- The refinement takes each effect of a task to one step of `VolumeLifecycle` or
  to none: a row written is its `Register`, `Choose`, `Accept`, `Stumble`,
  `Complete` or `Reconcile`, a call that took effect its `Work`, an error
  reported after the effect included.
- `HttpInv` ties an exchange to its task. An acceptance follows the handler's last
  step, `record`; `Claim` says what the row is then, and of a reconciliation that it
  owns the volume alone, so that the backend is still as it answered.
- `MountIsNamed` is inductive with `SerialInv`: a goroutine attaches to the node its row
  names, and a detach clears the name only after the backend has let go.
- `BodyInv`: while the handler loads the volume to answer with, nobody owns it but
  the goroutine of the same request, and the row is on that operation's way.
- `AttendedInv`: the task that drives the volume also *keeps* it: before its call
  the row shows the operation in progress, so that a task that ends early leaves
  nothing in progress behind.
- `EndInv` counts. `Published` is how many events that end no stream a task has
  published (acceptance, a failure and a retry per attempt), at most
  `2 * MaxAttempts`; a channel without a final event holds no more than that, so the
  final one finds room.
- `StartInv`: the goroutines of names exist only in the phases in which the
  start-up waits for them.
- `PatientInv`: requests and start-up take turns. The backend of a new life knows no
  volume, whatever the rows say; it knows one when a goroutine of this life has created
  it, and from then on its row is as `SerialInv` has it (`Trusted`). The rows that say
  `available` of volumes the backend has forgotten are not claimed to be true: they are not.
- `ProvisionInv` is `GoneInv` and two facts about the start-up's goroutines: while a
  creation is yet to provision a volume, start-up finds nothing in the backend and
  so writes nothing over its row (`Provisioned`); and what it writes over any row is
  never `deleted` (`Spared`).
- `ProcessInv`: `Ladder` says that what is open is always the first few of the
  resources in the order of `Setup` (`Rungs`), registered in that order;
  `Curtain` that, within the deadline, the feature closes only after `wg.Wait()`
  has returned and the server only when no handler, and no stream, is left. A
  goroutine that a late handler starts in between is at `begin`, where it sees
  the cancellation.
- `CarriesInv`: what the start-up is about to write for a name carries the node that
  its state needs, though it was read before requests changed the row.
- The sleeps are a recursive function. That it is defined, and what it returns, are
  inductions over the attempts, made by hand from the least element of a set of
  numbers (`SetInduction`, `Recursion`): the library's theorems for this take an
  operator, which no prover here can instantiate.
- `TargetInv` adds `CallInv`: what an exposure has done by its file system calls so
  far, that the volume it works on is not listed, and that a removal works on one
  that is. Without it, the step that writes `device_path` and lists the volume could
  not be shown to leave a complete directory.

`VolumeSafetyProofs` first reduces the ten actions to eight effects
(`StepCases`: a task ends, finds a row, writes it, takes the backend's word,
persists, goes round the loop, calls, or loads), once, so that each later
invariant, of whichever module, is one step per effect; `VolumeFeatureProofs`
does the same with the eight steps of the start-up's goroutines (`ScanEffect`).
The modules that extend the service first show that their steps are steps of the
service or leave it alone (`SerialIsNext`, `HttpIsSerial`, `ProcessIsSeen`,
`StreamsLookOn`, `FeatureSteps`), and so inherit its invariants. The invariants
were checked by TLC on small instances before they were proved.

Why the last column is needed, each from a counterexample of TLC or from the code:

- *In-memory.* A Postgres error loses the audit row (`application.go:394`), ends
  a goroutine whose load failed with the volume in progress, and makes a stream miss
  the state it subscribed to read. The in-memory repository has no errors.
- *`[]InTurn`.* The audit rows and the publications of a goroutine's success and of
  the next request on the same volume may be written in either order (section 3).
- *`Capacity > 2 * MaxAttempts`.* The service's channels hold sixteen
  (`application.go:56`) and the attempts are configurable (`VOLUME_RETRY_MAX_ATTEMPTS`,
  three by default): from eight attempts on, a client that reads nothing
  meanwhile may miss the end of an operation that keeps failing.

Only model-checked:

- Liveness: `RequestsAnswered`, `TasksFinish`, `Settles`, `StreamsEnd`,
  `StartupEnds`, `ShutdownEnds`. TLAPS does not prove it (no ENABLED, no fairness).
- The violations of section 3.

## 6. Not modelled

- Sizes, identifiers and timestamps (a size of 2^44 MB wraps in `ceph.go:77`).
- Routes that only read: `GetVolume` but for the answers of attach and detach,
  `ListVolumes`, `Backends`, health.
- The environment's parsing, multipliers that are not finite, exit codes.
- Metrics, traces and logs; what migrations do to the schema; `assertor`, which
  collects messages of one call; `docs`, which is generated.
- Branches that the repository's backends never lead to: `RECONCILE_DB_ONLY`,
  `ReconcileVolume` to `pending`, the insert of an imported volume (section 2).

## 7. Plan

Proofs: that what `HttpController` answers implements an abstract request, accepted
once or refused.

Models: the start-up goroutine in `Process`, so that the wait of `Close` counts it
beside live requests; images, with the property that an available volume has one,
which the code does not keep.

# Woltage, specified in TLA+

Woltage is a TypeScript framework for event sourcing with CQRS. Commands are
executed on aggregates and append events to an event store; projections follow
the event store and keep read models up to date, executing side effects on the
way; commands can be scheduled for later. This directory holds TLA+ modules of
the parts of it that are hard to test, the TLC configurations that check them
on small instances, and proofs that TLAPS checks.

Paths below are relative to `src/packages/` unless they start with `src/`.
`README.md:<line>` is Woltage's own `src/README.md`.

## 1. The system

### Components

| Component | Code | State | Operations | Modelled by |
|---|---|---|---|---|
| Command execution | `woltage/src/write/Aggregate.ts`, `Snapshotter.ts` | none of its own: the event stream in the event store, the row of the snapshot store; per call the status it hydrates | `executeCommand`, `hydrateStatus`, `get`/`set` of the snapshotter | `CommandExecution`, `AtomicCommands` |
| KurrentDB event store | `eventstore-kurrentdb/index.ts` | streams, `$all`, tombstones (in the database) | `read`, `append`, `subscribe`, `getLatestPosition` | as used, in `CommandExecution` and `ProjectionRun` |
| Projection | `woltage/src/read/Projection.ts`, `Projector.ts`, `sideEffects/sideEffect.ts` | `#latestPosition`, `#isReplaying`, `#isLiveTracking`, `#subscription`, the stored position and the read model | `init`, the `data` handler, `#updatePosition`, `stop`, `sideEffect` | `ProjectionRun` |
| Projection registry | `woltage/src/ProjectionMap.ts`, `Woltage.ts` | `idMap`, `activeProjections`, the cached snapshot of them, the persisted configuration | `addProjection`, `setProjectionActive`, `removeProjection`, `start` | `ProjectionRegistry` |
| Local scheduler | `scheduler-local/index.ts`, `woltage/src/write/CommandScheduler.ts` | `#invocations`, `#timeout`, `#nextInvocationAt`, the storage | `subscribe`, `unsubscribe`, `schedule`, `#invoke` | `LocalScheduler`, `DeferredCommands` |
| AMQP scheduler | `scheduler-amqp/index.ts`, `woltage/src/write/CommandScheduler.ts` | `#isRunning`, `consumerSetups`, `consumerCount`; the exchange and the queues of the broker | `start`, `stop`, `subscribe`, `unsubscribe`, `schedule`, the consumer | `AmqpScheduler`, `DeferredCommands` |
| Composed event store | `eventstore-composed/index.ts` | a log and a bus, neither of them in the repository | `append` then `publish` | `SideEffectQueue`, as far as `emit` meets it |
| Event registry, casting | `woltage/src/EventCaster.ts`, `EventRegistry.ts`, `eventMap.ts` | the event classes by type and version, the versions a projector handles | `EventRegistry.get`, `cast`, `analyze`, `transform` | `EventCasting` |
| Plugin registry | `woltage/src/plugins/PluginRegistry.ts` | lists of hooks | hook chains, error hooks | `HookedCall` |
| Read models | `woltage/src/read/ReadModel.ts` | none | `call`; a query on the active projection | `HookedCall`; which projection is asked, in `ProjectionRegistry` |
| Side effects | `woltage/src/sideEffects/{emit,executeCommand,scheduleCommand}.ts` | none | appends in parallel; single calls | `emit` in `SideEffectQueue` |
| Stores | `store-postgres`, `store-mongodb`, `store-redis`, `woltage/src/adapters/Store.ts` | the tables (in the database) | `set`, `get`, `update`, `remove` | `StoreTable`; what they do to a `bigint` is a constant of the other modules |
| Side effect queue | `src/examples/side-effect-custom-handling/src/SideEffectHelper.ts`, `sideEffect.ts` | the registered functions; an exchange and a queue of the broker | `register`, `queue`, the consumer | `SideEffectQueue` |
| Configuration, validation, imports | `WoltageConfig.ts`, `utils/` | none | pure checks | not modelled: no state |
| Example applications | `src/examples/` | - | - | read for how the library is used |

### How they interact

* `Woltage.executeCommand` goes to `Aggregate.executeCommand`, which asks the
  `Snapshotter` for a status, reads the rest of the stream from the event
  store, runs the command, and calls `append` with the revision it has read up
  to. The snapshot is stored by a promise that runs beside the command.
* `Projection.init` asks the event store for its latest position, the store of
  the projection for the stored position, and subscribes. The subscription
  emits `data`; the handler pauses it, awaits the projector's event handler,
  awaits the write of the position, and resumes it. Event handlers call
  functions that `sideEffect` has wrapped: these do nothing in a replay or
  when the projection is not the active one of its name.
* `Woltage.addProjection`, `setProjectionActive` and `removeProjection` change
  the `ProjectionMap` in memory and then write the whole configuration; the
  next `start` loads it.
* `CommandScheduler.start` subscribes one callback to the scheduler. The local
  scheduler keeps a list, sorted by time, and one timer. The AMQP scheduler
  leaves commands in a delayed exchange of a broker until they are due, and
  consumes them from a queue that all processes share; its channel belongs to
  amqp-connection-manager, which connects again and runs the setups anew.
* The example with the side effect queue replaces what a projection calls: the
  wrapped function publishes a message, and a consumer calls the real one
  (`Woltage.executeAsSideEffect`), which emits events through `emit`. A
  failure is published again with a longer delay, and reported as an event
  after the last try.
* The handlers of a projection change their tables with `set`, `update` and
  `remove`. The position of the event is stored afterwards, so that a handler
  may be run again on what it has left behind.
* `Projector.onEvent` and the hydrator of `Aggregate` ask their
  `EventRegistry` for the handler of an event. If there are handlers for other
  versions of its type only, the event is cast to the latest of them, one
  version after the other; a fallback of the application is asked about
  versions that are not registered.
* `Aggregate.executeCommand` and `ReadModel.call` run the hooks of all plugins
  before, after and around their validation and their handler; hooks replace
  what the call works on, and end or continue it.

### What is hard

Everything runs on one event loop per process, so code between two awaits is
atomic, and every await is a place where other handlers, calls and processes
come in between. Aggregates are shared by processes, and only the event store
arbitrates between them. Positions, snapshots, the configuration and the
scheduled invocations are persisted apart from the change they belong to, so
a process can end between the two. Brokers deliver again what was not
acknowledged, and lose nothing but what had not reached them. `PROJECT.json`
lists these hazards line by line.

### What makes each part correct

* Command execution: an unforced batch was decided on exactly the events that
  precede it; a snapshot is the state of a prefix; a refused call leaves
  nothing; a successful one is complete; deletion erases nothing new.
* Projection: no event is skipped, events are projected in order, an event's
  side effect is executed at most once and never in a replay, a replay ends,
  and ends no earlier than it should.
* Registry: the active projection is registered, not stopped and the only one
  whose side effects are executed, an acknowledged change is durable, and what
  is persisted can be loaded.
* Casting: an event that is cast to a version is a valid event of that version
  whenever the analysis of the schemas found no error, and every field of it
  has the value of the field it stands for. (The code has gaps in both; see
  "Known not to hold".)
* Scheduler: no command is executed early or concurrently with itself, the
  timer is armed for the earliest one, retries are bounded, nothing is forgotten
  before it was tried, and what is scheduled is executed; with a broker, nothing
  is lost, and a command is repeated only if a channel was cut.
* Side effect queue: a side effect ends with its events or with a report, the
  report comes after all tries, and there is one of the two.
* Stores: a handler that runs again leaves what one run leaves, and operations
  that are made at once do not get in each other's way.

## 2. The modules

One module per component, one action per step between two awaits. A definition
whose comment begins with `Mutant:` is not part of any specification: it is
what a plausible bug would make of the definition that follows it, kept beside
it to show that the properties notice. `PROJECT.json` names, for every
property, the mutant that breaks it, and for every definition the lines of
code it models.

### AtomicCommands and CommandExecution

`AtomicCommands` is what callers are promised: each call takes effect at one
instant, at which its batch is added to the history; an unforced call has
decided on the whole history at that instant, a forced one on some earlier
part of it.

`CommandExecution` is `Aggregate.executeCommand` for any number of calls on one
aggregate, in one process or several. `pc[c]` is the await at which the call
`c` is suspended.

| Action | Code |
|---|---|
| `Execute` | validation of the payload, up to the first await |
| `LoadSnapshot`, `LoadSnapshotFails` | `Snapshotter.get` and the check of the projector version |
| `Hydrate` | one turn of the `for await` over `eventStore.read`: count the event, apply its handler |
| `HydrationThrows` | a throw while hydrating: once more from scratch if a snapshot was used |
| `EndOfStream` | the end of the read, or `StreamNotFoundError`; starts to store the snapshot |
| `HandlerNotFound` | a `NotFoundError` thrown by a handler is taken for a missing stream |
| `Decide` | the command returns events, nothing, or throws |
| `AppendEvents`, `AppendRefused` | the first request of `append`; the answer may be lost |
| `Tombstone`, `TombstoneRefused` | its second request, `tombstoneStream` |
| `Settle` | the await of `postHydrationPromise` |
| `Save` | the snapshot store answers, at any time, in any order |
| `Crash` | the process of the call ends |

The state of an aggregate is represented by the sequence of the events its
handlers were applied to and the version of the projector they belong to, so
that two histories are never confused. The refinement mapping of `AtomicSpec`
takes the moment of a call to be the append: `seen` is the state its status
holds, and `forced` what its update says, from the moment its events are in
the log.

`BigintSurvives` says whether the snapshot store gives the revision back as a
`bigint`; the code checks with `typeof`. `NotFoundHandlers` says whether event
handlers throw a `NotFoundError`. `Version` gives each call the projector
version of its release, so that two releases may share one snapshot.

### ProjectionRun

One projection, its store and the event store, over several lives of the
process. Only events the projector handles are modelled; an event is its
position. `Inits` are the calls of `Projection.init` in one process: one, or
two when `addProjection` meets a projection that was loaded at the start.

| Action | Code |
|---|---|
| `Boot`, `AddAgain` | `init` is called by `ProjectionMap.init`, or by `ProjectionMap.add` |
| `GetLatestPosition` | `eventStore.getLatestPosition` answers |
| `Subscribe` | the store gives the stored position; the end of the replay is decided; `subscribe` |
| `Deliver` | the `data` event: `pause`, and the context of the handler is made |
| `Project`, `SideEffect`, `SavePosition`, `Finish` | the awaits of the handler: the read model changes, a wrapped function is called, the position is written, `#updatePosition` and `resume` |
| `Stop`, `End` | `stop`; a crash, a kill or an exit |
| `SwitchActive` | another version becomes active, or this one again |
| `AppendEvent`, `Scavenge` | the event store, used by commands; a tombstoned stream disappears |

`projected` and `effects` count, over all lives, how often an event changed the
read model and had its side effect executed.

### ProjectionRegistry

The projections of one name and the calls that change them. `idMap`, `active`
and `flagged` are the fields of `ProjectionMap` and the `isActive` of the
projections; `persisted` is the row `#saveProjections` writes; `toWrite[c]` is
the configuration a call has put together and not yet written. A projection is
an instance of its version, since removing and adding makes a new object.

### DeferredCommands

What both schedulers promise, however they keep what is scheduled: a command is
executed when it is due and not before (`Execute`); the scheduler lets go of it
only when its callback has settled (`Release`, which may go with any step), and
executes it no more after that; and what is due while nobody is served is let go
untried (`Miss`), as the code has it. Until it is let go, a command may be
executed any number of times. How often, and how late, is what the other
properties of the two schedulers say.

| | `LocalScheduler` | `AmqpScheduler` |
|---|---|---|
| `due` | its time has come | a copy has left the delayed exchange |
| `scheduled` | `schedule` has returned: the storage has it | the broker has confirmed it |
| `answered` | its callback has fulfilled or rejected | one of its messages was answered by a callback that settled |
| `missed` | it was due without a subscriber | it was due without a bound queue |
| `released` | it has left the storage | no copy is in the exchange, in a bound queue, or with a consumer whose channel is there |
| `served` | a callback is subscribed | a queue is bound |

`rejected` is a history variable of `LocalScheduler`, which no action reads: the
invocations whose callback has rejected.

### LocalScheduler

The list (`pending`), the storage, the one timer, and the runs of `#invoke`:
a run takes the due part of the list (`Take`), awaits its callbacks (`Fulfil`,
`Reject`), puts back what is to be retried (`Conclude`), and deletes the rest
and sets the timer (`Deleted`). A delay longer than `MAX_TIMEOUT` is cut and
waited for in turns (`Wait`). Time passes in `Tick`s; a timer may fire late.

### EventCasting

One event and one call, of `EventRegistry.get` or of `EventCaster.cast`. The
schemas of its type are chosen with the initial state, as is a payload that the
schema of its version accepts. `Analyze` is `EventCaster.analyze` with one
operator per schema type; the errors are reduced to their kinds. `Transform`
is `EventCaster.transform`; its loops over the fields of an object are `Rename`
(one key after the other), `Fit` (defaults and removed keys), `Strictly` (the
throw) and the recursion. `CastStep` is one turn of the loop over the versions.
`Specified` is what all of that is compared with: each field of the target
takes the value of its counterpart, all at once. `KeepsApart` and `IsSeen` say
of a pair of schemas that the code can do this: no rename gets in the way of
another field, and nothing changes where `analyze` and `transform` do not both
look (alternatives of unions, limits of arrays).

`Analyze`, `Transform` and `Payloads` recurse over schemas with `RECURSIVE`,
so this module is for TLC only.

### HookedCall

One `Aggregate.executeCommand` or `ReadModel.call` with its plugins. Both have
the same stages (`pc`); a query has no status to hydrate and nothing to append.
In a stage of hooks, `HookReturns` and `HookThrows` are one turn of
`#callHooks`, and `chain` holds the local variables of the executor that
collects the results; an `...Ends` action is the end of the executor and what
the call does with its answer. `Fail` and `FailExecution` are the outer and
the inner `catch`. Every plugin has every hook: one that is not registered is
one that returns nothing.

### AmqpScheduler

The `CommandScheduler` and the AMQP scheduler of several processes, and their
broker. The external part (`Reruns`, `HasTurn`, `CloseChannel`, `Lose`, `Route`)
is what the code relies on: setups run again on a new channel, all at once, and
`addSetup` and `removeSetup` wait until they have; unacknowledged messages go
back to their queue; unconfirmed ones are published again; a fanout exchange
copies a message to every bound queue, and to none if there is none.

What the setups do is the code's own, whoever runs them: `calls` holds, for each
process, the calls of `start` and `stop` that await the broker and the setups
that run anew, with the `step` that comes next. `tags` is `consumerSetups`, the
setup and the consumer tag of the last setup that has run; the tag names a
consumer of the present channel if the process is in `fresh`.

| Action | Code |
|---|---|
| `Start` | `start` and `subscribe`: the name of the queue is taken from `consumerCount`, `addSetup` runs the setup if there is a channel, and keeps it for the next one otherwise |
| `Bind`, `Consume`, `Subscribed` | the awaits of a setup, for the first time or anew: the queue is bound, the broker has a consumer, its tag is noted; then a call of `start` raises the counter |
| `Stop`, `Unsubscribed` | `stop` and `unsubscribe`: nothing without a consumer tag, otherwise `removeSetup`, and `cancel` of the tag that was noted when `unsubscribe` began: a consumer of this channel (`cancel`) or of one that is gone (`skip`) |
| `Connect`, `Lose`, `Crash` | the channel wrapper has a new channel and starts all its setups; the connection is lost; the process ends |
| `Schedule`, `Arrive`, `Confirm` | `scheduleCommand`, and the publish it awaits |
| `Route`, `Deliver` | the command is due; the consumer calls the callback |
| `Acknowledge`, `AcknowledgeTooLate` | `ack`, on the channel of the message: if it was lost, this throws in a consumer that nobody awaits, and the process ends |

`troubled` are the processes whose `start` or `stop` was called while the other
one, or the setup of the last `start`, was still to come, or whose call was cut
off by a lost connection. `overtaken` are those that were stopped while the setups
of their channel ran anew, which is no overlap of calls.

### SideEffectQueue

The queue of the example. `sending` and `acking` are the two channels, neither
of which is awaited; a delivery goes through the stages `call` (the function
runs), `emit` (its appends are under way, one for each aggregate) and `report`.
`Promise.all` fails with the first append that does, so the others are left to
themselves (`late`). `AppendRejected` has two ways: the append has not
happened, or it has and the bus failed (`PublishFails`). `ReportRejected`
acknowledges in `finally` and ends the process. The side effect is called once
(`Queue`), which `EffectsAtMostOnce` of `ProjectionRun` is about.

### StoreTable

One row, one event handler, three stores. The handler is chosen with the
initial state: any sequence of operations, which it awaits one by one or makes
at once. An update is one request in MongoDB, two in Redis (`ReadEntry`,
`WriteEntry`), and one without effect in PostgreSQL (`UpdateNothing`).
`MarkSaved` is the end of `Projection.onEvent`; before it, `Crash` starts the
handler over on the row as it is. `Outcome` is what all of that is compared
with: it looks for the last operation that writes each field, as the store of
the tests (`woltage/test/_mock/StoreMock.ts`) has it. The module has names of its
own (`RowInit`, `RowNext`, `RowSpec`), because its proofs stand beside those of
`ProjectionRun`, which runs the handler.

### Lists and the proof modules

`Lists` is the `filter` method of an array, which both schedulers use (on
`#invocations` and on the setups of a channel). `SelectSeq` would say the same,
but it is recursive; `KeepOnly` says which element is at each place, and so can
be reasoned about.

`CommandExecutionProofs`, `ProjectionRunProofs`, `ProjectionRegistryProofs`,
`LocalSchedulerProofs`, `AmqpSchedulerProofs`, `HookedCallProofs` and
`SideEffectQueueProofs` hold the theorems of section 4, each about the module it
extends; `ProjectionRunProofs` is also about `StoreTable`. `DataLemmas` has what several of them need about data: the smallest and
the largest element of a set of numbers, what `KeepOnly`, insertion into a list
and concatenation leave in it, and that every finite set can be listed. No
induction over data is used for these facts: the strict subsets of a finite set
are a well-founded order, so among the initial segments of the numbers there is
a minimal one.

## 3. What is checked

| Run | Properties | What it shows |
|---|---|---|
| `commands` | `SnapshotIsFold`, `DecidedOnCurrentState`, `RefusedLeavesNothing`, `SuccessIsComplete`, `DeletionErasesNothingNew`, `AtomicSpec` | Two calls, with snapshots of theirs and of an earlier release, forced and unforced, batches of up to two events, tombstones, crashes and lost answers: concurrency control holds and the calls implement `AtomicCommands` |
| `commands_end` | `StartedCallEnds` | Two calls of two releases: with corrupt snapshots, failing hydrations and handlers that throw `NotFoundError`, every call still ends |
| `projection` | `EffectsAtMostOnce`, `NothingSkipped`, `RepeatsOnePerRestart`, `ReplayHasNoEffects`, `EventuallyProjected`, `ReplayEnds` | One `init` per process, two restarts, three events that may be scavenged |
| `projection_again` | `EventuallyProjected` | Two `init`s of one projection: the handlers of both subscriptions pause and resume the newer one, and still nothing gets stuck |
| `registry` | `StartsAgain`, `ActiveIsThere`, `QueriesSeeActive`, `AcknowledgedIsDurable` | A caller that awaits its calls, with failures and a crash anywhere |
| `scheduler` | `NotLate`, `OneAtATime`, `TriedBeforeForgotten`, `DeferredSpec`, `PendingIsExecuted` | Two invocations in any order, overlapping runs, retries, a restart, cut delays: the list, the storage and the runs implement `DeferredCommands`, so that nothing is executed early or after it was let go |
| `casting` | `UpcastIsValid`, `RoundTrip`, `StepsAsSpecified` | Every payload of about 7,000 histories of schemas, cast between any two versions, strictly or not: fields end up where a declarative definition puts them as long as renames are kept apart, and what `analyze` accepts is then cast to a valid payload, unless an alternative of a union or the limits of an array changed |
| `hooks` | `ObjectionHolds`, `HandlerSeesValidInput`, `QuietPluginsChangeNothing`, `FailuresAreNotSwallowed` | A command or a query and two plugins whose hooks return anything or throw: errors that are returned hold, errors that are only logged change nothing, a failed call ends well only if that failure was suppressed |
| `amqp` | `DeferredSpec`, `OnceUnlessFault`, `CalmServesOnce`, `DueIsExecuted` | Two processes that start, stop, lose their connection and crash between any two awaits of their setups implement `DeferredCommands`: a command that was scheduled is held by the broker until its callback has settled, and executed only when it is due and until it is let go; it is executed once, plus what a cut channel left without an answer; processes that start and stop in turn share one queue, and have the consumers they should, and one more only if they were stopped while their setups ran anew |
| `effect_queue` | `NothingForgotten`, `ResolvedOnce`, `ReportedAfterAllTries`, `EventuallyResolved` | A side effect that emits to two aggregates, with every failure of its function, its appends and its report, and a crash followed by a release that may not know it |
| `stores` | `RerunConverges`, `SomeOrder` | All handlers of up to three operations on each store: run again after crashes they leave what one run leaves; made at once, they take effect in some order |

One more run ends in a counterexample to something the documentation says:
`replay_ends_early` (`LiveMeansReplayed`). `#updatePosition` overwrites the
position that marks the end of the replay, so the second event ends it
(README.md:579).

### Known not to hold

More disagreements were found while the modules were written. They have no run
of their own; the properties above leave out exactly these cases, and the
hazards they belong to are not covered by them.

* `remove` asks whether a projection is active before it awaits `stop`, and
  removes it afterwards: another call may have activated it (ProjectionMap.ts:78,
  against README.md:888). `registry` therefore has one caller, who awaits its
  calls; with two callers in `Callers`, `ActiveIsThere` fails.
* A forced removal leaves `isActive` set (ProjectionMap.ts:61). If the projection
  cannot be stopped, it goes on executing side effects, also beside the one that
  is activated next. `ActiveIsThere` leaves out what was removed by force
  (`abandoned`).
* The local scheduler takes what is due while nobody is subscribed, before
  `start` or after `stop`, calls nothing and deletes it
  (scheduler-local/index.ts:114). `TriedBeforeForgotten` leaves it out (`missed`).
* `#invocations` is only searched from its front, and `schedule` keeps it in the
  order of the times, but `load` takes the list of the storage as it comes, and
  no comment asks a storage for an order (scheduler-local/index.ts:19, :56). If it
  gives another one, what is due waits for an earlier element that is not:
  `NotLate` fails at once with `StorageIsSorted = FALSE`. Nothing is then early,
  doubled or forgotten, which section 4 proves for either kind of storage.
* `transform` carries out renames one after the other: when two keys swap their
  names one value is lost, and `analyze` reports nothing (EventCaster.ts:550,
  against README.md:298). `casting` leaves such renames out (`KeepsApart`).
* The analysis of a union looks for a counterpart of each alternative that it
  could be cast to (EventCaster.ts:384-440), but `transform` knows no unions
  (:537-626): when a field of an alternative was renamed, or added with a
  default, the payload stays as it was, and the target rejects it. The limits of
  an array are not compared (:258-267), so that one that is too long for the
  target passes as well. Both are against the comment of `transform` (:629-630).
  `UpcastIsValid` leaves these changes out (`IsSeen`).
* `#nextInvocationAt` survives the list it belongs to: an invocation that is
  scheduled for later than it, once the list was drained, gets no timer
  (scheduler-local/index.ts:153, against README.md:844). `PendingIsExecuted` asks
  for a timer that is armed or a run that will set one.
* A process that is stopped before its setup has run keeps a consumer, its
  counter stays raised, and after the next start there are two queues, from
  which every command is executed twice (scheduler-amqp/index.ts:62).
  `CalmServesOnce` and `OnceUnlessFault` are about processes that are not
  `troubled` in this way.
* A process that is stopped while a new channel runs its setup anew keeps a
  consumer too, although none of its calls overlapped: `unsubscribe` takes the
  consumer tag of the lost channel (scheduler-amqp/index.ts:63) and cancels it
  when the setup has run. `CalmServesOnce` has this consumer in its count
  (`overtaken`): it reads from the shared queue, so that nothing is executed
  twice, but a process that was stopped executes commands until its channel is
  closed.
* A command that is due before any process has ever
  subscribed is discarded (`unrouted`), and one that fails is acknowledged like
  any other (Woltage.ts:118).
* The update of PostgreSQL passes `[...values, Object.values(key)]`: the values
  of the key arrive as one array, no row has such a key, and nothing changes
  (store-postgres/index.ts:63). A key that is not a text, or has two fields,
  makes it throw. `set` replaces the entry in Redis and in the store of the
  tests, but keeps fields that are missing from it in MongoDB and PostgreSQL.
  `AsInTests` leaves both out. The update of Redis is not atomic, so two of them
  that are not awaited lose one (store-redis/index.ts:79). MongoDB has no unique
  index on the key, so that two upserts of a new row may insert it twice; the
  model has not.
* The composed event store writes `.catch()` to ignore a bus that fails, which
  ignores nothing (eventstore-composed/index.ts:75): an append that has happened
  is rejected. `SideEffectQueue` has this (`PublishFails`), and its properties
  hold all the same, but events are then emitted twice, and a failure is
  reported although all events are there.
* The side effect queue forgets a side effect whose message was still in the
  process when it ended (`dropped`), although the projection goes on behind it;
  one that a release does not know (`ignored`); and one whose report is
  rejected (`unreported`). Its delay is capped at 30 minutes, where the comment
  above it speaks of hours (SideEffectHelper.ts:118-120).
* In Redis and in the side effect queue a text like `5xn`, a number followed by
  more and an `n`, makes `BigInt` throw when it is read back
  (store-redis/index.ts:51, SideEffectHelper.ts:44), outside of any `try`.

* Adding a projection that was loaded at the start opens a second subscription
  (ProjectionMap.ts:13); what that delivers after the replay has its side
  effects executed again, against README.md:681 and `ReplayHasNoEffects`. This is
  why `projection_again` checks less than `projection`.
* A call may append behind the tombstone event of another one before the stream
  is deleted, which README.md:370-372 prohibits. The deletion is then refused;
  `DeletionErasesNothingNew` says that at least nothing is lost.
* With a store that gives positions back as text (`PositionSurvives = FALSE`; a
  Postgres `bigint`), every start replays all events with their side effects.

`casting` leaves out renames that are not kept apart (`KeepsApart`), and
`UpcastIsValid` also unions with an alternative of type object or array that the
newer version does not have as it is (`IsSeen`). Besides the swap, renames are
not kept apart in these cases: a new name that was in use before while the renamed
field is missing (the old value stays), a renamed field that becomes required
(not reported), objects that are renamed (analysed, but not transformed), and a
former name that comes back as an object. A renamed field is a scalar there, so
that unions and arrays are never renamed. No property says that the analysis
is sound for downcasts, because it is not: for removed fields it takes the
source for the older version, as the tests do, for renames the target, as
`cast` does. Called as in `src/examples/event-casting/src/initExample.ts:15` it
does not notice a required field that the newer version has removed.

`hooks` says nothing of two disagreements with comments. `onCommandError` "runs
whenever a command related error occurs" (PluginRegistry.ts:183), but the
validation and its hooks are outside of its `try`. And an error that an error
hook returns is not thrown "regardless" (PluginRegistry.ts:15): a later
`suppress` of the same chain takes it back, so `ObjectionHolds` is about the
hooks before and after the handler.

### Bounds

* Commands: two calls are enough for every race of the code, since a call only
  meets others through the log, the deletion and one snapshot. The snapshot
  store starts empty or with any snapshot an earlier call can have left, of
  the projector version of the calls or the one before. Two events per batch
  are the fewest that tell a batch apart from its last event, and put a
  tombstone event in the middle of one. An aggregate with one event and
  `EventCount = 1` lets a snapshot be stored, used and be outdated. In
  `commands` the two calls have one version and are interchangeable, so
  symmetry is used; `commands_end` gives them different projector versions and
  `EventCount = 2`, so that a hydration may or may not store a snapshot. The
  proofs below do not depend on these bounds.
* Projection: three events are the fewest with one before, at and after the
  premature end of the replay, and position 0 is special in the code; two
  restarts let a repeated event be repeated again. `projection_again` has two
  events and no restart, because the two calls multiply the states.
* Registry: two versions, four calls, three projection objects: a removal, an
  addition and an activation in any order and one more call on top, and one
  end of the process between any two steps.
* Casting: two keys are the fewest that can swap or take over a name; the order
  in which a schema lists them is fixed, because all assignments of fields to
  keys occur. Pairs of versions change between 32 schemas (scalars with bounds on
  both sides, enums, literals, nested objects with renames and defaults of their
  own, arrays with and without limits of strings, objects and unions, unions of
  scalars, objects and arrays), or between all combinations of required, optional and default fields
  and former names; chains have three versions. Strings, numbers and their
  bounds range over 0 to 2, so that there are values inside and outside of
  every bound.
* Hooks: two plugins are the fewest of which one can undo what the other has
  done; every combination of strategies, results and failures occurs.
* Scheduler: two invocations, times 1 to 3, `MaxTimeout = 1` so that delays are
  cut, one retry and two failures so that the limit is passed, one restart.
* AMQP: one command, because commands meet only in the number of a queue; two
  processes and two starts, which is a second queue (a start, a stop before the
  setup has run, a start), a process that takes over from another one, and two
  that run side by side. Once a process is `troubled`, which it remains, no command
  is published a second time (`TroubledPublishesOnce`): `OnceUnlessFault` and
  `DueIsExecuted` then ask nothing any more, and for the other two properties what
  is left out is proved in section 4. One fault, and the late acknowledgement that ends the
  process as a second one: a message is then delivered again, published again,
  and both.
* Side effect queue: two aggregates are the fewest of which one append fails and
  the other one succeeds late; two tries are one retry and a last try; one crash
  at any point, and then a release with or without the function.
* Stores: two fields are the fewest of which one is written and the other kept;
  three operations are the fewest with an effect before and after the one that
  is cut; after two crashes a run meets what a cut second run has left.

`TypeOK` of a module is there for its reader and for the proofs; no run repeats
it, except through what is proved in section 4.

All runs that check safety end without deadlock checking: calls end, events
run out and processes may stay down, so the systems may stop.

### Fairness

Liveness is checked under weak fairness of what the code or its environment
does by itself:

* `CommandExecution`: the steps of a started call and the writes of snapshots;
  the database clients settle every promise. That a call is started is not
  assumed.
* `ProjectionRun`: a process that has ended is started again, and after `stop`
  it ends; calls of `init` and subscriptions go on; handlers go on. Crashes,
  new events, `SwitchActive` and `Stop` are not fair.
* `LocalScheduler`: time passes, the storage answers, timers fire and callbacks
  settle (`CommandScheduler` hands over a callback that catches everything).
  A failure is never forced.
* `AmqpScheduler`: the broker answers, also the setups that run anew, routes and
  delivers, and amqp-connection-manager connects again. Starting, stopping and faults are not
  fair. That callbacks settle is not needed for `DueIsExecuted`: the consumer has
  no prefetch limit, so one that hangs keeps nobody waiting.
* `SideEffectQueue`: the broker and the event store answer, the function returns
  or throws, and a process that has ended is started again; crashes are never
  forced.

## 4. What is proved

`CommandExecutionProofs` proves for every set of calls, every batch size,
every snapshot configuration and every initial stream:

* `TypeCorrect`: `Spec => []TypeOK`. `TypeOK` is not inductive: `AppendEvents`
  needs the call to hold an update (`UpdateInHand`) and `Save` needs a
  snapshot to be pending (`SnapshotInHand`).
* `SnapshotsAreFolds` and `CommandsDecideOnCurrentState`, from the invariant
  `ConcurrencyInv`. A snapshot is a fold only because each call's status is one
  (`StatusIsFold`), reads go on right behind it (`ReadPosition`), and what is
  on its way to the snapshot store is one (`PendingIsFold`); a batch starts
  once only because a call that has not appended is not in the log
  (`NothingYet`).
* `DeletionIsExact`, from `DeletionInv`: the expected revision of a tombstone
  request is that of the call's own tombstone event (`TombstonePlaced`).
* `RefusedCallsLeaveNothing` (`RefusedLeavesNothing`) and
  `SuccessfulCallsAreComplete` (`SuccessIsComplete`), from `ReportInv`. Between
  its append and its report a call may wait for its tombstone and its snapshot
  while others append: its batch keeps its place all the while
  (`SentIsPlaced`), and the stream is deleted by then (`SentIsTombstoned`).
* `CommandsAreAtomic`: initial states map to initial states of
  `AtomicCommands`, and every step maps to a step or a stutter.

The theorems about the state a call decides on (`SnapshotsAreFolds`,
`CommandsDecideOnCurrentState`, `CommandsAreAtomic`) assume `Exact`: revisions
survive the snapshot store and no handler throws a `NotFoundError`. Without it
they are false, as the code has it: a status then stands for something else than
a prefix. Two hazards in `PROJECT.json` describe this. The others hold whatever
the stores and the handlers do.

`ProjectionRunProofs` proves for every number of events, restarts and events that
may be scavenged:

* `TypeCorrect`, for any number of calls of `init`.
* `NothingIsSkipped` (`NothingSkipped`), from `InOrder`: the subscription is paused
  while one of its events is handled, there is one handler at most
  (`OneHandler`), and what it has delivered is projected but for the event under
  way (`DeliveredIsProjected`).
* `EffectsHappenAtMostOnce` (`EffectsAtMostOnce`) and `ReplaysHaveNoEffects`
  (`ReplayHasNoEffects`), from `LiveOnce`. The replay may end too early (see
  `LiveMeansReplayed`), and still nothing is executed twice: of what was
  projected and not stored there is only the first event behind the stored
  position (`OnlyTheNextIsAhead`), the first one a new subscription delivers, and
  the replay goes on at least until that is done (`ReplayCoversRepeats`).
  Position 0 needs a case of its own, because it is taken for no position.
* `RepeatsAreOnePerRestart` (`RepeatsOnePerRestart`), from `RepeatsBounded`: each
  end of a process leaves at most one event that the next one has to repeat
  (`Owed`).
* `StoredPositionGrows` and `StoredIsNotProjectedAgain`: the stored position
  never goes back, and the handler of an event is run only while its position is
  not stored (but for position 0), from `HandledIsAhead`. This is what ends the
  runs of a handler in `StoreTable`.

All but the types assume `OneInit`: a process calls `init` once for a projection.
That is the code's normal case; with two calls `ReplayHasNoEffects` is false
(section 3). The ones about effects and repetitions also assume
`PositionSurvives`, without which every start replays everything with its side
effects. `NothingIsSkipped` holds whatever the store does.

The same module proves of `StoreTable`, for every set of fields, every handler of
any length and any number of crashes, without further assumptions:

* `RerunsConverge` (`RerunConverges`) and `EffectsHaveAnOrder` (`SomeOrder`), and
  the types (`RowTypesHold`), from `Converging`. Neither property says anything
  before the position is saved, so the invariant says what the row is in the
  middle of a run (`RowMade`): there is an order of the operations that are done,
  that of the handler if it awaits them (`EffectOrder`), and with `l` the place of
  the latest one that is no update, the row is what that one has left (`Base`)
  with the latest update of each field behind it (`Made`). What an earlier run
  has left behind shows only in fields that an operation still to come writes
  too, or nowhere, because a set or a remove is still to come
  (`OverwrittenLater`). That is the reason why a handler can be run again on its
  own remains. For Redis it takes two more facts: operations that are awaited stay
  in turn (`InTurn`), so that what an update has read is the row until it is
  written (`ReadIsCurrent`). When all operations are done the order has each of
  them once (`ListOfAll`), and the row is the `Outcome` of the handler in that
  order (`OutcomeOfSomeOrder`).
* The latest operation of a field is looked for in `Outcome` with a `CHOOSE` over
  places; that it finds the largest one is `LatestOfPlaces`. No recursion over the
  handler is used, and so none had to be proved about.

`LocalSchedulerProofs` proves for every set of invocations, all times, timeouts
and limits, and any number of overlapping runs:

* `TypeCorrect` and `NothingIsEarly` (`NeverEarly`), an action property.
* `CommandsAreDeferred` (`DeferredSpec`): initial states map to initial states of
  `DeferredCommands`, and every step maps to a step or a stutter. It needs
  `Finality`: what has left the storage, or is about to, has settled or was missed
  (`FinishedHasSettled`); unless it was missed it is neither in the list nor held
  by a run, so that neither a run still under way nor the next process executes
  it (`FinishedIsGone`); and an invocation is saved once (`SavedOnce`).
* `CommandsRunOneAtATime` (`OneAtATime`), from `Places`: an invocation is in the
  list or held by one run, and not twice in either (`OnePlace`); that holds of
  the restart because no callback is called before the storage is loaded
  (`NothingCalledYet`).
* `NothingIsForgottenUntried` (`TriedBeforeForgotten`), from `Accounts`: what a run
  is about to delete was executed or has used up its tries (`BatchesAccounted`),
  and what a process has spent on an invocation is its retry count and at most
  one more (`AttemptsCounted`).
* `NothingIsLate` (`NotLate`), from `Timely`: the list is in the order of the
  times but for what is due, because a run puts retries back in front of what
  was scheduled meanwhile (`DueInOrder`); the timer fires by
  `#nextInvocationAt` (`TimerIsNear`), which is the earliest time of what is saved
  (`NextIsEarliest`). It assumes `StorageIsSorted`, and is false without it
  (section 3).

`AmqpSchedulerProofs` proves for every finite set of processes and commands, and
any number of starts and faults, without further assumptions:

* `TypeCorrect`, from `Bounded`: the number in the name of a queue is a counter
  that only starts raise, and copies of a command need faults.
* `NothingIsLost` (`NothingLost`), from `Held`: a consumer reads from a queue that
  is bound (`ConsumersAreBound`), and some copy of every command that has left
  its process is in the exchange, in a bound queue, delivered or settled
  (`CopiesAreTracked`).
* `CommandsAreDeferred` (`DeferredSpec`), from `Answering`, which adds to `Held`
  that a message is in the exchange no more once it was routed, that only bound
  queues hold messages and that what a consumer was given was executed
  (`RoutedOnce`, which a lost channel keeps: `MessagesReturned`), and that a command
  whose `schedule` has returned is published no more (`ConfirmedOnce`). So what the
  broker has let go of was settled, or missed, and never comes back.
* `CalmIsServedOnce` (`CalmServesOnce`), from `Calm`: a process whose calls have
  not overlapped or been cut is stopped, starting, serving or stopping with one
  setup for queue 0, or its setup runs anew, and it may have been stopped
  meanwhile, and started again; the channel, the counter, the tag, the queue and
  the consumer that such a stop leaves behind agree with that (`CalmIsOrderly`).
  A setup is never under way twice (`SetupsRunOnce`), so that it has one consumer
  (`ConsumersAreSingle`), and only on a channel that is there
  (`ConsumersAreConnected`). The property counts places in the queues; a bijection
  between them and the setups that consume gives the number (`PlacesCounted`).
* `OnceUnlessAFault` (`OnceUnlessFault`), from `Once`: as long as all processes are
  calm there is one queue (`OneQueue`), a message is in one place
  (`MessagesApart`), and a command is executed once per copy, and once more for
  each channel that is lost while the copy exists (`ExecutionsCounted`, from which
  the bound of the property follows by adding up).

`HookedCallProofs` proves for any number of plugins, and whatever each of their
hooks returns or throws in every chain, from the invariant `CallInv`:

* `TypeCorrect`: at every stage, the call and its error are what that stage works on.
* `ObjectionsHold` (`ObjectionHolds`), `HandlersSeeValidInput`
  (`HandlerSeesValidInput`), `QuietPluginsAreHarmless`
  (`QuietPluginsChangeNothing`) and `FailuresEndTheCall`
  (`FailuresAreNotSwallowed`). Each has a conjunct of its own, which says what a
  chain has collected in the middle of it: an error that a hook returned is still
  in the chain of its stage, or the call has left the way to the handler and the
  append for good (`Objections`); as long as nothing excuses it, the input that
  is on its way to the handler is the one the schema has accepted (`Inputs`);
  quiet plugins leave a chain as it was begun (`Quiet`); and a failure was
  suppressed, has ended the call, or is on its way through the hooks that may
  suppress it (`Failures`).

The assumption `HookedCallAssumption` says that `None`, which stands for
`undefined`, is no input, output or error.

`SideEffectQueueProofs` proves for every set of side effects and of groups, every
number of tries and every way in which releases differ:

* `TypeCorrect`, from `TypeInv`: a message always gets a number of its own,
  because those that are known are finitely many.
* `ReportsFollowAllTries` (`ReportedAfterAllTries`): an effect is reported as
  failed only after its handler was tried as often as configured, crashes and
  redeliveries included.
* `SideEffectsAreNotForgotten` (`NothingForgotten`): whatever crashes, a side
  effect that was called has a message somewhere, or its events, or its report,
  or has escaped in one of the three ways the property names.
* `SideEffectsAreResolvedOnce` (`ResolvedOnce`), from `OneWayInv`: as long as the
  process lives, a side effect is not queued, or has one message, or one
  callback, or is over, and never two of these.

The first two of these properties are not inductive either: a message carries
its count across the broker, so the invariant `QueueInv` relates the count of
every message to the tries there were (`InTransit`), the stage of every delivery
to its tries and to the appends it still awaits (`UnderWay`), and says what a
consumer that was cut off leaves behind (`LeftBehind`).

`ProjectionRegistryProofs` proves for every set of versions:

* `RegistryTypes` and `CacheIsCurrent` (`QueriesSeeActive`), for any number of
  calls of the interface that overlap. The types need `InHand`: behind its
  await, a call holds the projection and the configuration it goes on with.
* `ConfigurationCanBeLoaded` (`StartsAgain`), `ActiveProjectionIsThere`
  (`ActiveIsThere`) and `AcknowledgedCallsAreDurable` (`AcknowledgedIsDurable`)
  for calls that are awaited one after the other (`OneCaller`), with processes
  that end between any two steps. They rest on `RegistryInv`: a registered
  projection is where its version says and was not stopped (`MapInv`); a
  suspended call still finds the map as it left it (`CallInv`), which another
  call could undo; nothing survives in memory (`NothingInMemory`).

With two callers the last three are false, as the code has it: `add`,
`setActive` and `remove` are not serialised, and each writes the whole
configuration. The constant `None` is assumed to be no version and no projection.

Only model-checked are:

* all liveness properties, which are out of TLAPS' reach;
* `UpcastIsValid`, `RoundTrip` and `StepsAsSpecified` of `EventCasting`: what it
  computes is recursion over schemas, and would need induction over them.

The runs check no other property that is not proved. `NeverEarly` and `NothingLost`
are proved beside the refinements of the schedulers, which the runs check
instead.

## 5. What is left out, and why

* In `CommandExecution`: the hooks of plugins, which `HookedCall` has; empty arrays of
  events, which reach no stream; the content of events and states, beyond
  which events a state was computed from; errors are told apart only as
  conflict, gone, rejected and anything else.
* In `ProjectionRun`: the choice of the handler in `Projector`, events that
  match no handler, queries, and the exit of the process on an error, which
  is one of the ways to `End`. One side effect per event.
* In `ProjectionRegistry`: projections of other names, which share nothing but
  the configuration row; `Woltage.stop` is one with the end of the process.
* In `HookedCall`: what hooks do to the context of a call and to the state of an
  aggregate; the stages of the hydration and the append, which
  `CommandExecution` has.
* In `EventCasting`: null and nullable schemas, which neither `analyze` nor
  `transform` distinguishes; formats of strings; types without an analyser
  (records, tuples, dates and others, which pass both as they are);
  the limit of the recursion depth; schemas that are not Zod's.
* In `LocalScheduler`: a scheduler without storage, more than one callback, and
  a second `subscribe` in the same process.
* In `AmqpScheduler`: a broker that restarts (the messages are not persistent,
  the exchange and the queues are durable), errors of a channel that nobody
  handles, and the times at which commands are due: the delayed exchange has
  them.
* In `SideEffectQueue`: the length of the delays, and how values are written to
  a message and read back.
* In `StoreTable`: how the stores convert values, how they find a row that is not
  identified by one text, the creation and the removal of tables, and the
  transactions of PostgreSQL, which the projections do not use.
* `executeCommand` and `scheduleCommand` as side effects are one call of what
  `CommandExecution` and the schedulers model. The bus of the composed event
  store and its log are not in the repository; of `append` and then `publish`,
  `SideEffectQueue` has the part that a caller can notice.
* Validation, the configuration and imports of modules are pure functions, or
  run once before anything else does.

## 6. What could follow

* The composition of `ProjectionRegistry` with `ProjectionRun`: `SwitchActive`
  and `AddAgain` are what the first one hands over to the second one.
* A query that is under way while its projection is replaced or removed.
* The broker of the AMQP scheduler with restarts, once the code says which
  messages have to survive one.

# Wardx in TLA+

Wardx is a telemetry, remote-configuration and experimentation service: SDKs
(Node/core, C#/Unity, Swift) record events, metrics and logs, and talk to one
server over a single sync endpoint; administrators change configuration and
experiments over MCP. This directory models the parts of it whose correctness
depends on order, time, failure or concurrency, checks the models with TLC and
proves the safety properties with TLAPS for every value of their parameters.

Paths below are relative to the repository root; `server/`, `core/` and `node/`
stand for `packages/*/src/`.

## 1. The system

### Components, their state and their operations

| Component | State it keeps | Operations | What makes it correct |
|---|---|---|---|
| Historical aggregation, `server/aggregation/history/*` | open minute buckets in memory, which of them are dirty | ingest a frame, pending, acknowledge, prunePersisted, merge rows | nothing is counted twice or forgotten between memory and SQLite |
| Persistence coordinator, `server/control/PersistenceCoordinator.js` | marks, write health, compaction candidates | mark, flush, retry, compaction timer, close | every frame reaches a final hour and day, whatever fails once |
| SQLite state store, `server/storage/SqliteStateStore.js` | minute/hour/day tables, watermarks, project state, journal | one transaction each | finalized rows are immutable; pruning never runs ahead of a rollup |
| Mutation journal, `server/control/MutationJournal.js`, `ControlStateChange.js` | project state, its version, the last changes | commit, rollback | no lost update; entries replay; a rollback restores exactly its paths |
| Control service, `server/control/ControlService.js` | the published catalog and config | setters, deletions, experiment operations | every published state is valid |
| Config repository, `server/config/*`, `server/roles.js` | one snapshot and the view of each role seen so far | resolve roles and rules, answer a poll | a version and a context name one content |
| Experiment ledger, `server/storage/ExperimentLedger.js` | one row per assigned unit, totals, decisions | ingestBatch (two passes), expiry, decision | each unit counts once; decisions are final |
| Retention ledger, `server/storage/RetentionLedger.js` | first day, activity mask, first touch and first conversion per subject, labels | ingestBatch, query | the report does not depend on the order of arrival |
| Ingest pipeline and sync endpoint, `server/ingest/*` | none of its own | read the body, authenticate, validate, capacity, evidence, history, answer, in that order | a refused envelope leaves nothing behind; an answered one is everywhere |
| Node SDK, `node/WardxNode.js` over `core/WardxCore.js` | event buffer, pending frames, two promise chains, loss counters | event, snapshot, sync, flush, shutdown | no silent loss; `flush()` tells the truth; order |
| SDK core, `core/WardxCore.js`, `core/metrics/*`, `core/buffers/*`, `core/config/*` | series, buffers, drop counters, sticky assignments | record, capture, resolve a value, apply a configuration | nothing is lost or doubled by a capture; a drop is reported; a goal has its exposure |
| C#/Unity client, `clients/csharp/Runtime` | as the Node SDK, over threads, and retained counters in a file | record, snapshot, sync, suspend, stop, shutdown | a retained increment survives a kill and counts once |
| Swift client, `clients/swift` | the same over an actor | the same | the same |
| Live aggregation, `server/aggregation/FrameAggregator.js` | minute windows, live instances, persisted log rollups, all in memory | ingest, query, prune, forget a name | a window says what was sent, whatever the order of arrival |
| Recent clients, events, logs, `server/clients`, `server/events`, `server/logs` | three bounded rings | touch, push, rebuild | the newest, each once |
| Server lifecycle and gates, `server/server.js`, `server/mcp/http.js`, `server/capacity/*` | running requests, slots, connections, stages of stop | admit, finish, start, stop | every slot comes back; stop completes and saves what was answered |
| JSON sidecars, `server/control/persist.js` | debounced best-effort files | mark, write | atomic replacement |
| MCP, CLI, set-up, monitor, recovery | none that outlives a request | dispatch, file I/O | pure functions of one request |

### How they interact

- A client posts an envelope of frames. `syncHandler` checks it, then
  `IngestPipeline` prepares its history, asks `PersistenceCoordinator` whether
  that many pending minutes fit, commits the evidence of experiments and of
  retention in one SQLite transaction, and only then commits the history in
  memory and marks it for the next flush. The answer carries the configuration
  if the client's version is not current.
- The coordinator's timers turn marks into flushes; a flush is one synchronous
  call made of many transactions.
- An administrator reads a project and sends a mutation with the version that
  was read; `MutationJournal` compares and swaps inside a transaction, then the
  result is published to the config repository.
- `ControlService` asks the experiment ledger before it changes a plan, and
  tells it afterwards when a plan is disabled or enabled again.
- After the commit the project's live views take the same frames, and what a
  catalog change unlists is forgotten in them.
- An SDK captures what its application recorded into frames, and its delivery
  loop sends them; configuration comes back with the answer and decides the
  experiments that later calls are assigned to.

The server is one JavaScript process: a synchronous call is atomic unless the
process dies in it. What interleaves is requests, timers and promises, between
one `await` and the next; what fails is transactions, posts and the process. The
C# client runs on the application's threads: there a section under a lock is
atomic, and nothing else.

### What is hard

The list, with the line where each bites and the properties that would catch it,
is `hazards` in `PROJECT.json`. In short: late frames against finalization and
pruning; a flush that stops half-way and is retried, or is followed by a restart
that remembers less; delayed and repeated mutations; rollbacks of rollbacks
across a journal that forgets; two passes over a batch that must agree; evidence
that arrives after the decision; joined promises that answer for work that had
already begun; buffers and ledgers at their limit; evidence in any order;
requests that wait for a body while the process stops; envelopes of several
instances on realigned clocks; captures between any two calls of an application;
a client killed while its retained counters are in flight.

## 2. The modules

| Module | Models | Proofs |
|---|---|---|
| `Rollups` | abstract: what the historical pipeline promises, without buffers, tables, timers or a clock | |
| `History` | historical aggregation, the coordinator's flush, the bucket tables, start, stop and crash | `HistoryProofs` |
| `ControlState` | the algebra of changes (`diff`, `apply`, retention of the journal) | lemmas of `JournalProofs` |
| `ProjectConfig` | pure: what makes a configuration valid; what of it a client is sent | |
| `Journal` | administrators, compare-and-swap, rollback, publication, polling clients | `JournalProofs` |
| `Experiments` | an experiment's plan, evidence, decision and shipping; also extends `ControlState` | `ExperimentsProofs` |
| `NodeSdk` | delivery from `event()` to the server, `flush()`, `shutdown()` | `NodeSdkProofs` |
| `Retention` | the retention ledger and its report | `RetentionProofs` |
| `IngestServer` | the process: requests, gates, pipeline, flush timer, stop, kill, start | `ServerProofs` |
| `LiveViews` | minute windows, log rollups, the three rings, fed by several SDK instances | `ServerProofs` |
| `SdkCore` | what an SDK records between two captures; assignment, exposures, goals | `SdkCoreProofs` |
| `RetainedClient` | the tasks of the C# client and its retained counters | `RetainedClientProofs` |

The modules meet at these points. `IngestServer` abstracts what `Experiments`,
`Retention` and `History` model in detail: an envelope carries what each ledger
will say of it, and history is the set of envelopes a minute counts. `NodeSdk`
takes frames as sets of events; `SdkCore` models what fills them. `LiveViews`
takes the frames that `IngestServer` has accepted, with the configuration that
`Journal` publishes reduced to its two lists of names.

`MC*` modules give TLC the constants of an instance. Operators that only a
mutant uses sit before the definition they corrupt and are commented as faults.
`map` in `PROJECT.json` names the source lines of every definition.

### History

State. `mem` and `dirty` are `HistoryAccumulator.states` and `.dirty`; `marked`
is the history mark of the coordinator; `hourCand` and `dayCand` are its
`compactionCandidates`; `minuteRows`, `hourRows`, `dayRows` the tables and
`minuteMark`, `hourMark` the watermarks; `pc` and `work` say where
`_writeHistory` stands. A row is one count (all kinds of rows merge by addition)
and the histogram bounds of one series. The count of an hour is kept per minute
of origin, which tells a minute that is missing from one that was added twice.

Actions. `Ingest` is `IngestPipeline.accept` for one frame: the check of its
time, of its bounds against its own minute, of the number of pending minutes,
then commit and mark. A flush is `FlushBegin`, `SaveChunk` (one slice, one
transaction), `ScheduleHour`, `Acknowledge`, `FinalizeMinutes`,
`CompactHour`/`DeferHour`, `CompactDay`/`DeferDay` and three prunings.
`TransactionFails` can hit each of them, `CompactionThrows` is the error that
merging or an immutable row raises, `Crash`, `Close`, `Exit` and `Restart` are
the life of the process. The clock and the ingest path stand still during a
flush, because the code runs it to completion; a crash does not.

Properties. `FinalRollupsAreExact`: a final hour or day counts every accepted
frame of its period exactly once. `NoImmutableConflict`: a flush never tries to
change a finalized row. `MemoryCoversOpenWindow`: memory holds all of a minute
that can still grow, since saving replaces the row. `SavedStaysReadable`:
pruning never removes the last copy. `PendingWorkIsScheduled`: no bucket waits
for a compaction nobody will run. `CleanStopSavesAll`. `ImplementsRollups`: the
whole pipeline refines `Rollups`, where saved minutes map to `durable` and
finalized rows (pruned ones too) to published totals. `EventuallyRolledUp`:
under fairness every accepted frame that no crash takes away reaches a final
day.

### ControlState, ProjectConfig and Journal

State. A project's JSON tree is a function from paths to values; a path is a key
of an object that always exists, or a field of an object that can come and go
(its `Holder`). `state` and `version` are the row of `project_state`, `changes`
the journal, `sent` every request that was ever prepared - a member can arrive
now, later, again or never. `roleViews` is the cache of `ConfigRepository`,
`profile` what each SDK client says of itself, and `cfg` its configuration with
the version it came under and the profile it was asked for with. The ghosts
`history` and `origins` remember the content of every version and the request
that made it.

`ProjectConfig` has no state. `ValidSnapshot` is `validateProjectState`: roles
of every key, rules and their conditions, experiments and their plans, goals
that name one experiment to every client, constraints on every value a key can
take. `RoleView` and `WireSnapshot` are what `ConfigRepository` makes of a
snapshot for a role and for a client. The constant operator `Snapshot` of
`Journal` says which configuration a control state holds; the journal is
generic in it, as `MutationJournal` is in `applyChange`.

Actions. `Prepare` is an administrator reading a version and deciding on an
edit, an experiment (`Allowed` checks the keys it varies), a deletion from
`catalog.persistLogs` or a rollback; `Commit` is `_mutate` or
`rollbackConfigChange` when it succeeds (otherwise it throws and changes
nothing) and publishes to a new repository without cached views. `Poll` caches
the view of the client's role and sends the configuration unless the client
holds this version with this context; the answer may be lost. The context is a
hash of the content and the content stands for it. `SetAttributes` changes what
rules look at; `Restart` loses the cache. A mutation without a difference throws
(`ControlStateChange.js:67`), hence `Apply(state, d) # state`.

Properties. `NoLostUpdate`, `OneSuccessPerVersion`, `JournalIsRecentHistory`,
`EntriesReplayHistory`, `RollbackRestoresItsPaths`. `ServedConfigIsValid`: a
rollback leaves as valid a state as an edit, though it never met the checks of
an edit. `ClientVersionIdentifiesConfig`: a client holds what the version it
names held for the profile it asked with, and is left without an answer only if
that is the current content for its current profile.

### Experiments

State. `st` is the control state as far as one experiment is concerned, `changes`
the halves the journal retains, `rows` the assignment ledger, `totals` and
`faults` its totals, `decision` the terminal decision, `flight` the rest of the
batch that is being ingested, `due` whether `earliestAnalysisAt` has passed.

Actions. `ingestBatch` admits a batch by `_preflight` and the capacity check,
`RejectBatch` refuses it as a whole, `AcceptExposure`, `AcceptGoal` and
`CountOnly` are `_ingest` of its next event. `upsertExperiment`,
`setExperimentEnabled`, `shipExperiment`, `rollbackConfigChange`, `Decide` and
`AnalyzeAgain` are the operations of `ControlService`; `setExperimentEnabled`
may die between its commit and what it tells the ledger. `AnalysisDue` and
`RetentionElapses` are time.

Properties. `TotalsMatchLedger`, `PreflightAgrees` (what the first pass lets
through the second accepts), `LedgerWithinCapacity`, `ShippedIsWinner`,
`DecisionIsFinal`, `AcceptedEvidenceStands`.

### NodeSdk

State. `buffer`, `snapshot`, `pending` and `sync.rest` are the stages an event
passes; `chain` holds the syncs that have not started, `snapQueued` the queued
snapshot; a call of `flush()` awaits a sync by a ticket, the number of syncs that
will have started when it runs. `losses` is `_deliveryLosses`. Ghosts:
`received`, `fresh`, `confirmed`, `lossesBefore`.

Actions run from one `await` to the next: `SnapshotStart`, `SnapshotDone`,
`SnapshotFails`, `SnapshotIdle`, `SyncStart`, `SkipSync`, `TakePending`,
`NothingToSend`, `PostNext`, `PostLast`, `PostFails` (the server may or may not
have received the frames), the two timers, `event`, `flush`, `shutdown` and
`LateAnswer`.

Properties. `NoSilentLoss`: an event that is neither on its way nor received has
raised the loss count since it was recorded. `FlushIsHonest`: `{ ok: true }`
means that everything recorded before the call (and before `shutdown()`)
arrived. `DeliveredInOrder`, `ShutdownIsFinal`; under fairness
`EveryCallResolves` and `EventsLeave`.

### Retention

State. `users` (first day and mask of active days), `touches`, `conversions`,
`channels` and `goals` (the registered labels), `userCount`, `dropped`, `salt`,
and `batch`, the rest of the transaction that is under way. Ghosts: `seen` and
`reached`, all that was ingested. A label is a number in the order of labels;
`(over_cap)` is 0, because `(` sorts before every character a label may have.

Actions. `ingestBatch` starts a batch and settles the salt: an event with another
salt throws and the transaction takes back the whole batch, which is a stuttering
step. `RecordActivity` and `DropActivity` are `_activity`, `RecordConversion` and
`DropConversion` are `_conversion`, of the next event.

Properties. `ReturnsAreExact`: cohort and returns of a report are what the
received activity amounts to, in any order, with any repetition.
`ConversionsAreExact`: conversions, orphans and repeats likewise.
`FirstTouchStands`: the channel is that of the earliest touch.
`SubjectsAreCounted`: every subject takes one place, all limits hold.

### IngestServer

State. `phase` and `body` say where the handler of each request is; `syncActive`,
`mcpActive`, `connections` are the gates and the MCP handler's connections;
`stopping`, `stop`, `awaited`, `storeOpen` the stages of `wardx.stop()`;
`exposures` and `activity` whose evidence is stored; `held`, `disk`, `unsaved` the
history in memory, on disk and the difference between the two; `dirtyKinds`,
`timer`, `compaction`, `writeHealthy` the coordinator. Ghosts: `acked`,
`refused`, what was answered since the start.

Actions. One turn of the event loop each: `Turnaway`, `SyncArrives`,
`McpArrives` (a request up to the wait for its body, or its refusal at a gate),
`BodyFails` (timeout, abort, too long), `Ingest` (everything from the body to
the answer, in the order of the code: decoding, authorization, capacity, the two
ledgers in one transaction, history, mark), `McpCall`, `McpReturns`,
`FlushSucceeds`, `FlushFails` (none or some slices written), `CompactionTick`,
`Probe`, the five steps of stopping, `Crash` between any two turns,
`CrashInIngest` between the committed evidence and the history, `Start`.

Properties. `LeasesMatchHolders`: however a request ends, each gate counts
exactly those that hold a slot. `StoreOutlivesItsUsers`: the store is closed
when nothing is left that could use it. `EvidenceAndHistoryAgree`: answered is
in both ledgers and in history, refused is nowhere, and nothing on disk lacks its
evidence. `CleanStopKeepsAcked`; under fairness `StopSettles` and
`UnsavedIsRetried`.

### LiveViews

State. `windows`, `instances`, `rollups` are `FrameAggregator`'s maps, the middle
one in its insertion order; `clients`, `ring`, `logs` the three recent lists,
`ring` with its buffer, next index and size; `catalog` the two served lists of
names; `delivered` when each SDK instance captured last. A frame's content is a
list of rows (a counter, a gauge, an event, a log line ...). Ghosts: every item
`accepted` since the start (a frame, then its rows, each with its frame's times,
its instance and the list of persisted names it met), the envelopes in
`arrivals`, when each name was last `forgotten`, and the rows `inspected`.

Actions. `Sync` is one envelope of one instance: frames that were captured on
the instance's clock, which is realigned at each answer, with some of them lost
on the way; `commitIngest` in full - admission of series, merge of each kind of
row, experiments, log rollups, role and window counts, pruning, rings. The code
walks an envelope four times, once per part of it that it writes (the aggregator,
the rings of events and of logs, the history of another module); since no walk reads
what another writes, the model walks its items once (`Ingested`). A frame's rows
are walked in the order of its list, where the code takes the kinds one after
the other: rows of two kinds meet in no entry. Catalog
changes list and unlist a name as `ControlService` does it, one of them by a
rollback, which forgets nothing; `Restart` empties the views. The names of the
specification (`ViewsInit`, `ViewsNext`, `ViewsSpec`) differ from those of
`IngestServer`, so that one module can prove things about both.

Properties compare the views with the reference definitions at the end of the
module, which read the same answers off the ghosts: which rows are counted where,
which is the latest, which series came first. `WindowsAreExact`:
a window holds of every series and name all that was sent, or the series was
refused and the row is counted as dropped. `RollupsAreExact`: a rollup counts
what came since the name was last forgotten. `RingsHoldTheNewest`: index
arithmetic of the rings, order of the clients, and that the aggregator's map is
exactly the live instances, in the order on which its pruning relies.
`SettledWindowsStand`: a role of a window that was complete changes only through
an instance that was not live or whose clock stepped back.

### SdkCore

State. `experiments` and `assignments` (the resolver's map in insertion order,
the assignments of one subject a set), `events` and `logs` (the buffers),
`series`, `rejected`, `internal` (drops that no frame has reported yet). Ghosts:
`captured`, `recorded`, `attempts`, `dropped`, and `renewals`, how often an
assignment was forgotten.

Actions. One per call: `LogCall`, `Record` (the four kinds of metric),
`ConfigGet` (assignment and exposure), `ExperimentGoal`, `Capture`,
`ApplyConfig`. `VariantAt` is the assignment of a bucket to a variant; the
instance's assumption `SharesOfSmallExperimentsAreFair` compares it with the
weights for every allocation and every three weights up to 3.

Properties. `DropsAreReported`: every call to `event` and `log` is captured,
buffered or counted, and a full log buffer never gives up a line for a lesser
one. `CapturesAddUp`: frames and live values make up what was recorded, wherever
the captures fell. `GoalsAreProvable`: a goal leaves only behind its exposure,
or that one was dropped and counted. `ExposedOncePerStay`: no second exposure
without an eviction or a changed experiment; memory is bounded.

### RetainedClient

State. `pending`, `flight`, `dirty`, `file` are `RetainedMetrics` and its file;
`buffer`, `opened`, `frames`, `hand` the stages of an event; `snapshot`,
`snapshotQueued`, `queuedSync`, `sync`, `awaited`, `left` the two task queues;
`stopped`, `closed`, `shutdown` the end. A unit is one increment, made once, so
that counting it twice shows. `gap` is how far `_seq` has moved under a frame
that is being split. Two ghosts say where a unit may end other than at the server:
`refused` has those given up for good, because the server rejected their flight or
because no frame can hold the row of their series (`Oversized`; the splitter drops
it, and the answer to the rest commits the flight); `stranded` has the flight that
an exception left open.

Actions. A section under the lock, or a step between two awaits: the calls of
the application (`Inc`, `Event`, `FlushAsync`, `Suspend`), the two timers, the
snapshot task (`SnapshotStart`, `SnapshotCapture`, `SnapshotCommit`,
`SnapshotFails`), the sync task with its two passes (`SyncStart`,
`TakePendingFrames`, `PostOk`, `PostFails`, `NoFlight`, `BeginFlight`,
`BeginFlightThrows`, `FlightReceived`, `FlightOk`, `FlightRejected`,
`FlightFails`), `ShutdownAsync` and what follows it, `Stop`, `Crash`, `Restart`.
Wherever the file is written, the write may fail, and the state stays dirty
(`Save`), or an exception that `RetainedMetrics.Save` does not catch ends the
caller, with the state no longer marked dirty (`SaveThrows`): the sync is over,
the snapshot fails, `Suspend` queues nothing, `Stop` does not stop, `ShutdownAsync`
fails and leaves the transport open. If it comes from the constructor
there is no client, and the model stays down. `BeginFlightThrows` is the one
exception that leaves something behind: `SendRetained` opens the flight, splits
and traces it before its `try` block (`WardxClient.cs:533-537`), so a throw of
either, or of the write, ends the sync with the flight open; `BeginFlight` opens no
other until the process is restarted, and each sync goes on without (`NoFlight`).

Properties. `RetainedSurvives`: an increment that was written once is in the
file, delivered or given up for good, at every instant a kill may come.
`CountedTwiceOnlyInDoubt`: it counts twice only if a flight that carried it
failed or it was read back after a restart. `TakeTurns`: the snapshot task and a
flight never take the same sequence number; a sync sends the only flight there is,
and when none does, the open flight is the stranded one, as it was.
`ShutdownSendsAll`: when `ShutdownAsync` resolves after a good sync, everything
recorded before the call was delivered, or given up for good or counted as lost.
Two exceptions are those of the code: events that a failed snapshot had not
captured (`missed`), and increments while a flight is stranded.

## 3. The runs

| Run | Instance | Shows |
|---|---|---|
| `history_safety` | one day of 2 hours of 2 one-tick minutes, 2 frames, 2 histogram shapes, 1 failing transaction, 1 crash or stop, clock to 9 | the final rollups are exact, no work is forgotten, a clean stop saves all, and the refinement of `Rollups` |
| `history_live` | the same day, one histogram shape, clock to 8, with fairness | `EventuallyRolledUp` |
| `journal_safety` | a key with roles, a rule and a constraint, an experiment with a plan and another one with its goal, two log names; a client of 3 profiles; journal of 2, 3 requests, 4 versions | no lost update, replay, rollback, valid and identified configurations |
| `experiments_safety` | 2 plans, 2 variants, 3 units for 2 rows, a trusted and an untrusted source, batches of 1 and 2 events, 3 mutations | exact totals, agreeing passes, only winners shipped, final decisions |
| `sdk_safety` | 2 callers, buffer of 1, 2 pending frames, snapshots split in 2, 2 events | no silent loss, honest `flush()`, order |
| `sdk_live` | 1 caller, with fairness | every call resolves, events leave |
| `retention_safety` | 3 subjects for 2 places, 2 channels and 2 goals for 1 place each, a window of 2 days, 4 events | exact cohorts, returns and conversions, first touch |
| `ingest_server` | 2 requests, each with one of 8 envelopes or for MCP, 2 minutes, a gate of 1 each, 1 pending batch, 2 starts, with fairness | gates, stages of stop, agreement of ledgers and history, `stop()` settles, the unsaved is retried |
| `live_views` | 3 instances of 2 roles, two contents that meet in every kind of series and a third, 3 frames in 3 envelopes, rings of 2, 2 series a metric, 2 changes of the catalog or one restart | windows, rollups and rings are exact, complete roles stand |
| `sdk_core` | 2 subjects and room for 1, 2 experiments in 2 configurations, every kind of metric, buffers of 1 and 2, 6 calls | captures add up, drops are reported, goals are provable |
| `retained_client` | 3 increments, one too large for a frame, and 1 event, of which 2 are recorded; 1 kill, failed write or throwing write; any exception between opening a flight and its `try` block | retained counters survive and count once, tasks take turns, shutdown sends all |
| `sdk_goals` | as `sdk_core` | violates `GoalsHaveTheirExposure` (finding) |

Each property of a passing run has a mutant in `PROJECT.json`: a plausible bug in
one definition under which TLC finds that property violated in that same run, so
the instances are large enough for each property to be at stake.

Some properties are stated and proved but belong to no run, because a proof says
more: the type invariants, `NoImmutableConflict`, `MemoryCoversOpenWindow`,
`SavedStaysReadable`, `OneSuccessPerVersion`, `JournalIsRecentHistory`,
`LedgerWithinCapacity`, `AcceptedEvidenceStands`, `SubjectsAreCounted`,
`ShutdownIsFinal`.

### Bounds and why they are enough

Every limit that TLC needs is a constant named `Max...` and commented as a bound.
They keep the interesting case and cut its repetition:

- History. A calendar of one day has every boundary once: minute into hour, hour
  into day, accepted age across each. The clock runs until all three retentions
  have passed. One failure and one stop place a fault between any two
  transactions; two frames put a late one against an early one. The safety
  invariant is inductive and proved for all values, so a longer run adds nothing.
- Journal. A capacity of 2 with 3 changes makes the journal forget, and lets a
  rollback be rolled back. One client suffices: clients meet only in the cached
  view of a role, which the same client also meets with other attributes. The
  profiles are two roles and, for one, two values of what a rule looks at.
- Experiments. One unit more than there are rows, batches with the same unit
  twice, goals before, after and without their exposure; 3 mutations reach
  edit, ship and rollback of either. Units are interchangeable (symmetry).
- NodeSdk. A buffer of one overflows with two events; two callers join each
  other's sync. Callers are interchangeable (symmetry; not used with fairness).
- Retention. Each limit is hit by the event after it; days lie at distance 0, 1,
  2 (the window), 3 (beyond it); two labels tie at one moment. Subjects are
  interchangeable.
- IngestServer. Gates of one are full with the second request; two requests meet
  in every pair of awaits, and with the flush timer, each stage of `stop()`, and a
  kill. The envelopes are one for each way through the pipeline; one of them
  updates more minutes than may wait. A second start finds what the first left.
- LiveViews. Three frames make a pair and a late one in any of two minutes; one
  instance has a clock that can be right or behind, so realigning may step back.
  Rings of two wrap with the third row, and a name leaves in between. One name is
  listed for inspection, so that its leaving empties the ring; that a ring of which
  some rows stay is compacted and refilled in order is for `RingsAreNewest` to prove
  (the run with two names passes as well, in about four minutes). Two changes unlist a name and
  list it again; a restart is tried without them, as it leaves no view. Nothing
  more happens once the envelopes are spent, as no property is at stake then.
- SdkCore. Six calls: two captures around recordings, or a configuration, an
  exposure, an eviction or a new configuration, a goal and the captures between.
- RetainedClient. Two units are of one flight or of two, one of them may be too
  large for a frame, or one unit and one event interleave; a kill or a failed or
  throwing write in between any two steps. With one record and two faults (a kill
  in the flight that a restart began) the properties also hold. The units a frame
  can hold are interchangeable (symmetry).

Deadlock is checked where the system always has a step left (`history_*`). The
others say `CHECK_DEADLOCK FALSE`: the bound on requests, mutations, calls or
envelopes ends a behaviour, or the process or client has been shut down and need
do nothing more. That nobody waits on anybody for ever while a server stops is
`StopSettles`.

### Fairness

`history_live` assumes that the clock runs, that a marked flush is run (the timer
is re-armed by every mark and by every failed flush), that the maintenance timer
marks again, and that a stopped server is started again. `Tick` is strongly fair
only because the model stops the clock during a flush; the machine's clock needs
no such help. Failures and crashes are bounded and not fair. `sdk_live` assumes
that timers fire, that a snapshot's promise settles (compression and
serialization end), and that a post ends, which `httpTimeoutMs` guarantees. It
does not assume that posts succeed.

`ingest_server` assumes that a wait for a body ends, because `readBody` arms
`bodyTimer` before it; that a tool call returns; that an armed flush timer fires,
each flush either fails or gets through and does not fail for ever (strong
fairness of `FlushSucceeds`); and that each stage of `stop()` goes on once what
it awaits has settled. Requests, kills and calls of `stop()` are not fair. Nothing is
assumed of `RetainedClient`, `LiveViews` and `SdkCore`, which check safety only.
`RetainedClient` has no liveness to check: a retained flight is not opened while a
snapshot is being split, and nothing in the code keeps that from being so at
every sync.

## 4. What is proved

Every safety property that the passing runs check, invariants and action
properties, for every value of the constants, in eight modules of proofs (every
one checked to the last leaf):

- `HistoryProofs`: `TypeCorrect`, `ExactRollups`, `NoConflict`,
  `MemoryIsComplete`, `NothingSavedIsLost`, `CleanStop`, `NoWorkIsForgotten` and
  `Implementation` (History implements Rollups). The invariant `IInv` relates memory, tables and
  candidates: what is not dirty is saved; an open destination still has all the
  sources it lacks; a finalized one can no longer receive any. The properties are
  not inductive alone: that a final hour is exact needs that no minute of it was
  pruned before it was compacted, which needs the order of the retentions. That
  no work is forgotten rests on `Tasks`: in the middle of a flush, what is neither
  marked nor a candidate is what the flush still has to schedule.
- `JournalProofs`: the properties of Journal, for any configurations, profiles
  and capacity. First what the operators of ControlState do: `Diff` and `Apply`
  invert each other, applying a change keeps a state well formed, the journal
  keeps its most recent end. `JInv` adds that every version has its content
  (`Lengths`), that a rollback's halves are its target's (`Halves`), that a
  request carries the content of the version it names (`Prepared`), that a
  cached view is that of the current snapshot (`ViewsAreCurrent`) and that a
  client's configuration is that of its version and profile (`Configured`):
  without the views a poll could hand out an older content under a newer version.
- `ExperimentsProofs`: the properties of Experiments. `EInv` adds that the rest of
  the batch in flight would still pass `_preflight` and still fits - why two
  passes agree for batches of every length - and that no retained change can mark
  a variant as shipped but the winner - why no chain of rollbacks can.
- `NodeSdkProofs`: the safety properties of NodeSdk. `SInv` says that later stages
  hold younger events (`InOrder`), that a loss falls into the window of the calls
  it concerns (`LossesGrow`), and where each event is that a caller waits for
  (`Answers`): it is sent before the awaited sync ends, or a loss is counted.
- `RetentionProofs`: all properties of Retention. `RInv` says that the rows are
  exact, not only the bits a report reads, because the next event may shift the
  mask; `MergedIsExact` is the heart of it. Refusals are for good, so no row is
  built from a part of what was received.
- `ServerProofs`, about `IngestServer`: `ServerTypes`, `NoSlotLeaks`, `StoreIsClosedLast`,
  `RecordsAgree`, `CleanStopLosesNothing`, for any finite number of requests and
  any limits. `Stages` says what each stage of `stop()` leaves behind: from the
  drain on, active requests are among those it awaits, afterwards there are none
  and no timer either; that the store is closed last is not inductive without it.
  `RecordsAreSettled` (a request that is anywhere on record is over) keeps later
  steps from undoing `Evidence`, and `MemoryAgrees` (what is not marked unsaved is
  the same on disk) turns an empty queue at the end of `stop()` into `CleanStopKeepsAcked`.
  The proofs about the process and about the views it feeds share a module, as
  the two components share a process; neither uses a lemma of the other.
- `ServerProofs`, about `LiveViews`: `ViewsTypeCorrect`, `WindowsExact`,
  `RollupsExact`, `RingsAreNewest`, `SettledStand`, for any rows, bodies, clock
  errors, names and limits. `ViewsInv` relates each view to the ghosts, and
  every step to it is one more item, so the core is one lemma per view on what
  an item does to it: `CountsPut`, `LogsPut`, `MergedPut` (one per kind of
  series: `CounterPut`, `GaugePut`, `HistogramPut`, `DistinctPut`), `RingPush`,
  `BoundedAppend`. `InductiveSet` carries them along the items of an envelope
  (`ViewsIngested`).
  Two conjuncts are there because the properties are not inductive alone.
  `RefusedAreFull`: a series that was refused finds its metric full for good, so
  none that was refused once is let in later with part of its rows. And `Bounded`
  keeps, beside a list, the entries that it is the tail of: that a client which
  syncs again moves to the end, and drops nobody who belongs there, cannot be
  read off the rows alone. `RingPush` is the index arithmetic, through the wrap;
  `RingForget` says that emptying the ring and pushing the rows of the other names
  leaves those, in order; `FreshLive` that the walk of `_prune`, which stops at
  the first instance that is not stale, drops all stale ones, because `TouchLive`
  keeps the map sorted by last sync. `SettledStand` follows from what an item
  cannot touch (`RoleViewKept`): only an item of its role and minute changes a
  role's view of a window.
- `SdkCoreProofs`: `TypeCorrect`, `DropsReported`, `CapturesSum`, `ExposedOnce`,
  `GoalsProvable`, for any subjects, experiments, series, recordings and limits.
  `DropsInv` adds that something was dropped from the logs only if the buffer is
  full since, so that a line appended later cannot be a lesser one. `SeriesInv`
  splits each kind of series into what the frames have and what is live, with
  the part of the recordings that is since the capture. `RememberedInv` is the
  shape of the assignments through eviction and `applySnapshot`; on it rest
  `ExposedInv` (a pair that is remembered has used up the exposure of its stay,
  one that is not has one left) and `GoalsInv` (each remembered assignment has its
  exposure in the stream or among the refused rows): neither property is inductive
  without the assignments that the next call may use. `InductiveSet` stands for
  induction over naturals, which gives the recursive functions `Remaining` and
  `SumOf` their values.
- `RetainedClientProofs`: `ClientTypes`, `SavedIncrementsSurvive`,
  `IncrementsCountOnce`, `TasksTakeTurns`, `ShutdownLeavesNothing`, for any
  increments and events and any number of faults. `TasksInv` relates the two
  queues: the final sync has nobody behind it and awaits every snapshot there is,
  and the clock is known where a pass relies on it. `LedgerInv` says that an
  increment is in one place of memory and one of the file, and that an open flight
  is the one its sync sends or, without one, what an exception stranded: without
  the second half a flight left open could be taken for that of the next sync.
  `PromiseInv` follows what was promised when
  `ShutdownAsync` was called through capture, frames and the hands of the final
  sync; it rests on `TasksInv`, because a second pass is due exactly if the first
  did not know the time.

Assumptions. The named `ASSUME`s of each module type the constants. Beyond that,
`Journal` starts from a valid state (`BootstrapIsValid`; the server refuses to
start otherwise), polling clients have passed `validateEnvelope`
(`ProfilesAreAccepted`), and an SDK is sent at most one experiment of an id
(`SdkCoreAssumption`; the server keeps them by id). The theorems
of `HistoryProofs` also assume `SettingsOrdered`: the skew allowance does not exceed the
accepted age of a frame, and each retention is at least that of the tier below.
`loadConfig.js` checks these settings one by one, as integers of at least 1, and
never against each other. Without the assumption TLC finds two counterexamples:

1. With `clockSkewAllowanceMs` above `maxAcceptedPastAgeMs` a minute is dropped
   from memory while its row is still open, and is compacted into an hour that is
   finalized without the rest: `FinalRollupsAreExact` fails.
2. With the minute retention above the hour retention, a restart finds minutes
   whose hour was pruned and compacts them again: `NoImmutableConflict` fails.

The defaults of the server satisfy `SettingsOrdered`.

Only model-checked:

- the liveness properties (`EventuallyRolledUp`, `EveryCallResolves`,
  `EventsLeave`, `StopSettles`, `UnsavedIsRetried`): temporal reasoning under
  fairness is out of the prover's reach;
- `SharesOfSmallExperimentsAreFair`: sums of weights, for small experiments only;
- what the operators of `ProjectConfig` compute: they are definitions, and runs
  and proofs use them as such.

## 5. Where code and documents disagree

One disagreement has a run, and `findings` in `PROJECT.json` quotes its lines:

- A full event buffer drops the exposure row of an assignment that the resolver
  has marked as exposed. The drop is counted, the mark stays, and the subject's
  goals leave without their exposure, which `docs/PROTOCOL.md:179` excludes; the
  server refuses the envelope they are in (`sdk_goals`).

For these the claim is a definition of its module that no run lists. To see the
counterexample, make it the only `INVARIANT` (or, where marked, `PROPERTY`) of
the configuration named:

- `BoundsRejectedAtIngest` (`History`, `MCHistory.cfg` with 3 frames):
  histogram bounds that differ between two minutes of one series are accepted
  (`HistoryAccumulator.js:160`), and the compaction of their hour throws on every flush
  (`HistoryBucket.js:134`); finalization and pruning of this and later projects
  stop with it. `docs/PRODUCT_ROADMAP.md:270` says they are rejected.
- `UnlistedNameIsGone` (`Journal`, `Journal.cfg` with
  `BootstrapLogs <- MCReversed`): `delete_persist_log` removes another name when the configured
  list is not sorted and nothing was published yet (`ControlService.js:197`).
- `PlanIsFrozen` (`Experiments`, `PROPERTY`): a rollback replaces a plan that
  already has trusted exposures (`ControlService.js:703`).
- `ExpiredRowsFreeCapacity` (`Experiments`): rows whose retention has
  elapsed still count against `ledgerMaxRows`, because the server never calls
  `pruneExpired` (`ExperimentLedger.js:116`).
- `FlushAnswersForAll` (`NodeSdk`): after `shutdown()`, `flush()` answers `ok`
  for events that are never sent (`WardxNode.js:119`).
- `FlightsAreSettled` (`RetainedClient`, `RetainedClient.cfg`): `WardxCore.cs:372-376`
  asks of the caller of `CaptureRetainedFrames` to end every flight with
  `CommitRetained` or `AbortRetained`. `SendRetained` does so from its `try` block
  on (`WardxClient.cs:537`), but splitting the frame (`WardxCore.cs:391`), an
  exception of `Save` other than the two it catches (`RetainedMetrics.cs:128`) and
  a tracer (`WardxClient.cs:535`) throw before it. `RunSync` counts a sync error
  (`WardxClient.cs:484`), the flight stays open, and retained counters are delivered
  again only after a restart.
- `OverviewListsAllowlisted` (`LiveViews`): a rollback that unlists a log name
  publishes (`ControlService.js:700-718`) without forgetting its rollup, as
  `deletePersistLog` does (`ControlService.js:185-204`); the overview goes on
  showing it (`mcp/tools.js:51`, `mcp/tools.js:210`).
- `FilterIsTheRoles` (`LiveViews`): with a role filter the totals of a window are
  those of all roles (`FrameAggregator.js:759-769`; `mcp/tools.js:427`).

Smaller ones, found while reading and without a definition:

- The retention ledger resolves a tie of first touches to the lowest label "in
  any arrival order"; when the label that came first found no place, `(over_cap)`
  keeps the tie even against a lower label that is registered. `FirstTouchStands`
  states what holds.
- A frame whose rows could not be serialized is dropped with its events counted,
  but not its metrics and logs.
- When two observations tie for the largest, an SDK keeps the exemplar of the
  later one and the server that of the earlier, if the later has none; each is
  modelled as it is.
- A window that was reported complete can gain frames from an instance whose
  clock is realigned backwards; `SettledWindowsStand` makes the exception explicit.
- `ARCHITECTURE.md:88` and the server's README (line 754) say that reads are
  bounded by the configuration: only the stdio server does that; over HTTP it is
  the requests that are.
- When `persistence.close` fails, `stop()` rejects, its promise is kept, and what
  was dirty stays so with no timer: a second `stop()` answers with the first
  failure.
- Without a caller or reader: the lifetime experiment map of `FrameAggregator`,
  `windowsSnapshot` and its `replace*`, and the JSON sidecars of `persist.js`
  (`docs/HARDENING_ROADMAP.md:121` still has shutdown flush "aggregate, experiment,
  and log state").
- In the C# client a retained flight that spans several envelopes is sent again
  whole when a later one fails, without any answer being lost
  (`CountedTwiceOnlyInDoubt` counts that as doubt); and a snapshot that throws
  before it captured anything during `ShutdownAsync`, as when reading the RSS
  fails, leaves events behind that no loss count shows (`missed` in the model).
- Delivery of retained counters is "at-least-once" (`RetainedMetrics.cs:11`), but a
  row that no frame can hold is dropped by the splitter (`FrameBuilder.cs:308-331`),
  committed with the rest of its flight and counted only in the number of dropped
  rows that the frame itself reports (`FrameBuilder.cs:346`; `Oversized` in the model).

## 6. What is left out

Inside the modelled components:

- History: byte limits of pending history, the individual kinds of rows,
  queries. `compactionCandidates` is walked in any order instead of insertion
  order, which allows more behaviours than the code has.
- Journal: audit fields and identifiers; `replaceSnapshot` (no caller in the
  server). The bootstrap state is version 1. An edit reaches the state through
  the paths it sets; that a setter refuses a malformed argument on its own is
  left to the validation of its result.
- ProjectConfig: formats and sizes of names and values; JSON objects and arrays
  are compared for equality only; the order of experiments, which decides nothing
  here and is `SdkCore`'s subject.
- Experiments: one experiment with a conversion outcome; every counter that
  counts against health is one number; the statistics choose among the verdicts
  they can reach; plans differ as a whole.
- NodeSdk: metrics and logs only make frames without events; answers that are
  2xx without `{ ok: true }`, malformed configurations, the disabled client and the
  tracer. The losses that `flush()` compares are read at the end of its sync,
  as the code does.
- Retention: argument checks of `query`, maturity of a horizon, the grouping of a
  report by channel; `dropped.channels`, which only answers the caller.
- IngestServer: what a tool call does (one step here); diagnostics and the wording
  of answers; the sink; one project. An envelope is sent once: what a repeated one
  does is `Experiments`' and `Retention`'s subject.
- LiveViews: ranking, derived statistics and paging of a report; sketches are
  vectors of two registers; query filters of the recent lists.
- SdkCore: sizes in bytes, histogram buckets, validation of names, the
  identity that retention events carry, internal traffic counters.
- RetainedClient: the kinds of retained series and their limits, sketches of
  retained distincts, a corrupt file, the times of a resumed window, WebGL (one
  thread). A 2xx without `{ ok: true }`, which the code takes for success, committing
  the flight without aligning the clock (`WardxClient.cs:630`, `WardxClient.cs:706-708`):
  this server never sends one. What overflows or is too large leaves a snapshot as any
  subset of its events and those waiting, where the code drops the oldest frames
  first; it is counted either way. Internal counters make a frame by themselves, so that a captured
  frame may have no event.

### Not modelled

- The stdio server and its `QueuedConcurrencyGate`: its tools do synchronous
  work between acquire and release, so that a queue never forms.
- JSON sidecars (`control/persist.js`): nothing marks the kinds it writes.
- Configuration, set-up, monitor, recovery, stress and packaging tools: sequential
  parsing and I/O. What `loadConfig.js` leaves unchecked is `SettingsOrdered`.
- SDK transport, settings and tracing: external I/O and constants; a failing or
  unanswered post is an action of the clients.
- The Swift client: the protocol of the C# client over an actor. `RetainedClient`
  is written from the C# sources and says nothing about the Swift ones.
- The statistics of an analysis, validation of catalog entries and envelopes:
  pure functions of one input, each replaced by the outcomes it can have.
- Sinks are append-only output; project and credential registries are filled at
  start-up and never change.

## 7. The plan

Done, in this order. First the server's durable state, which is what a user
cannot repair: History with Rollups, Journal over ControlState, Experiments,
NodeSdk, Retention. Then what surrounds it: IngestServer, because answers, gates
and `stop()` decide what reaches the ledgers; LiveViews; SdkCore, which fills the
frames; RetainedClient. Then proofs of SdkCore, and ProjectConfig with the served
configuration in Journal. Last LiveViews, restated along the items of an envelope
so that its exactness could be proved. All have their safety theorems.

Next:

1. **One abstract delivery specification** that NodeSdk and RetainedClient are both
   shown to implement: what was recorded is on its way, received or counted.
2. **Swift client**: compared with RetainedClient action by action.

## 8. Running it

    tlc -config MCHistory.cfg MCHistory      # and so on, see section 3
    tlapm HistoryProofs.tla                  # and so on, see section 4

Runs take from a few seconds to about three minutes (`live_views`); the proofs
from half a minute to seven minutes (`ServerProofs`).

# Formal models of rustyera-web

rustyera-web is the frontend of a text-game runtime. A Vue/Pinia store drives a
runtime actor through a bridge: in a browser the actor is WebAssembly in a Web
Worker, in the desktop and Android builds it is native Rust behind Tauri IPC.
The store sends commands, pumps the actor for batches of messages, projects
them on the screen and answers the requests the actor makes of its host
(services, storage, SQL, exports).

Almost all of the frontend is single threaded and almost all of its handlers
are asynchronous. What is hard to test is therefore the order in which handlers
resume: between two `await`s nothing else runs, and at every `await` anything
may. The models take one *turn* (what runs between two awaits) as the atomic step.

## 1. Inventory

| Component | State it keeps | Operations | Hard behaviour | What makes it correct |
|---|---|---|---|---|
| Runtime pump (`stores/runtimePump.ts`) | `#ready`, `#transitioning`, `#timer`, `#pumping`, `#handlingBatch`, `#idleWaiters` | schedule, clearTimer, waitUntilIdle, submitAndHandle, submitResponseAndHandle, #pumpOnce | waiters resumed in any order, a late timer, errors inside a drive, submissions made by the batch handler itself | one drive at a time; no waiter forgotten; no handler waits for its own batch; the pump is never forgotten |
| Session transitions (`runtimeStoreActions1.ts`, `3.ts`) | the transition flag, `projectOpen`, `projectLoading`, `projectSelecting`, the session | load (open), reload, restart, return to title, session replacement, error recovery | one boolean lock shared by operations that await dialogs, drives and IPC; failures inside failures | nothing drives the bridge under an operation; every path releases the lock and schedules the pump; no lease survives its session |
| Store wiring (`runtimeStore.ts`, `2.ts`, `6.ts`) | message ids, pending commands, fault state | send, dispatch of every runtime message, handleError | replies that overtake acknowledgements; rejections matched by id | each rejection reaches the owner of its command |
| Service requests (`runtimeServiceRequests.ts`, `runtimeServices.ts`, `runtimeHtmlServices.ts`) | the active requests, the epoch | begin, cancel, enterEpoch, reset | a handler that answers after its request was cancelled or its epoch ended | a response is sent at most once and only under an active lease |
| Presentation projection (`runtimePresentation.ts`, `core/presentation.ts`) | staged and published frame, revisions, input transition | snapshot, delta, present, observation barrier, begin/cancel/complete transition | the visible frame is frozen while the canonical one goes on | revisions never go back; what is published was a state of the runtime; a frozen frame thaws |
| Input (`runtimeInput.ts`, `runtimeRejections.ts`) | the one pending input, the wait it answers, its retry, the undo | submit, settle, updateWait, closeWait, reject, undo | the id of an input is known only after its acknowledgement; one retry | an input answers the wait the player saw; at most one is pending |
| Configuration (`runtimeConfiguration.ts`, `runtimeClientPreferences.ts`, `runtimeStoreActions2.ts`) | the pending two-phase update, the application of the preferences, the startup that waits for both | beginUpdate, prepared, committed, reject, reset, migrate, apply | a check before an await, a second update or a reset after it; a reply before the id it is matched by | one owner per update; what is saved is what was committed; the startup goes on |
| Exports and imports (`runtimeExportTransfer.ts`, `runtimeStoreActions4.ts`, `runtimeImport.ts`, `runtimeCompiledCache.ts`) | one slot for the active export, its offset, its file; the diagnosis that waits for the slot | begin, ready, chunk, finish, cancel, retry | a chunk of a cancelled transfer; a write that outlives its transfer; many ends, each of which must hand the slot on | a file holds exactly one transfer's bytes in order; a diagnosis that locks the game ends |
| Debugging, devices, viewport (`runtimeDebugRequests.ts`, `runtimeStoreActions5.ts`, `runtimeViewport.ts`) | grants, pauses, pending observations | debug commands, device events, viewport reports | observation barriers that overtake layout | a pause is always released; an observation sees the frame it asks for |
| SQL provider (`platform/sqlProvider.ts`, `sqlStorage.ts`, `sql.worker.ts`) | provider generation and epoch, the operation queue, the revision chains, the worker's live and durable database | handle, execute, publish, settle, reset | three places hold the revision: the worker, the chain, the durable pointer; cancellation and failures between any two | an acknowledged commit is durable; a rolled back one is not; the three agree when idle |
| Project scan pool (`browserProjectScanPool.ts`, `browserProjectScan.worker.ts`) | worker slots, their pending request, the shared next index | scan, receive, close, abort, fallback | a worker's crash, an abort and a file read interleave | every scan settles; a result is complete and in order; no worker outlives the scan |
| Browser storage (`browserProjectStorage.ts` and relatives) | files of the project in OPFS or a picked directory | read, write with precondition, delete, list | writes are not atomic, tabs share the directory | a compare-and-swap never loses an update |
| Runtime worker (`workerClient.ts`, `runtime.worker.ts`) | lifecycle, pending calls, the actor | request, close, restart, fail | replies of an old worker, calls during create | every call settles once, with the reply of its own worker |
| Browser bridge, native bridge (`browserBridgeBase.ts`, `browserBridge.ts`, `tauriBridge.ts`) | the committed project, the counters of operations and sessions | open, restart, resubmit, dispose | the project, the session or the worker changes at any of the many awaits of an operation | the runtime holds the committed project, whole, or none |
| Native host (`src-tauri/src`) | the slots of `AppState` behind their mutexes, the SQL host and its cancellation, the idempotency cache | pump, storage requests, create session, open, reload, native SQL | threads: nested locks, retirement while a statement runs, cancellation against publication; eviction of remembered results | no two commands wait for each other; everybody sees one project; a committed write is never reported cancelled |
| Bridge crates (`crates/`) | the actor handle | submit, pump, submit-and-pump | - (sequential) | - |
| Audio, layout, components | media and DOM state | playback, measurement, rendering | timing of the browser | - |

**Interactions.** The store is the pump's only client; the pump calls back into
the store (`handleBatch`, `handleError`), which starts service handlers, storage
and SQL calls through the bridge; their answers come back as commands through
`send` and hence through the pump. Session operations take the pump's transition
flag, except that which prepares a session without a project. The provider of SQL talks to its own worker and writes through the
bridge's storage. The bridge's long project operations run beside the pump;
in the browser they talk to the runtime's worker through its client, natively
each is a command on a thread that shares the host's mutexes with the pump.

`PROJECT.json` lists the hazards of this code at their lines, each with the
properties that cover it or the reason why none does.

## 2. Modules

| Module | Models | Lines of the repository |
|---|---|---|
| `RuntimePump` | the pump coordinator with its loops, service responses, message skips and waiting clients | `stores/runtimePump.ts` |
| `DriveLock` | what the coordinator promises: a lock on the drive | - |
| `SessionTransitions` | the store's operations as the coordinator's clients (EXTENDS `RuntimePump`) | `runtimeStoreActions1.ts`, `runtimeStoreActions3.ts`, `runtimeServiceRequests.ts` |
| `SqlPublication` | the SQL provider, its worker and the conditional writes to storage | `platform/sqlProvider.ts`, `sqlStorage.ts`, `sql.worker.ts`, `browserProjectStorage.ts` |
| `PresentationProjection` | the visible and the staged frame, as functions on the projection | `stores/runtimePresentation.ts`, `core/presentation.ts` |
| `RuntimeInput` | the pending input, message skips, retries, rejections and the events that reach the projection (EXTENDS `PresentationProjection`) | `stores/runtimeInput.ts`, `runtimeRejections.ts`, handlers of `runtimeStoreActions1.ts`, `2.ts`, `3.ts`, `6.ts` |
| `ProjectSettings` | the two-phase update of the configuration, the preferences, and the startup that waits for both | `runtimeConfiguration.ts`, `runtimeClientPreferences.ts`, `runtimeStoreActions2.ts`, `5.ts`, `browserBridge.ts` |
| `StateExports` | the one slot of the exports, its transfers, files and the diagnosis | `runtimeExportTransfer.ts`, `runtimeCompiledCache.ts`, `runtimeStoreActions4.ts`, `runtimeProjectFileExport.ts`, `runtimeDiagnosis.ts` |
| `ProjectScanPool` | the scan of a project's files by workers, or by the main thread | `platform/browserProjectScanPool.ts`, `browserProjectScan.worker.ts` |
| `WorkerClient` | lifecycle, calls and restarts of the runtime worker's client | `platform/workerClient.ts` |
| `WorkerCalls` | what that client promises its callers | - |
| `ProjectOperations` | the bridge's open, restart and resubmission with the worker that serves them (EXTENDS `WorkerClient`) | `browserBridgeBase.ts`, `browserBridge.ts`, `runtime.worker.ts`, `projectFileWorker.ts`, `crates/era-web-wasm` |
| `NativeHost` | the commands, mutexes and slots of the native host, and its SQL statements | `src-tauri/src/lib.rs`, `native_sql.rs`, `storage/execution.rs` |
| `SessionProofs`, `RuntimeInputProofs`, `SettingsProofs`, `ExportProofs`, `SqlProofs`, `ScanProofs`, `WorkerProofs`, `NativeProofs` | theorems | - |
| `MC*` | instances for TLC | - |

### RuntimePump and DriveLock

A task is an activation of the loop `#pumpOnce`, a service response in
`submitResponseAndHandle`, a message skip in `submitAndHandle`, or a client in
`waitUntilIdle`. `pc[t]` is the await the task is suspended at; a turn runs from
one await to the next. `pumping`, `handlingBatch`, `timer`, `ready`,
`transitioning` and `idleWaiters` are the private fields; `awaiting` is the task the running
batch handler awaits, a skip or a client. Everything the rest of
the store may do between two turns is one action, `ClientTurn`: it changes
`ready` and `transitioning`, arms or clears the timer as `schedule` and
`clearTimer` do, and grants and retires leases. So what holds of `RuntimePump`
holds of any store that uses the class through its methods.

`DriveLock` is the abstract specification: acquire, project, projected, give up.
`ImplementsLock` maps the holder to the task in the driving region.

### SessionTransitions

The clients get a program: return to title, reload, restart, open and the
recovery of a failed open. `phase[o]` is the await an operation is suspended
at; `kind[o]` which it is. `projectOpen`, `projectLoading` and
`projectSelecting` are the store's refs that enable and disable the operations:
title, reload and restart look at the transition flag before they start; an
open does not (`canOpenProject`), so it may start under any of them and take the flag a
second time, and `restartSession` does not look at `projectSelecting`. A restart
may also be the game's own (`exit_requested`); then the batch handler awaits it (`awaiting`).

`preparation` is `ensureSession`, which takes no lock at all: the session is
ready as soon as it is created, its first batch is handled beside whatever else
runs, the pump included, and only then is the pump scheduled, or does the open that waited
take the lock. `disputed` is history: since the lock was last free an open has held it with another
operation, or a session was prepared beside its holder. Until then the lock means what
the code's comments say of it; section 5 says what goes wrong afterwards.

Two awaits are taken together with their neighbours: the cleanup of a manifest import when a
session is recreated, and `prepareSessionReplacement` where a replacement has failed.

### SqlPublication

One request runs at a time (`stage` is what it awaits), the others are chained
on the provider's tail. A revision of a database is one value; it lives in the
worker's connection (`live`, `durable`), the provider's `chain`, and storage
(`blobs`, `pointer`). Every publication writes the blob, then the pointer under a
precondition, then tells the worker to accept or to go back. Aborts, resets,
a dead worker, failed and unanswered writes, the loss of the page and another
host act between any two steps. In the browser the conditional write takes two steps
(`PointerChecked`, then `Replaces`) and may end in between.

### PresentationProjection and RuntimeInput

A frame is its revision, its input wait and its redraw switch; the lines and
scenes of a frame stand behind the revision. The projection is a record
(`visible`, `staged`, and the three private flags), and each method of
`RuntimePresentationProjection` is a function on it: the methods contain no
await. `RuntimeInput` keeps the store's side of an input (`pending`, `wanted`
for `messageSkipRequested`, `sends` for the submissions awaited) and an external
runtime: `canon` is its frame, `inbox` the inputs the bridge has accepted.
One action is one event of a batch with the handler the store runs for it, the
end of a batch (`BatchEnds`, then `settle`), a step of the bridge, or an act of
the player. Whatever the store decides for an input or a skip, it reads `current(proj).wait`,
the staged frame if there is one, as `presentationProjection.current()` does; what the
player sees and may press is the visible one. `Owns` is `submit`'s question whether the
pending input is the one it has sent (by its wait), `Carries` whether it is. Player, bridge and the observations of service handlers act
between any two events, since a handler may be awaited there.

Assumptions about the runtime, which is another repository:

- a wait that was opened in a batch is not closed in the same batch, because
  inputs and the clock are sampled before the pump (`newest`);
- scripts switch redraw only while they run, that is between waits (the delta
  that carries a change of the wait may carry a switch too);
- each change of the wait is announced by `wait_changed` and may be carried by a delta as well,
  in either order, before the next change;
- the acknowledgement of a browser submission is delivered before any batch
  that saw the input (one worker port, FIFO: the comment at
  `runtimeStoreActions6.ts:257-259`), so there acceptance and acknowledgement are
  one step; native IPC keeps them apart.

The store's `phase` is read as any value that fits (`settle` may find "running"
when the runtime has no wait). Exceptions inside `handleBatch` end in the
store's fault state and are not followed here.

### ProjectSettings

An update is `prepare`, the host's write of the file, `finalize`. `Commands`
are the submissions that are matched with a reply: `sent[c]` is how far one has come
(posted, accepted by the runtime, done), `id[c]` the id the runtime gave it. What
makes this part hard is that the two come apart: on the native host the
runtime's reply can be in the next batch before `send` has returned the id, so
`Registers` (the turn after the await) and the handlers of the replies race.
The worker delivers an acknowledgement before any later batch (`Ready`).
A session begins twice: `Retires` resets what the frontend keeps, `Replaces`
creates the new runtime; the ids start again. `startup[s]` is the promise chain
of session `s`: the pending update, the preferences, the start of the game.
The configuration is the edit it comes from and its schema; an old schema is
migrated. A foreign edit of the file, a fault of another handler and a new
session disturb at any moment (`MaxDisturbances`). `astray` collects the
updates the code loses: those whose reply or reset came before their id, and one whose
place another took. The chain's microtask may be delayed arbitrarily, which
only adds behaviours. Validity of the edited values, busy flags and the storage
of preferences are left out.

### StateExports

An export is `<<kind, number>>`, the number being one that tells it from every other
export something still refers to; so late answers, chunks and writes keep the
identity they were made for, which is what the code's comparisons of ids and offsets
come to. `ex` is the slot with its phase and the runtime's side (`asked`, `wants`);
`handler` is what the batch handler awaits (a file picker, a write, the publication or the
removal of a download, the end of a failed diagnosis); `caching` are the writes of the compiled
cache, which run behind the handler; `sink` the open files, `saved` the last one published.
Everything else the slot decides is a function on `ex` (`Claim`, `Ask`,
`Request`, `Withdraw`, `Free`).

`project.calls` are the calls of `exportProjectFile` that have not begun their export: the
dialog, and the cancellation of a cache with its two awaits. The flag that disables the command is
set only when the export takes the slot (`TakesSlot`), so a second call may start among these
awaits; `crossed` remembers it. A cancellation that fails (`AbortsCache`, `UndoesProject`) leaves the cache
neither exported nor resumed. A cache the runtime must build first (`"building"`) is asked
for again when the diagnostic says it is built, so an answer to the first request no longer fits.
A full project that cannot be asked for after the import of its manifest throws through the
batch handler: its slot is `"left"`, and so is the diagnosis it was a stage of.

Taken together or left out: a request and its acknowledgement (one worker port,
FIFO); the handler's own submissions, which it does not wait for here, and requests for a chunk
that are refused (`runtimeExportTransfer.ts:133-150`); the
staging and import of the full manifest, which succeed or fail in one step;
`cancelTimelineTransfers` and the reset of a session.
A fault drops any part of the rest of its batch. The runtime answers "still preparing"
at most once in a game.

### ProjectScanPool

`loop[l]` is what loop `l` awaits (a file, its bytes, a worker's reply), `item`
the request it works on, `next` the index all loops share. `reply[s]` is the
promise of a slot: closing a slot settles it only when it is already waiting, and
on Android the bytes are read first (`BytesArrive`). The errors by request decide the
outcome in the order the code asks: abort, infrastructure (the main
thread starts anew), file. The scanner's hashing is a result or an error.

### WorkerClient, WorkerCalls and ProjectOperations

`WorkerClient` is `workerClient.ts` method by method. A caller awaits each of
its calls, so it stands for the call's id. `alive` counts the workers nobody has
terminated, which the code cannot see. `WorkerCalls` is its promise: a call
is answered once, by the worker that got it or by that worker's end.

`ProjectOperations` adds the flows of the bridge (`open`, `restart`, and
`source`, the answer to `payload_required`) and the worker they talk to. `token`
is the operation, session and worker generation a flow has begun with, and
`Current` the comparison the code makes after each await. `inbox` and `outbox` are
the two directions of the port; `Imports` and `FileTurn` are the worker's handlers that
suspend themselves, while `Handles` goes on with the next message. A project
is the sequence of its parts; `loaded` is what the runtime was given.

Left out: the calls of the pump, details of reading, caches, fonts and progress. A restart beside an open is
excluded (`Overlaps = FALSE`): the store's lock (`Locked`) does that
as long as no open disputes it (see `SessionTransitions`), and the hazard at `browserBridgeBase.ts:345`
says what depends on it. The awaits between the return of a load and its commit (the storage and the
compatibility of a packaged project, `browserBridgeBase.ts:488-564`) are one step, and the second load
after a failed import of the cache is left out. A `source` flow does
not start while a manifest is streamed.

### NativeHost

The one part with real threads. `pc[c]` is what command `c` waits for, mostly a
mutex; `lock[k]` has an owner only while its holder waits for another lock or
pumps. A critical section that takes no other lock is one step. A pump takes session, storage,
project and SQL host one inside the other; a storage request takes the middle
two; the listing of the saves session and storage. An operation that retires a project cancels the SQL
statement without these locks and then empties one slot after the other.
`stage` is the statement a pump runs: a cancelled or late one stops at its next
checkpoint, and `outcome` is the counter of `StorageExecution` the answer is
computed from. `disk` and `late` are history: what is on the disk and how many
publications were entered too late.

Operations come one at a time (`~Operating`): the store's transition lock does that as long as
no open disputes it; an open beside a restart is left out. So is `submit_project_source`
(`lib.rs:643-667`), the answer to a payload the runtime asks for. Left out as well: leaf locks (spool,
writers of cache and exports, preferences), poisoned mutexes, the synchronisation of
candidate providers, scans, exports, paths, the IPC codec and the idempotency
cache. A statement may run for ever unless it is cancelled: that SQLite stops it
after five seconds is another repository's business. A request that times out leaves the
cancellation set until the next retirement, as in the code.

## 3. Runs

| Run | Bounds | Distinct states | Shows |
|---|---|---|---|
| `pump` | 1 loop, 1 response, 1 skip, 1 operation, 2 contiguous pumps | 50,563 | one drive, no lost wakeup, no skip of a batch handler blocked by its own batch, the pump is scheduled again on every path, `DriveLock` implemented; operations and responses end |
| `session` | 1 loop, 1 response, 2 operations, 2 pumps | 420,266 | until an open disputes it the lock excludes pump and other operations, it is released on every path whatever overlaps, no lease survives, `RuntimePump` implemented |
| `sql` | 2 requests, 1 connection, 2 revisions, 2 epochs, native and browser | 175,022 | pointer and blob, worker and storage, reply and outcome agree; no update lost; no request waits for good |
| `input` | 2 acts, 2 revisions, 3 together, 3 waits, browser and native, first submission may fail | 2,847,151 | the store's frame is the runtime's; an input is taken once; transitions are shown whole; the player can always answer |
| `settings` | 2 updates, 1 disturbance, browser and native, writable and packaged | 663,814 | the runtime runs on what the file has held; a save is confirmed only when committed; updates and startups end |
| `exports` | 4 games, 2 starts, 2 chunks | 407,345 | a published or reported file is one whole transfer until calls overlap; a diagnosis that holds the slot ends |
| `scan` | 4 requests, 2 workers, 3 readers, Android and not | 90,063 | the outcome says what happened; no worker is left; the scan settles |
| `project` | 2 projects of 2 parts, 2 operations, 3 restarts, constrained or not | 222,506 | one worker; a success means the project is loaded, and it is the committed one; uploads do not collide; operations end; `WorkerCalls` implemented |
| `native` | 3 threads, 5 commands, 2 projects, 2 requests | 315,063 | one project for everybody; cancellation is truthful; commands end |
| `exit_restart` | 1 loop, 1 response, 1 operation | - | violation, section 5 |
| `settings_reset` | as `settings` | - | violation, section 5 |
| `diagnosis_waits` | as `exports`, download and diagnosis | - | violation, section 5 |

**Why the bounds suffice.** Pump: the code yields after 8 contiguous pumps;
`MaxPumps = 2` has the two cases that differ, a pump that may go on and the
last one, and the proofs hold for every bound. A task of each kind makes each of them wait for
each other; two of a kind differ in nothing the safety properties tell apart beyond what
the second operation of `session` shows, and the proofs take any number. Session: an operation's steps
depend on another only through the refs and the one flag, so two and the preparation show every
dispute; the skip, which no operation knows of, is left to `pump`. SQL: two requests are a running and a
queued one; the provider keeps no other; a second revision tells new from old,
two epochs tell a reset provider from the next. Input: two acts are an input and
one that follows it or competes with it; three waits let a retried input meet a
wait of the same kind and one of another (each of the two games of
`MCKindings` puts the change of kind elsewhere); two revisions let a frame be
staged and drawn over. `MaxActivity` leaves two
acts with one revision and one act with two; two of each, which would take TLC
hours, are left to the proofs, which need no bound. Settings: two updates are a save and a migration, or two
owners of one transaction; one disturbance is a reset, a foreign edit or a fault between
any two steps of both. Exports: two starts are an export and one that waits for, follows or
takes over from it; two chunks tell a whole file from a part. The games
let a download, a cache and a project compete, or a diagnosis with a download and a project, or with a
download and a cache, which updates of the configuration renew (there `SavedIsWhole` is not
claimed, see its hazard) and which may have to be built first.
Scan: four requests over two workers leave two queued when anything fails. Project: an open
and an operation before, beside or after it; three restarts are one for each operation and one
that is joined. Native: a pump, an operation and a third command are what a cycle of locks or a
half-installed project takes; the theorems need no bound.

**Deadlock** is checked in `pump`, `session` and `sql`. The other systems may
come to rest: a stopped runtime is not pumped any more, a closed client does
nothing, commands and exports end, and what the player may start is bounded.

**Fairness.** `SessionTransitions` is weakly fair to microtasks (a resolved promise
resumes) and strongly fair to each source of macrotasks (bridge answers,
handlers, dialogs, acknowledgements), which microtasks may disable for a while: the event loop
serves every source. This includes that a dialog is answered and that the
runtime answers a pump. `SqlPublication` assumes only that what
storage or a live worker was asked for is answered in the end (`Progress`).
`ProjectSettings`: the store's turns and each submission to the
runtime go on. `StateExports`: so do the batch handler, the host's writes, the runtime, the timer
and the dialogs (a dialog is answered). `ProjectScanPool`: a file is read or fails, a live worker
answers or fails, a settled promise resumes its loop. `ProjectOperations`: the
event loops of page and worker. `NativeHost`: a thread that can take its lock,
or goes on inside a critical section, does so; weak fairness is enough since starts and requests
are bounded, so no lock is snatched for ever; a running statement is not fair.
Starting an operation, aborting, crashing, resetting and sharing are never
fair. `RuntimeInput` claims no liveness; `PlayerCanAnswer` states of every
quiet state what a player needs.

## 4. Theorems

All are proved for every value of the constants, under the assumptions the
modules state (ASSUME). They are about finitely or infinitely many tasks, requests,
waits, restarts and so on alike, where the assumption of a module does not say finite.
Further hypotheses: `UpdatesAreKept` assumes that no other
window of a browser shares the project, and the three theorems about project flows `~Overlaps`.
The theorems about the store's operations have none: the overlaps the code permits
are states of their model, and what no longer holds there is said by the properties (`disputed`).

- `SessionProofs`, the pump. `PumpInv` is inductive: types, "pumping iff someone
  drives, and only one", "a batch is projected by the driver", "waiters only while
  pumping", "no nested wait". The conjuncts need one another: a waiter is
  resolved only by the block that ends a drive, so `NoLostWakeup` needs
  `DriveExclusive`, and a waiter that resumes claims the drive only if no other has.
  From it `TypeCorrect`, `MutualExclusion`, `ProjectionOwned`, `WakeupNeverLost`,
  `HandlerNeverBlocked`, and `Refinement`: every step of the coordinator is a step of
  `DriveLock` or a stutter. These are about `RuntimePump` alone.
- `SessionProofs`, the operations. `SessionInv` adds to it that a suspended operation is a waiter
  exactly at its barriers (`Suspended`), that the lock is owned (`LockOwned`), that a dispute is
  remembered for as long as anybody holds the lock (`Remembered`), that without one its holder
  is alone (`HolderAlone`), and that an operation that has found the drive idle under the
  lock finds it idle until it releases (`IdleUnderLock`: a loop or submission
  that finds the flag set does not claim). `OperationsImplementPump` says the
  composition is a behaviour of `RuntimePump`, overlaps and awaited restarts included, so the
  theorems above hold of it;
  `TransitionsExcludePump`, `LockAlwaysOwned`, `NoLeaseSurvives` and
  `StoreTypeCorrect` follow from the invariant. `PumpNeverForgotten` needs to know of the turns
  in between as well (`StoreOwed`): a submission that has cleared the timer is waiting for or about to
  claim a drive, or has become an ordinary one that schedules when it is acknowledged (`Owed`).
- `RuntimeInputProofs`. The lemmas say what each operation of the projection
  does to its current frame and to the ways its staged frame has to the screen
  (`Sound`). `ProjectionInv` relates them to the runtime's frame: unless a staged
  frame was discarded since the last snapshot, the current frame has the
  runtime's revision and redraw switch, and its wait when both notices are in.
  The case that is easy to miss is a delta that finds nothing staged and starts a
  transient replacement: it must set the idle flush in the same step
  (`DeltaLemma`). `NeverStranded`, `StoreFollowsRuntime` and `DeltasApply` follow.
  For `TransitionsAreAtomic`: a frame is ready only within the
  batch that made it so, and there a new wait has come or the runtime does not wait
  (`Timely`); so a ready frame of a transition asks for input (`Apt`). `IntentTakenOnce` rests
  on `IntentInv`: of an intent the runtime may still take at most one copy, and none once it
  was taken or while it is to be sent again (`Once`, `Again`); messages have the numbers of
  what was submitted (`Numbered`, `Named`). A rejection is matched with the
  pending input by number, but a first submission by its wait alone, so the
  proof also needs that while such a submission is awaited for the wait the runtime has, the
  pending input is the one it carries, without a number (`Matched`), which in turn rests on
  waits being opened in their order (`Opened`). For an older wait it need not be so: after a loss of frames
  the store may submit for it again. `InputTypeCorrect` includes that a value
  is sent again at most once. For `PlayerAlwaysAnswers`: an input is closed or to be sent again
  only when the runtime's wait is no longer its own, so the settle of an idle batch forgets it or
  sends it again (`Settled`); one that is neither has its message submitted or accepted, unless a
  number or a rejection went astray (`Outstanding`, where `Mine` is `Owns` and `Carries`); and what is
  staged but not ready while the runtime waits belongs to the input pending for that wait. Where
  nothing is under way, nothing is pending, and so nothing staged.
- `SettingsProofs`. The runtime commits what it has prepared last, whoever asks; the store asks
  only for what the host has written. `SettingsInv` says why the two are the same: the reply to a
  prepare carries what was prepared under its id (`PreparedIsPreparation`), ids are new in
  their session (`IdsAreNew`), and the handler that writes and finalizes is awaited, so no session
  is replaced under it (`HandlerIsAlone`, `HandlerHasPrepared`). Hence `RuntimeOnStored`. For
  `SavedIsCommitted` (a step property) an answer to a finalization must belong to this very
  update: the pending slot names the update whose id was registered unless that update went
  astray (`PendingIsRegistered`, `PreparationOfOwn`, `CommittedIsAnswered`).
- `ExportProofs`. A published file is whole because the chunk that publishes it follows the ones
  its file holds, if the file is still its own. `ExportInv` says so between two chunks
  (`FileInv`), while the handler awaits the write of one (`WriteInv`), when a download is whole and
  verified (`PublishInv`), and of the compiled cache,
  whose writes nobody awaits (`CacheInv`): one at a time, since the next chunk is asked for when the
  last is written, and a cache starts anew only when the cancellation has waited for the write
  left over. Late answers are harmless because an export that claims the slot is one nothing refers
  to any more; that such a number exists is the pigeonhole principle (`UnusedNumber`,
  `ClaimFresh`, `WriterFresh`). The invariant proved is `crossed \/ ExportInv`: two calls of
  `exportProjectFile` that overlap write one file, and `crossed` never clears (`CrossedStays`).
  `SavedAlwaysWhole` follows; like `SavedIsWhole` it leaves out games in which an
  update of the configuration renews the cache, which may start one beside a write.
- `SqlProofs`. A blob that is whole stays whole, so it is enough that a revision
  is whole before the pointer, a chain or a connection takes it over: what the running
  request has made sure of at each of its awaits (`Prepared`, `Publishing`), what a
  connection keeps between requests (`Kept`), and that nobody else moves the pointer between the
  two steps of the browser's write (`Undisturbed`). `DatabaseReadable`, `ShownIsDurable` and
  `NeverAnotherWorker` are parts of the invariant, `AnswersAreTrue` and `UpdatesAreKept`
  are about its steps.
- `ScanProofs`. The shared index splits the requests: beyond it nothing has been touched,
  before it each has a result, an error, or exactly one loop that works on it (`Shared`). A
  loop ends only at the end of the index or after an abort or error (`Ended`, `Causes`). So when
  all have ended without either, everything was read: `ScanIsTruthful`, `PoolAlwaysReleased`.
- `WorkerProofs`. A waiting restart is the one later restarts join, or the client is closed
  (`WaitingIsJoined`), so no two create a worker: `WorkerIsAlone`. `CallsAreKept` is the
  refinement of `WorkerCalls` under everything bridge, store and worker do. `OpsInv` adds what
  the flows rely on: one is under way at a time, and a picker that returns late finds its
  operation replaced or nobody beside it (`Alone`, `OlderToken`; here `~Overlaps` is used); its
  call is with the worker in one form, as message, awaiting handler or answer (`InOneForm`); a
  worker that is gone has left nothing (`Gone`). So what the worker has is known at each await of a
  submission (`ServesFlow`). An upload somebody abandoned may stay, but only where the session is
  replaced before the next upload (`UploadIsKnown`), and the committed project is retired before
  another is loaded (`Retired`). `LoadedAlwaysCommitted`, `SuccessAlwaysLoaded` and
  `UploadAlwaysOwn` follow.
- `NativeProofs`. A mutex belongs to exactly the commands whose place in the code holds it
  (`LockInv`); so whoever changes a slot is alone with it (`SlotInv`, with
  `OperationInv`), and nobody clears a cancellation under a statement (`SqlInv`):
  `ServesOneProject`, `CancellationNeverLies`.

Only model-checked: all liveness (`OperationEnds`, `ResponseSettles`, `RequestSettles`,
`ScanSettles`, `OperationsEnd`, `SettingsSettle`, `StagesEnd`, `CommandsEnd`), which
is out of the prover's reach. Every invariant and every step property that a passing run
checks is stated by a theorem.

## 5. Where code and statements disagree

Three runs show a disagreement; `PROJECT.json` quotes the statements under "findings".

- `exit_restart`: a restart the game asks for is awaited by the batch handler and
  waits for that batch: neither ends.
- `settings_reset`: a save whose submission is acknowledged after the reset of the session is
  registered in the next session; nobody settles it, so that project's startup hangs.
- `diagnosis_waits`: a diagnosis that waits behind a download is started only by
  some of the download's ends; after the others the game stays locked.

The models reach the following too, and their properties excuse it or their
constants exclude it, as named:

- `runtimeStore.ts:548`: an open may overlap another operation and then releases the one
  boolean lock under it, although the comment at `runtimeStoreActions3.ts:287` says the lock
  keeps the pump away; `runtimeStoreActions1.ts:150-159` prepares a session without the lock, and handles its first
  batch beside the pump (`disputed`, excused by `TransitionExclusive` and `LeasesRetired`; `PumpScheduled`
  excuses the handling of that batch).
- `runtimePump.ts:92`: a response retired between its two lease checks ends as a failed
  drive, which resets every service; `tests/runtimePump.test.ts:335` expects a cancellation.
- `sqlProvider.ts:165`: an operation of a reset provider that ends later resets its
  successor; the requests accepted since are answered `StaleEpoch`.
- `sqlProvider.ts:307`: a worker that dies while nothing is pending, or while a
  validation is, stays the provider's transport, and later requests wait for it (`dead`, excused by
  `RequestSettles`).
- `browserProjectStorage.ts:150`: the browser's write creates the pointer before it
  fills it, although `sqlStorage.ts:384` asks for an atomic replacement; an end of the page in between
  leaves a malformed pointer and an unreadable database (excused by `PointerNamesBlob`).
- `runtimePresentation.ts:48`: cancelling a transition discards what the runtime drew since
  the submission, and asks for no snapshot; `README.md:121` promises a resynchronization at gaps (`lost`, excused by
  `PlayerCanAnswer` and `CurrentIsCanonical`).
- `runtimeInput.ts:48`: `submit` asks by the wait alone whether the input that is pending after its await
  is its own. After a loss of frames the store may submit for a wait once more while the first
  submission for it is not acknowledged; the later input then gets the number of the
  earlier one's message, and a rejection of its own passes it by (`missed`, excused by
  `PlayerCanAnswer`).
- `browserProjectScanPool.ts:53`: on Android a slot that is closed while a file is being read
  registers a promise afterwards that nobody settles, so the scan never ends (excused by
  `ScanSettles`; `PoolReleased` says it happens nowhere else).
- `runtimeStoreActions2.ts:358`: a rejection that belongs to the download starts the waiting
  diagnosis a second time when its end has already done so.
- `runtimeStoreActions4.ts:227-247`: `exportProjectFile` looks at the slot before it awaits the
  old cache's write and then overwrites whoever took it meanwhile.
- `runtimeStoreActions4.ts:215-240`: a second `exportProjectFile` may start while the first awaits its dialog
  or the cancellation of the cache; the host opens one file for both
  (`browserBridge.ts:338-353`), which then holds parts of both (`crossed`, excused by `SavedIsWhole`).
- `runtimeStoreActions4.ts:431`: a request for a full project that fails after the import of the manifest is
  caught by nobody (`runtimeStoreActions2.ts:178`): the batch faults, slot and `diagnosisExporting` stay
  set (`phase = "left"`, excused by `StagesEnd`).
- `runtimeStoreActions4.ts:235-238`: where the cancellation of a cache fails, `resumeCacheAfterExport` stays
  set although no export began that would resume it.
- `runtimeConfiguration.ts:236`: a committed update whose effects throw faults the batch and does not
  settle its promise; the startup that waits for it hangs (excused by `SettingsSettle`).
- `runtimeExportTransfer.ts:42-53` and `170-180`: a ready or chunk message of an export cancelled
  in the meantime is an error, which faults the batch.

## 6. Not modelled

The table of components in `PROJECT.json` names every part with its status.

- Scripts and test harness, components, layout, canvas replay and HTML measurement, audio:
  tooling, rendering, geometry and media timing. These, telemetry and tracing are most of the
  repository's lines, so a map of the models can name only a small share of
  them; what is modelled is the part in which order, failure and time decide.
- The runtime itself, another repository. It is an external actor of the models, as section 2
  states.
- `Overlaps = TRUE` (an open beside another operation of the bridge) is not run with the passing
  properties: they fail then (hazard at `browserBridgeBase.ts:345`). The store's own overlaps are
  part of `SessionTransitions`.
- Two windows of one browser profile that share a project may lose an update between the two
  steps of the write (a hazard without a property); `SharedOn` is limited to the native host.
- The native idempotency cache (`storage.rs:424`): a retry of an evicted key writes again. Whether a
  retry can come that late depends on the runtime.
- Within modelled parts: memory databases, quotas and the provider's id; the button
  boundaries, the input undo and the reset of a session under a pending input; the contents of frames;
  teardown and dialogs of the store; the awaits and the source submission named under
  `ProjectOperations` and `NativeHost`; the limit of 32 services; storage of preferences; imports
  and traditional saves; the reading of sources, caches and fonts.

## 7. Plan

What is left, in this order:

1. `ServiceRequests`: lease, epoch, the limit of 32, duplicate identities; refines the leases
   of `RuntimePump`.
2. `DebugRequests` with the observation barriers of the viewport and device input: a pause is released, an
   observation sees the frame it asks for.
3. The manifest import and the traditional saves, as users of the exports' slot.
4. The undo and the button boundary in `RuntimeInput`; the reset of a session there.
5. `NativeStorage` (Rust): the idempotency cache with integer sizes, and conditional writes that
   `SqlPublication`'s native storage refines.

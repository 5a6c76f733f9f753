# A formal model of the ai-macos runtime

The repository is a runtime that performs operations on one macOS desktop (and
on browsers and Android devices) for several clients at once: native input,
clipboard, captures, windows, browser sessions. One process, the *runtime*
(`src/runtime`, TypeScript on Bun), owns all the state and decides who may do
what; one *native helper* (`src/native`, C and Objective-C) performs the side
effects; adapters drive Chrome, the screen, the clipboard and Android; front
ends (MCP servers, scripts) are clients over a Unix socket.

This directory holds TLA+ modules of the parts where order and failure matter,
TLC configurations that check them on small instances, and TLAPS proofs of
theorems about them for every instance. `PROJECT.json` lists components, runs,
mutants, the source lines behind each definition, findings, hazards and
theorems.

    tlc -workers 2 -config faults.cfg MCRuntimeCore.tla      # one run
    tlapm RuntimeCoreProofs.tla                              # the proofs of one module

## 1. Inventory

For every component: the state it keeps, its operations, what it talks to, what
makes it hard, and what makes it correct. The last column says where it is
modelled.

| Component (under `src/`) | State and operations | What is hard, what must hold | Model |
| --- | --- | --- | --- |
| Operation life cycle, `runtime/src/core.ts` | journal of entries, request keys (`#dedup`), admission seal, poisoned storage, recovery evidence; `runOperation`, `cancelOperation`, `reconcileCleanup`, `authorizeNativeMutation`, `sealAdmission`/`unsealAdmission`, `drainOperations`, `initializeRecovery`, `refreshStartupRecovery` | Every handler races its adapter against abort, deadline and grace; durable writes fail, time out and land late; the process dies. Effects never overlap; nothing is sent before the journal says so; an answer is final; leases are neither leaked nor dropped early; admission opens only on proof. | `RuntimeCore` |
| Resources, `runtime/src/resources.ts` | exclusive slots: free, active, quarantined; `acquire`, `prepareCleanup` with a later commit | Prepare and commit are separated by a durable write. | `RuntimeCore` (slots), `ExclusiveEffects` |
| Operation journal, `runtime/src/storage/operation-journal.ts`, `atomic-file.ts` | one file per operation; `persist`, `read`, `list` | Facts only grow; same-revision retry after a failure on either side of the rename. | `OperationJournal`, `RuntimeCore` |
| Startup recovery, `startup-held-recovery.ts`, `domain-recovery.ts`, `native-actor.ts` | receipts for the operations of dead runtimes, held-input evidence | Old native work must be over before admission opens. | partly, `RuntimeCore` |
| Held-input ledger, `storage/held-ledger.ts` | chain of snapshots of held keys and buttons | A snapshot is acknowledged before its input is posted; the acknowledgement may be lost. | `NativeExecutor` (acceptance) |
| Client sessions, `client-sessions.ts`, `client-state.ts` | sessions, bearer and resumption tokens, the client state file; open, resume, close, expiry | A credential is given out only after its snapshot is durable; one token names one session whatever write or answer is lost. | `ClientSessions` |
| Disconnect grace, `client-grace.ts` | one entry per departed lineage: timer, then cleanup | The timer, the cleanup and a reconnecting client race. | `ClientSessions` |
| Client transport and renewal, `transport.ts` (`RuntimeUdsClient`), `client-renewal.ts` | calls in flight, the credential and its remaining life, the renewal and those who wait for it | A renewal invalidates the credential of every call: it waits for them, they wait for it, and a refused call, an abort, a close or a restart of the runtime must leave nobody waiting. | `ClientTransport` |
| Browser lifetime, `reservations.ts`, `lifetime-state.ts` | exclusive reservation of a browser or device, its children, disconnect, durable state | Check, durable write, then set: two connects; recovery by physical key. | `BrowserLifetime`; `ClientSessions` has what a cleanup sees |
| Screen capture, `screen/src/adapter.ts`, `screen/src/native-driver.ts`, `native/src/capture-client.ts`, with the continuations of `continuations.ts` | capture operation, protocol task, binding with status revision and permits, record of unreleased captures | Result, deadline and reconciliation read statuses of different age; a cleanup told as complete must be true, an unknown one must stay settleable. | `ScreenCapture` |
| Authorities, `authorities.ts` | short-lived target, frame and evidence handles | Staleness and ownership by lineage; no waits. | not modelled |
| Agent view guard, `agent-view-guard.ts`, `agent-view-bindings.ts`, `native/src/view-admission` | one-time view tickets bound to the observer's cursor | Ticket checked, observer awaited, ticket checked again; again in the helper. | `AgentViewGuard` |
| Observer hub, `observer-hub.ts` | sequence, bounded history, subscriber queues | A gap is announced, never hidden. | `ObserverHub` |
| Native observer binding, `native-observer-binding.ts`, background preparation in `host.ts` | binding, attempts, what may have been left behind | A late answer creates an observer nobody waits for; the next attempt must know. | `ObserverPreparation` |
| Rotation and host, `rotation.ts`, `restart-quarantined.ts`, `host.ts`, `host-lock*.ts` | rotation phase, drain under two deadlines, retained restart, close, lock | No exit without proof; the lock outlives the helper; no admission opened under a seal. | `HostLifecycle`; start-up partly in `RuntimeCore` |
| Heartbeat, `heartbeat.ts` | activity, the beat in flight, its timer | A late failure of an ended activity must not be blamed on the next. | `Heartbeat` |
| Startup permissions, `startup-permissions.ts` | state of the flow, parallel looks | Answers of different age arrive in any order. | `StartupPermissions` |
| Server, method registry, handlers, agent methods | requests and limits | No state of their own beyond what the core keeps. | not modelled |
| Native adapter, `native/src/adapter.ts`, `session-lifecycle.ts` | request table, tombstones, mutation authorization, ledger writes, poison, rotation | Timeout against a late answer; "certainly not sent" must be certain; nothing after the seal. | `NativeSession` |
| Helper's command loop, `native/src/command_loop.m`, `input_job.m`, `operation-receipts` | control and action queues, drain, watchdog, receipts | Ready and stopped are said of work on another thread. | `NativeCommandLoop` |
| Helper's input executor, `native/src/executor.c`, `input_bridge.c` | held keys, ledger revisions, cleanup | Nothing held that is not on record, nothing released twice. | `NativeExecutor` |
| Helper's captures, `native/src/capture_router.m`, `capture/meta_capture.m`, `capture-command` | table of tasks, receipts; one stream with its timers | Three queues use one capture; the system confirms late, never, or ends by itself. | `CaptureRouter`, `CaptureTask` |
| Helper's observer, `native/src/observer-command`, `native/src/observer` | binder, observers, events, subscriptions | Main-thread work outlives its command; process numbers are reused. | `HelperObserver`, `ObserverSubscriptions` |
| Helper's inventory, `native/src/registry.c`, `macos_backend.m` | AX handles, window references, topology epoch | The world changes during the scan; a reference must not pass to another window. | `NativeRegistry` |
| Broker, framing, serialization in the helper | | Bytes and frameworks of the system. | not modelled |
| Input package, `input/src` | action plans, clipboard transaction | Rollback of a failed paste. | candidate |
| Android adapter, `android/src/adapter.ts`, `adb.ts` | ownership of a forward, instance of the browser | Other programs use the same ADB server; a killed command may still arrive. | `DeviceBrowser` |
| Page session and navigation, `shared/src/cdp.ts`, `chrome/src/cdp-mode.ts`, `wait-ready.ts` | commands by number, event waiters, network tracker | Events of the old and the new document, answers, timers and the close in any order. | `BrowserSession` |
| Chrome and window adapters; browser host and configuration | drivers | External programs. | not modelled |
| MCP front end, `mcp/src` | protocol adapters | A client, see above. | not modelled |
| Installer, `scripts/runtime-install.ts` | journal of an update, the files it switches, the doctor | A failure or a death after each switch. | `RuntimeInstall`, `InstallDoctor` |
| Legacy services, `scripts/legacy-services.ts` | plan of exact processes, those stopped and terminated | Look, signal, look: a process may end and its number pass to another. | `LegacyRetirement` |
| Shared contracts, `shared/src` | record states, gates, schemas | | states in `OperationJournal` |

How they meet: a front end opens a session (`ClientSessions`), keeps its
credential alive (`ClientTransport`) and calls a method, which ends in
`runOperation` (`RuntimeCore`). The core leases resources, writes the journal,
runs the adapter, and the adapter asks the core for leave to send each native
mutation. That goes through the session with the helper (`NativeSession`) to its
command loop (`NativeCommandLoop`), which lets the executor (`NativeExecutor`)
post input only after the runtime's ledger has acknowledged it; captures go to
the router and its tasks (`ScreenCapture`, `CaptureRouter`, `CaptureTask`). What
the user does reaches the runtime as events (`HelperObserver`, `ObserverHub`),
and an agent's action is admitted only if nothing happened to the view it is
bound to (`AgentViewGuard`). A browser has one holder (`BrowserLifetime`), who
reaches a device through a forwarded port (`DeviceBrowser`) and a page through a
session (`BrowserSession`). When a client leaves, its operations see an abort
and its lineage a grace, after which the lifetime coordinator takes its
connections down. When the host drains, it seals admission and waits for the
operations (`HostLifecycle`); when the runtime dies, the next one reads the
journal and opens admission only after receipts prove that everything old is
over, the permissions are there (`StartupPermissions`) and the observer is
prepared (`ObserverPreparation`).

## 2. Modules

**`OperationJournal`** has no state: the records of an operation as far as
anything tells them apart (state, cleanup outcome, send gate), the successor
relation of `operationTransitions`, and `Accepts(prev, next)`, which is
`FileOperationJournal.persist`'s decision about a write.

**`RuntimeCore`** models the life cycle. An element of `Calls` is one call of
`runOperation` for a native or clipboard operation and also names the operation
it creates. `pc[c]` is where its handler stands. A step is a stretch of
JavaScript between two waits for something outside the microtask queue, so each
`await` of a durable write, of the adapter or of the native status is a place of
its own, and everything between two of them is one action:

| Places of a handler | Code | Actions |
| --- | --- | --- |
| idle, resolving, then an answer or registered | `#runOperation`, core.ts:665-789 | `Submit`, `Admit`, `TargetStale` |
| registered, check, dispatching, ready | `#execute` up to the adapter, 1022-1064 | `Check`, `Ready` |
| running | the adapter's promise, 1064-1096; `authorizeNativeMutation`, 394-429 | `RequestAuthorization`, `ViewRefused`, `NativeSend`, `AdapterReturns`, `AdapterThrows` |
| verifying, committing, commit | verification and final write, 1090-1117 | `VerifyAccepts`, `VerifyRejects`, `Commit` |
| failing, releasing, release, quarantining, settle | the `catch` of `#execute`, 1118-1181 | `CatchUnsent`, `CatchUnknown`, `Settle` |
| settled | `#settle`, 1328-1335; `reconcileCleanup`, 862-943 | `Reconcile`, `ReconcileCommit` |

`Abort`, `Cancel` and `GraceExpires` are the abort signal and its guard. `queue[c]`
is `entry.durableTail` with the writes on their way; `WriteLands` (rename),
`WriteSynced`, `WriteFails` (first attempt or retry), `WriteRefused` (by
`Accepts`), `WriteStarts` and `DurableTimeout` are what happens to them, and
`AfterWrite` says where a handler goes. A write whose handler went on stays in
the queue and may still land: `Waiting` says whether anybody listens. `Seal`,
`Unseal`, `Drain`, `DrainEnds`, `Crash`, `Initialize` and the four `Refresh`
actions are the host. The host awaits the refresh that `Initialize` begins before
there is a socket or a rotation (host.ts:237): until `serving`, no call, drain, seal
or further refresh begins. Every later refresh is one of `recoverStartup`. `sent` and `live` belong to the world: a native mutation
left the runtime, and the native helper may still act or hold input for it;
they survive a crash.

**`ExclusiveEffects`** is the abstract specification: operations own resources,
act only while they own all they need, and no owner loses a resource while it
acts, not even when the process that kept the leases dies. `RuntimeCore`
implements it under the mapping of `ImplementsExclusiveEffects`
(`RuntimeCoreProperties`): owned is what the slots say, plus, after a crash,
what operations still alive in the helper needed. The life cycle therefore may
admit again only when that is empty.

**`RuntimeCoreProperties`** and **`MCRuntimeCore`** hold the properties and the
instances for TLC, **`RuntimeCoreProofs`** the theorems. The other modules named
`...Proofs` hold those of the components they extend: **`BrowserProofs`** of the
device's browser and the page session, **`ServicesProofs`** on top of it of views,
hub, host, permissions, preparation and doctor, **`ChannelsProofs`** of
heartbeat, session, command loop and capture task, **`ClientsProofs`** (on top of
**`ClientSessionsProofs`**) of browser lifetime, transport and screen capture and of
these beside the sessions, **`InputAndCaptureProofs`** of the input executor and the
capture router, and **`HelperProofs`** on top of it of the helper's observer, its
subscriptions, the inventory, and of the helper as a whole.

**`ClientSessions`** models `client-sessions.ts`, `client-state.ts`,
`client-grace.ts` and their use in core.ts. A lineage is a client; the
resumption token stays the same through every resume, so the lineage names it.
Open and resume queue in `requests` (`#credentialTail`); `StartCredential` is
the closure of `#persistCredential` up to its write, `WriteAcknowledged`,
`WriteFails` and `DurableDeadline` its three ends. `writes` and `broken` are
`FileClientState.#tail`, which stays rejected after a failure; `disk` is the
file. `grace` is `ClientDisconnectGrace.#entries`: a timer, then the cleanup
waiting for the operations it saw (`calls`), then removing the connections it
listed (`slots`). Operations appear as far as sessions see them. `Ask` begins
`runOperation`, which awaits the check of its session; `Admit` passes it and awaits the
target; `Register` enters the operation; `Refuse` is every early return. Other handlers of
the same turn may run at each of these awaits: a resume may revoke the session
between `Ask` and `Register`, and a close waits (`pending`) only for operations that are
registered when it begins. **`ClientSessionsProperties`** and **`MCClientSessions`**
are its properties and instances.

The two components meet at `runOperation`: `ClientSessions` keeps an
operation's session and abstracts its life cycle to "running"; `RuntimeCore`
keeps the life cycle and sees an inactive session as a refused call.

The other modules describe one component each and end in a block of properties.
Most of them meet the neighbours of their component as an environment that may
do whatever the neighbour's code can do; the table says what that environment
is.

| Module | State and its code | Environment |
| --- | --- | --- |
| `BrowserLifetime` | the place in memory (`#slots`), the record on disk, operations with their stage of `execute` | failing saves, aborts, a death of the runtime |
| `ClientTransport` | the calls of a client, `#active`, `#renewing`, waiters, the bearer and the rest of its life | the runtime: grants, refuses, loses or delays answers, restarts |
| `ScreenCapture` | the adapter's capture, the protocol task, the permit of the continuation registry, the driver's release key, the record of what is not released | the helper's task, by its status revisions; lost requests and answers |
| `AgentViewGuard` | views, bindings, the guard's cursor | events of the user, lost streams |
| `ObserverHub` | adapter buffer, history, subscriber queues, coverage requests | the helper's frames |
| `ObserverPreparation` | the host's background preparation, attempts, the binding | the helper of `HelperObserver`, by its answers: late, transient, unknown |
| `HostLifecycle` | rotation phase, admission, drain, restart, close, lock, startup recoveries under way | operations, an administrator, signals, a dead helper |
| `StartupPermissions` | the flow's state, looks under way, who opened admission | the user who grants and takes back; startup recoveries |
| `Heartbeat` | activity and epoch, the beat in flight, the timer | the helper's answers |
| `NativeSession` | calls, tombstones, orphans, ledger write, poison, seal, helper generations | the helper; callers that abort |
| `NativeCommandLoop` | control and action queues, flags of the job, drain, watchdog, receipts | frames of the runtime, failures of the channel |
| `NativeExecutor` | what is held, the ledger, its revisions, the store's acceptance | lost acknowledgements, posts that fail without a word, stops |
| `CaptureRouter` | the table of captures with the threads inside each | ScreenCaptureKit's callbacks |
| `CaptureTask` | one stream from begin to release, its timers, the encoder | the system: late, wrong or no answers |
| `HelperObserver` | the binder, its observers, main-thread work, history, unsent events | the main thread, which may be slow; the user |
| `ObserverSubscriptions` | AX observers, windows and their count | processes that end, numbers that are reused, late callbacks |
| `NativeRegistry` | AX handles, the scan with the kinds it read, references, layouts of displays | windows, applications and displays that change during the scan; roles, titles and displays that cannot be read |
| `RuntimeInstall` | journal, link, plist, application, loaded runtime, lock | failing commands, deaths of the installer |
| `InstallDoctor` | three deadlines and the polls | any answer of the runtime at each poll |
| `LegacyRetirement` | the plan, stopped and terminated targets | processes that end, fork, lose their port or their number |
| `DeviceBrowser` | ownership of the forward, instance, operations | the ADB server with its other clients, the cable |
| `BrowserSession` | commands by number, waiters, tracker, the navigation | the browser: old and new document, its events and answers |

Several of these names stand for functions of the code; `map` in `PROJECT.json`
names the lines behind every definition.

**`MCRuntimeCore`** and **`MCClientSessions`** hold instances of one component.
**`MCClients`** (sessions, browser lifetime, transport, screen capture),
**`MCServices`** (what runs beside the core, the scripts, device and page),
**`MCChannels`** (both sides of the channel to the helper) and **`MCHelper`**
(inside the helper) hold several components that share no variable. A run of
such a group explores each component on its own: a variable `component` is
chosen at the start, only that component steps, and the others rest in an
initial state. The states of a run are therefore the sum of its components, not
their product, and nothing is claimed of their composition. Properties of
neighbours that answer one question are conjoined under one name in the group's
module, for example `AdmissionIsGuarded == [][/\ component = "permissions" => GuardsAdmission  /\ component = "preparation" => PreparesSafely]_servicesVars`;
each conjunct is stated, with its comment, in the module of its component.

Each model module has operators marked as mutants, plausible mistakes that no
action uses. Put in the place of the definition named in `PROJECT.json`, each
makes one property fail, which shows that the property looks at that code.

## 3. Runs

All runs use `CHECK_DEADLOCK FALSE`: the system stops when every call is
answered and nobody asks for more.

| Run | Instance | Asks |
| --- | --- | --- |
| `faults` | one call, two failed writes, one crash, drain | The journal precedes every effect (`WriteAhead`) and every success (`CompletedIsDurable`); late answers change nothing (`AnswerIsFinal`); a clean drain is quiet (`DrainCleanIsQuiet`); types. 350,000 states. |
| `restart` | two calls, one for the desktop, one for the desktop and the clipboard, one crash | No overlapping effects within and across runtimes, also as a refinement of `ExclusiveEffects`; leases follow the operations through cancellation, grace, quarantine and reconciliation (`LeasesFollowOperations`, `QuarantineLiftsOnProof`); a record that says "complete" is true; admission opens only on proof. 830,000 states. |
| `same_key` | two calls with one key and payload, one crash | Native input is sent through at most one of them (`AtMostOnceEffect`). 143,000 states. |
| `progress` | one call, one failed write, one crash, drain; fairness | Timers alone settle the operation and end the drain. 225,000 states. |
| `sessions` | one client: three sessions, one connecting call, a failed write, a crash; six operations on one browser; three users of a transport; one capture with two losses | The token resumes exactly one session in memory and on disk; an operation registers under a durable session, and no later resume revokes it (`OperationsKeepTheirSession`); no grace ends under a connected client; a browser has one holder (`BrowserIsHeldOnce`); renewals starve nobody (`ClientIsServed`); what is believed of a capture is true and can be settled (`CaptureIsSettled`). 532,000 states. |
| `sessions_progress` | one client, two sessions, a call that connects a browser, two failed writes, one crash; fairness | Every open and resume is answered, the cleanup ends, and what a departed client left is removed or recorded. 59,000 states. |
| `services` | ten components, see the constants below | A rotation exits and frees its lock only on proof, and admission opens after a drain by nothing but a recovery (`RotationIsSafe`); device and page sessions tell the truth (`BrowserIsTold`); one view serves one action (`ViewsServeOnce`); no event is missing without a word (`EventsAreNotLost`); a preparation opens admission only after a grant and with one observer (`AdmissionIsGuarded`); updates and retirements can be undone or end whole (`AdministrationIsSafe`); the doctor's patience is bounded (in `ServicesTypeOK`). 1,360,000 states. |
| `channels` | one session with a mutation, an observer and a control call; two actions in the loop; one capture; four beats; fairness | The session stays aligned through late answers, seal and rotation (`SessionIsAligned`); the helper's words are true (`LoopKeepsItsWord`); a capture that says it is over is over (`CaptureEndsClean`); the heartbeat blames nobody else (`HeartbeatIsTrue`); silence ends (`SilenceEnds`). 196,000 states. |
| `helper` | one key; two captures, one of them a layout, under three queues; two prepares; two process numbers; three windows of one application | Held input is on record and ends released (`HeldInputIsSafe`); captures are freed once and never in use (`CaptureOwnership`); the observer's word is true (`ObservationIsTrue`); so is the inventory (`InventoryIsTrue`). 1,020,000 states. |
| `doc_*` | the smallest instance that shows it | Three statements of the documentation and the tests that the code does not keep; section 6. |

**Bounds.** `MaxFaults` limits failed attempts of durable writes: two are needed
because the core retries a write once, so two make a write fail for good.
`MaxCrashes = 1` gives two runtime processes; what a second crash adds is a
history of histories, which recovery treats alike. `MayDrain` switches the drain
off where the question is not about it. Two calls are enough for the pairwise
properties of leases and keys: an operation meets another one only through a
shared slot or a shared key. In `ClientSessions`, `MaxWaiting` limits the
credential requests waiting at once (two, so that one starts behind another's
write), and the number of `Sessions` bounds opens and resumes: three allow a
resume of a resumed session. Liveness is asked with one call, which connects a
browser, and with two failed writes, so that two attempts in a row may fail.

In the other modules the names beginning with `Max` and ending in `Faults` bound
what goes wrong (a failed command, a silence, an abort), the others what the
environment does of its own accord. They are chosen so that the case a property
is about happens, and a little beyond:

* `LifeOps` are connect, child, disconnect, recover, connect and shutdown, in any
  overlap: a second connect with every earlier operation unsettled.
* Three `Users` of a transport: one whose call is in flight, one who renews and
  one who waits for it; one of them reads (and repeats a refused call), one
  needs a long credential.
* `MaxShotLosses = 2` and `MaxLateChanges = 1`: a lost answer and a lost repeat,
  and a task whose status changes after it drained.
* `HostOps` two, `MaxHostFaults = 3`: a drain that overruns, a restart that
  fails and a dead helper together.
* `MaxInstallFaults = 2`, `MaxInstallCrashes = 2`: an update that fails, a
  rollback that dies, a recovery that fails or dies.
* Two `LegacyServices`, one failing command and two moves of the world: a target
  that ends and one whose number passes to another while they are stopped.
* Three operations on a device with two faults and one move of other programs:
  an abandoned operation beside its successor, with the port replaced between.
* `MaxPolls = 2`, `MaxRequests = 1`, two faults in a page session: a readiness
  read before and after the load, a request open between them.
* In the helper: two `MaxInputs` and two stops let a late stop meet the next
  action; a layout of two pictures is the smallest with a partial start; two
  prepares and three events over a history of two reach its bound; two births of
  a process number are one reuse; three scans see a window come, stay uncertain
  and go.
* The three deadlines of the doctor are counted in polls (two and three), and
  `PrepareAttempts = 3` is the code's own number.

**Reductions.** `LiveView` leaves out of a state what no step and no property
reads again (the signal, staged record, grant and view failure of an ended
handler). `EverySession` permutes sessions; both are used in safety runs only.
`Quiet` in `RuntimeCore` and `ClientSessions` and `NothingSettled` in
`ClientTransport` give the microtasks between two waits priority over timers and
I/O, which is what the event loop does.

**Fairness.** Only what the code itself drives is fair. In the runtime: resolved
promises run; the deadline, the grace and status timers, the durable write timer
and the drain's end fire. Nothing is assumed of adapters, the store, the native
helper, callers or the removal of a connection: all of them may hang. In
`ClientSessions` the timers have strong fairness because a due microtask
disables them for a moment, again and again; an event loop fires an overdue
timer all the same. Credentials that may begin, cleanups that may go on and calls that
have arrived are microtasks: the awaits of `assertActive` and `targets.resolve` wait for
nothing outside (authorities.ts:113, client-sessions.ts:178). In `channels`: a session gives up its calls at their
deadline, undoes an orphan and closes its child, while the ledger write it makes
for the helper may hang; the command loop takes what is in its queues and its watchdog exits;
an action that passes checkpoints again and again ends its sequence of inputs,
which is finite in the code (the one strong fairness there); the two timers of a
capture fire; a beat is settled by its own deadline.

## 4. What is proved

The theorems hold for every value of the constants that satisfies the assumption
named in the module of the component. Nothing else is assumed.

| Assumption | What it says, and why |
| --- | --- |
| `CoreAssumption` | no call is the absent one, request keys and needs are functions, every call needs at least one resource, equal payloads ask for equal resources: the needs are computed from the payload; bounds are numbers |
| `HostAssumption` | finitely many operations (there is a capacity), a bound on faults |
| `PermissionAssumption`, `DeviceAssumption`, `SessionAssumption` (`BrowserSession`) | bounds are numbers |
| `PreparationAssumption`, `DoctorAssumption` | bounds are numbers and at least one, as the constants of the code are |
| `ExecutorAssumption`, `CaptureAssumption`, `ScreenAssumption` | bounds are numbers |
| `HeartAssumption` | bounds are numbers, and at least one activity: the epoch of an adapter begins at 1 |
| `SessionsAssumption` | no session, call or browser is the absent one; no client is called "none", the lineage of a session that does not exist; a call uses one browser or none; bounds are numbers |
| `LifeAssumption` | every operation is of one of the five kinds and has a lineage; none is called "no", the absent one; bounds are numbers |
| `ClientAssumption` | who reads only and who needs a long credential are users; a bound on faults |
| `ViewAssumption` | bounds are numbers; no observation is called "none", the absent view |
| `HubAssumption` | bounds are numbers, with at least one subscriber and room for an event in every buffer, as the constants of the code have |
| `SessionAssumption` (`NativeSession`) | every call is of one of the four kinds; a bound on faults |
| `LoopAssumption` | bounds are numbers; no action is called "none" or "work", the absent one and what is not an action |
| `ObserverAssumption` | bounds are numbers; history and push queue have room for an event |
| `SubscriptionsAssumption` | finitely many process numbers and windows; bounds are numbers, and a process number sees at least one incarnation |
| `RegistryAssumption` | finitely many windows and sheets, each of one incarnation, a sheet of that of its possible owners; the words for "no window" and "no match" are no windows; bounds are numbers, with at least one incarnation and one epoch of displays |
| `RouterAssumption` | finitely many captures and queues, each capture asks for at least one task; one queue alone may start, cancel and release (the serial `_actions` of command_loop.m; a rotation does so from the control queue, but only while the others are empty, command_loop.m:455, and counts as the same caller), the others take results and list tasks; nothing is called "none"; bounds are numbers |

| Theorem | Statement |
| --- | --- |
| `TypeCorrect`, `LeasesFollow`, `AnswersAreFinal` (`RuntimeCoreProofs`) | types; an operation holds exactly what it asked for while it is under way or its cleanup is unresolved; the answer of a settled operation changes only from unresolved to complete cleanup |
| `EffectsStayApart`, `JournalWritesAhead`, `JournalledCleanupIsTrue`, `CompletionIsDurable`, `AdmissionIsSafe`, `OneEffectPerKey` (`RuntimeCoreProofs`) | `[]NoOverlappingEffects`, `[]WriteAhead`, `[]DurableCleanupIsTrue`, `[]CompletedIsDurable`, `[]AdmissionOpensSafely`, `[]AtMostOnceEffect` |
| `QuarantineNeedsProof`, `CleanDrainIsQuiet`, `RuntimeImplements` (`RuntimeCoreProofs`) | the action properties `QuarantineLiftsOnProof` and `DrainCleanIsQuiet`; `Spec` implements `ExclusiveEffects` |
| `TokensResume`, `OperationsKeep`, `GraceSpares` (`ClientSessionsProofs`) | `[]TokenResumesOneSession`, `OperationsKeepTheirSession`, `GraceSparesTheConnected` |
| `BrowserHasOneHolder`, `CallsAreServed`, `CapturesAreSettled` (`ClientsProofs`) | `BrowserIsHeldOnce`, `[]ClientIsServed`, `[]CaptureIsSettled` |
| `ClientsKeepTheirTypes` (`ClientsProofs`) | `[]ClientsTypeOK`, of the group as run `sessions` explores it |
| `ViewsServe`, `EventsReachTheirSubscribers`, `RotationStaysSafe` (`ServicesProofs`) | `ViewsServeOnce`, `EventsAreNotLost`, `[]RotationIsSafe` |
| `AdmissionStaysGuarded`, `BrowserStaysTold` (`ServicesProofs`) | `AdmissionIsGuarded`, `[]BrowserIsTold`, both of the group as run `services` explores it |
| `SessionStaysAligned`, `LoopWordsHold`, `HeartbeatWatches`, `CapturesEndClean` (`ChannelsProofs`) | `SessionIsAligned`, `LoopKeepsItsWord`, `HeartbeatIsTrue`, `[]CaptureEndsClean` |
| `HeldInputStaysSafe`, `CapturesStayOwned` (`InputAndCaptureProofs`) | `[]HeldInputIsSafe`, `CaptureOwnership` |
| `ObservationStaysTrue`, `InventoryStaysTrue` (`HelperProofs`) | `ObservationIsTrue`, `[]InventoryIsTrue`, both of the group as run `helper` explores it |
| `HelperKeepsItsTypes` (`HelperProofs`) | `[]HelperTypeOK`, of the same group |

For each component the inductive invariant has a theorem of its own (`InvariantHolds`
and `SafetyHolds` for the core; `SessionsAreConsistent`, `LifeIsConsistent`,
`TransportIsConsistent`, `ShotIsConsistent`, `ViewsAreConsistent`, `HubIsConsistent`,
`HostIsConsistent`, `PermissionsAreConsistent`, `PreparationIsConsistent`,
`DoctorStaysBounded`, `DeviceIsConsistent`, `PageIsConsistent`, `HeartIsConsistent`, `SessionIsConsistent`, `LoopIsConsistent`,
`CaptureIsConsistent`, `ExecutorIsConsistent`, `RouterIsConsistent`,
`ObserverIsConsistent`, `SubscriptionsAreConsistent`, `RegistryIsConsistent`); the
properties follow from it. Each step of the next-state relation, or each group of steps that
disturb the same parts, has a lemma; what several steps do alike is a lemma they
cite. TLC checked every one of these invariants on small instances before it was proved.

**The core, first part.** `IInv` is `TypeOK /\ HandlerInv /\ EpochInv /\
LeasesFollowOperations`. Leases alone are not inductive: when a handler frees or
quarantines its leases it acts on the record it staged before a durable write, so
`HandlerInv` says for each place of a handler which record is staged and with which
cleanup outcome, and that a reconciliation or an authorization under way belongs to
an operation that can have one. When a process dies and its successor reads the
journal, the proof must know that what it finds belongs to dead handlers and that a
handler that registered nothing wrote nothing: `EpochInv`.

**The core, second part.** What the journal promises depends on writes that land
later, some of them after their handler has given up on them. `FullInv` adds to
`IInv`:

* `CallInv`, per operation: `QueueInv` says what each write under way carries,
  according to who issued it; that only the oldest may be visible already; and that
  the final record of a handler that still waits for it is the youngest. `DiskInv`
  sets the journal against the place of the handler and the grant. `EffectInv` says
  that what acts on the machine was sent, was started before that, and still owes
  its leases. The claim "no cleanup is complete while the helper acts" has to be
  made of every queued write, or one that lands late would break it on disk.
* `SlotInv`: a lease is quarantined exactly when its operation is past the point
  where it gives up. Exclusion of effects is thus exclusion of owners.
* `RecoveryInv`: an operation that a successor finds unfinished stays in its
  evidence until its settled record is on disk, also while a refresh is half done;
  nothing of the new runtime begins before that.
* `KeyInv`: a key is entered once for a payload. The window between the look at the
  table and the entry belongs to `resolving`, so it says what the other calls of the
  key may be doing meanwhile.
* `NoOverlappingEffects` itself: across a crash the leases are gone, and what keeps
  old effects apart from new ones is that none begins before the old ones end.

**Refinement.** In `RuntimeImplements`, `Admit` is the abstract `Take`, `NativeSend`
is `Act`, `NativeStops` is `Rest`; `Commit`, `Settle` and `ReconcileCommit` give up
what their operation has, or stutter when the cleanup is not complete; a crash gives
up everything of the operations that do not act, and nothing of those that do. All
other steps stutter. That the owner that gives up does not act is `DiskInv` and
`EffectInv`; that a taker finds its resources without an owner, after a crash too,
is `RecoveryInv`.

**Host.** `HostInv` adds to the types that who gives up the runtime has sealed
admission first, and that only a recovery takes this back: one that began before, or under a
close, reads nothing again when its awaits end (`reopened`; the operations it lets in
are `late`; `SealInv`). What a drain or a restart has seen of all other operations stays
true, as none of them begins any more (`SeenInv`), and an exit follows a whole drain
or a receipt and a whole close (`ExitInv`).

**Permissions.** Looks answer in any order, and an answer on its way may be older than
the state. `GrantInv` says of everything that claims a grant (an answer, the flow's
state, a preparation that passed its check, an admission opened by one) that there was
one; `AnnouncedInv` that what the flow remembers to have announced is the last thing the
owner heard.

**Preparation.** `LivesInv` counts, for each place of the background preparation, what
may live in the helper: nothing while an attempt is chosen, what this attempt named
while it waits or stops, the host's own afterwards; where this cannot be known,
`cleanupUnknown` holds and nothing is begun (`PlaceInv`).

**Doctor.** A deadline is set once and from the present, and the first of three bounds
the second: `DeadlinesInv` adds up the polls that each may still allow.

**Device.** The ownership of the forward is written by whoever reaches that step, also
by an operation that was abandoned; until one has (`trampled`) it is what the operation
that has the reservation saw or made of it (`OwnershipInv`, with `ReservedInv` for who
has it and `StepsInv` for what its kind may do). `EffectInv` orders the mark of
dispatch, the effect and the second look at the entry.

**Page session.** Every message on its way is one that may be: an answer to what was
executed, a load that somebody waits for (`WireInv`); `CommandsInv` and `DocumentInv` tie
places of the navigation to what was answered and which document was told.

**Executor.** `ExecutorInv` says what is left of the plan for what is held
(`PlanInv`), that only the last entry of the ledger may need anything and what it
needs at each step (`LedgerEntryInv`), that an acknowledged snapshot is stored and shows
the ledger (`WireInv`), that what is down is the code of the last entry, which
neither the stored snapshot nor the one on its way calls released (`HeldInv`), how
many downs and ups that makes (`PostsInv`), and what a clean seal saw (`SealedInv`).
`CursorInv` (the cursor is at rest outside a release) keeps the cursor inside the
ledger when the next operation begins with an empty one.

**Sessions.** A token must resume one session in the registry, in the file and in
every snapshot under way, or a restart after that snapshot loses it: `FilesInv`.
Snapshots grow, so what was promised stays (`OwnerInv`), but a promise is made to
the client that waits for it: at most one credential waits, that of the oldest
request (`WaitingInv`). A lineage that is being opened has no session yet, or it
would get two (`OpenInv`). `GraceInv` is what the timer relies on when it fires.

**Views.** `RecordInv` and `HolderInv` say that a view has a record from its draft
on and is usable only after its commit, and that what guard and bindings hold is
committed; so no view becomes a draft again, and the baseline an action was admitted
on stays what it was. `AdmittedInv`: what an admission set aside stays set aside. As
the view of a new admission was usable until then, no earlier one had set it aside;
of two admissions one thus did not see the other's view, and no view serves twice.

**Hub.** Everything rests on numbers that follow one another: what is piped and
buffered has happened (`FramesInv`), the history ends where the hub has heard
(`HistoryInv`), an open subscriber finds what follows its cursor up to there
(`SubscribersInv`), and a watermark given out was reached (`QueryInv`). A subscriber
whose queue overflowed is failed before the next number would leave a hole.

**Browser.** One operation at a time takes the place of a browser, but its children
run together, and each of them may be waiting for a write. `PlacesInv` says where each
operation at work stands: a child is counted in the place and has exactly its own
write in the queue; any other operation is at work alone, so the last write is its own
(`IsAlone`, `LastWrite`), and a connect finds the browser off until its adapter runs
(`Connects`). What is connected is on record, and nothing in the queue will call it
released (`OnRecord`); what the process knows is what is on disk (`Memory`).

**Transport.** A call counts as active exactly while it is in flight, and one that
waits has something to wait for (`CallInv`); how often it was sent is bounded by whether
it was renewed (`SentOK`). While calls go on after a renewal its credential is new and
nobody else begins one (`RenewedInv`): otherwise a retried call could meet a refusal
again.

**Screen.** An answer is a picture of the past of one task, never of its future
(`AnswersInv`); what registry, protocol and adapter believe is what some answer said
(`KnownInv`). As the revisions of a task grow (`TaskInv`), what once was said to be
drained still is. `StartInv` covers the start whose answer is lost, `ToldInv` what
operation, lease and record became.

**Session and heartbeat.** What the helper has is pending, a tombstone, or the session
is over (`NothingForgotten`); with it a late answer is always recognised, and after the
seal nothing mutates. A rotation that goes on has seen the old helper exit
(`RotationInv`). The heartbeat needs only that a beat that was not sent has no outcome
(`HeartInv`).

**Command loop.** An accepted action is in exactly one place: the queue, the worker, or
the ends that the control queue has not read (`OneAction`), and it is the busy one
(`BusyInv`). A request is new (`FrameInv`), so no receipt or acknowledgement of an
earlier action speaks of it; `WordInv` is what the loop's words rest on.

**Capture task.** The session's record is set against the system's stream
(`KnowsItsStream`), for instance that one it made and gave up was asked to stop. Answers of
the system wait in a queue while the task goes on: they were true when sent, and stay
true, as a stream that ended does not run again (`AnswersFit`). `EndIsTrue` and
`AnswerIsOne` are then what a task may say of its end.

**Captures.** That nothing in use is freed rests on a counter that callers raise when
they enter an entry and lower when they leave, each in a critical section of its own:
`CountInv` says that it is the number of calls inside, so it is zero only when nobody
is. For the release that reads zero this must stay true until it frees (`ReleaseInv`):
what it has claimed lets nobody in. A single capture that does not start sets the
counter to zero without looking, and a layout counts its started tasks; both are right
because a start has its capture to itself until it returns (`StartInv`). `InsideInv`
keeps the entry listed under every call inside, `EntryInv` says which tasks and
pictures an entry can have, `StopInv` who is about to stop what still runs, and
`SealInv` what a sealed router saw. All of it needs the one action queue of
`RouterAssumption`: `status` gives back a hold it did not take when it meets a release
(`EnterCall`), and a second releasing queue would lower the counter under a call that
is still inside.

**Observer.** Three parties pass the work of a command on: the actions queue that asks,
the queue of the main thread, and the main thread. `WorkInv` says which of them has it;
the main thread may still have it when nobody asks any more. `TokenInv` says whose
prepare is current, `OutstandingInv` that work which may yet make an observer is
counted. Then every live observer is one that the binder knows, or one that the main
thread is about to hand over or to stop (`LiveInv`), so that a clean answer is true when
it is given and stays true (`AnswerInv`). Events: a live observer reports to the binder
(`SinkInv`), and what was sent, waits and is kept are the last events of the one whose
events are accepted, in order, unless a gap was told (`StreamInv`).

**Subscriptions.** The number of an AX observer is that of its attempt, so a callback of
one that was replaced meets another number (`NumbersInv`), and one that meets its own
meets the incarnation it came from (`CallbacksInv`). The count of windows is the
cardinality of the windows listened to, also when a process is forgotten with all of
its windows at once.

**Inventory.** A reference is a serial that the registry gives to a window while it can
follow it by its handle. `NamesInv` says that a window which may be read again, because
its process runs or the scan under way has read it, is still known by its handle and
under its name, and that a serial was borne by one window only. Between an answer and its publication
the process may end, its number pass to another, and handles make room: `ReadInv` says
what of the scan stays true meanwhile, `HandlesInv` that handles stay within their
limit. `PublishedInv`, `LayoutsInv` and `ClosingInv` say what the snapshot, the layout
references and a close under way rest on. The order in which a scan comes to its
elements is any numbering of them (`Numbering`); that one exists, and that as many as
there is room for come first, are the lemmas on counting (`NumberingIs`, `FirstOnes`).

**Side by side.** Most theorems are about one component; `ClientsKeepTheirTypes` is about the group that the run `sessions`
explores: its specification implies that of each component (`ClientsRunEach`), so what
is proved of them holds in it. `ServicesRunEach` says the same of five components of run
`services`, and `HelperRunsEach` of the group of run `helper`; all of its properties are theorems about `HelperSpec` (the first two as
`HelperHoldsInputSafely` and `HelperOwnsCaptures`).

**Only model-checked.** Liveness (`WorkEnds`, `CredentialsAreAnswered`, `GraceCleansUp`,
`SilenceEnds`): TLAPS does not reason about fairness and `ENABLED` here.
`AdministrationIsSafe` and the types of the groups of services and channels
(`ServicesTypeOK`, `ChannelsTypeOK`) are checked on the instances of the runs alone. So is everything about compositions (`ClientTransport` with the sessions,
observers along one stream).

## 5. Not modelled, and why

*Core.* Quarantine requested by the host while it runs, two recovery refreshes or
reconciliations at once, the revision counter of a write, the one queue in which
the journal serializes the writes of different operations (each operation has its
own order, so the model allows more orders than the code), budgets, checksums and
schema validation. How receipts are gathered from actor, ledger and domain files
is reduced to "there is a receipt exactly when the old work is over"
(`ReceiptFor`).

*Clients.* The grace during a shutdown of the host, `revokePrincipal` (no
caller), the twenty-four hours after which a token expires, and capacities of ten
thousand. A session does not expire while its own credential is being written
(minutes against at most ten seconds). Several physical browsers at once, and the
migration of old records. Framing, limits and routing of the transport.

*Captures.* The router is checked for three queues that use it as the command
loop wires them; three callers of every operation on one capture would break the
rule that a task in use is alive, but nothing in the code calls it so. The
choice of a display or window, geometry and encoding. On the runtime's side one
status is read at a time; `reconcileCapture` and its acknowledgement are exported
and tested but no host calls them yet.

*Helper.* Windows that only Core Graphics lists, the foreground part of an
observer's snapshot, focus, bounds and pointer commands; binary frames, parsing,
serialization and the frameworks of the system. `NativeSessionLifecycle` of
session-lifecycle.ts is used by its tests only; the rotation modelled is that of
the session.

*Device and page.* A death of the runtime with a device (`BrowserLifetime` has
deaths), screenshots and shell commands. The removal of a forward acts on the
port, whoever holds it by then, and the check of an entry is one step with its
list. Of a page's readiness, fonts, images, layout and animations are one step;
history, viewport, trace, console and evaluation are one command each.

*Scripts.* Planning, manifests, removal of old releases, uninstall.

*Authorities* and the request handlers keep maps or nothing and wait for nothing
outside their process. The clipboard transaction of the input package is the next
candidate. Components without a model are listed with their reason in
`PROJECT.json`.

## 6. Where the code and its documentation disagree

| Run | Statement | What the run shows |
| --- | --- | --- |
| `doc_payload_mismatch` | a repeated key with another payload is refused (computer-use-architecture.md:328) | Two concurrent calls pass the lookup before either registers; both run. |
| `doc_drain_sealed` | draining keeps admission sealed (workstreams/runtime.md:300) | A recovery refresh begun before the drain unseals it. |
| `doc_restore_repeatable` | the restore continues idempotently from the journal (scripts/runtime-install.test.ts:1073) | After a rollback that put the old application back and died, recovery asks for evidence that no longer exists. |

Observations made while modelling, without a run of their own (the models follow
the code, and the properties are stated so that they hold of it):

* A restart keeps an operation that was authorized to send in the state it died
  in until there is a receipt (`RefreshKeeps`); computer-use-architecture.md:329
  says unfinished operations become `interrupted-unknown`.
* After an abort during the final write the journal refuses a later reconciled
  record (core.ts:1111); leases of an operation that never started are freed
  although its terminal write failed (core.ts:1150).
* A client that leaves during the cleanup of its lineage starts no grace
  (client-grace.ts:34). A connect that ends before its adapter ran leaves its
  durable record "connecting" (reservations.ts:372).
* A client closed during its renewal closes with the bearer it had before.
* An operation may be registered, and run, under a session that a resume revoked while
  the call awaited the check of its session or of its target (core.ts:674, 728; the resume
  sees only what is registered, core.ts:318). Its native effects and its connects ask for
  the session again. `OperationsKeepTheirSession` speaks of the operations a resume sees.
* A startup recovery decides whether to open admission before it awaits (host.ts:325)
  and opens it whatever happened since (core.ts:595): after a drain sealed it
  (`doc_drain_sealed`), under a rotation or a close, and without asking whether the
  permission flow was granted anything. `HostLifecycle` keeps what came in so apart
  (`late`); `NothingBeforeTheGrant` speaks of preparations.
* A role or a title that cannot be read is taken as empty, and the application stays
  ready (macos_backend.m:158-171). A window whose role was not read is no longer a window
  (registry.c:457), so a close under way finds it gone (meta_window_readback.c:18); what
  was attached to it disappears from the inventory. `ClosedIsGone` names this exception, and
  a reference names its window only until a scan that its application answered leaves it
  out. When displays cannot be read, an inventory without displays is published
  (macos_backend.m:977).
* Held input: a down refused after it was announced is closed at once as
  "released", and executor_test.c:136-150 expects a complete cleanup; but the
  runtime's store refuses the step from "pending-down" to "released"
  (native-lifecycle.ts:469-475), so with the real store it ends in quarantine
  (`RefuseDown`, `RefusedDownClosed`).
* Observer: main-thread work that was skipped is never subtracted from
  `_mainWorkOutstanding`; destroyed windows stay in the set whose size is limited
  to 512; a gap told just before the preparation ends does not keep it from ready
  (host.ts:600, 637). Accessibility handles of ended processes stay until their
  number is reused (macos_backend.m:250).
* Screen: after a lost answer to a release the capture can be settled but never
  released, since an acknowledgement uses another key than the first release
  (native-driver.ts:98); a status revised after its terminal mark makes later
  permits refused.
* Retirement: a target whose SIGSTOP was sent but not confirmed is left stopped,
  although a failure after a pause resumes the service otherwise
  (legacy-services.test.ts:305), and a resumption that fails is not named.
* Device: the undo of an abandoned connect that hangs in ADB may end later and
  reset an ownership that a newer connect left unknown (android/src/adapter.ts:509):
  `trampled` in `DeviceBrowser` marks these histories.
* Page: `cdpNavigate` does not look at `errorText` of Page.navigate; a reload begun
  while the old document still loads may take the old load event for the new one
  and call the old page ready (`misled` in `BrowserSession`); when Page.navigate or
  Page.reload fails, the promise of the armed wait rejects with nobody listening
  (cdp-mode.ts:428, 560).

## 7. Plan

1. *Done:* `OperationJournal`, `RuntimeCore` with its abstract specification,
   properties, runs and first theorems; `ClientSessions`; the modules of the
   runtime's other services, of the native helper and its channel, of the scripts,
   and of the device and page sessions, each with its runs.
2. *Done:* the proofs of the core, of the clients (sessions, browser lifetime,
   transport, screen capture), of views, hub, host, permissions, preparation and doctor,
   of device and page session, of both sides of the channel, and of the whole helper:
   input executor, captures, observer with its subscriptions, inventory.
3. *Proofs left:* `RuntimeInstall` and `LegacyRetirement` (`AdministrationIsSafe`).
4. *Models left:* the clipboard transaction; the derivation of `ReceiptFor` from
   ledger and actor files; two recovery refreshes at once; an abstract statement
   "what is held is on record" that `NativeExecutor` implements; the composition
   of `HelperObserver` with `ObserverHub` and `AgentViewGuard` along one stream.

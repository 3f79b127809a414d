# EyeDebugger: specifications, model checks and proofs

EyeDebugger lets several clients (people and agents, through a stateless
command line, and editors, through DAP) debug one program together. A daemon,
`eyedbgd`, owns the debug sessions; each session drives one debug adapter over
DAP. This directory models the parts of it whose correctness depends on the
order of things: the sessions and the daemon (`src/internal/session`,
`daemon`, `dap`), the facade that serves them to editors (`facade`), and the
commands that keep state outside the daemon: container fast mode (`cli`,
`container`, `artifacts`), the adapters' installation (`adapters`) and the .NET
diagnostics (`helper`).

`PROJECT.json` lists the components, the runs, the source lines of every
definition, the mutants, the findings and the hazards.

## 1. The system

| Part | State | Operations | What is hard |
|---|---|---|---|
| Session execution (`session.go`) | state, count of stops, generation of news, `pauseRequested`, `execInFlight` | execute (continue, steps, pause, run-until), terminate, the adapter's events | answers, stops and timeouts in any order; three locks; events after the end |
| Stop filter (`emulate.go`) | a held stop per goroutine | publish or continue a breakpoint stop | it decides without `mu`, on a stop that may be old by then |
| Control lease (`lease.go`) | holder, policy, requests | take, release, grant, policy, request, acquire | long sequences of legal calls; a bounded list |
| Presence (`presence.go`, `exceptions.go`) | connections per client, generations, exception modes | connect, leave (at once or after a grace time), set mode | a cleanup racing a reconnect; check, adapter call, then set |
| Breakpoints (`breakpoints.go`, `replace.go`, `slots.go`, `funcbps.go`) | the list per file, the adapter's copy | add, replace (editors), remove, run-until, sync | overlapping syncs, failed syncs, one adapter breakpoint for several clients |
| Paths and anchors (`pathmap.go`, `translate.go`, `anchor.go`) | none: a map is immutable | map a path either way, find an anchor's line | directories inside each other or given by two names |
| Manager and claims (`manager.go`, `claims.go`, `modes.go`) | sessions by id, lost sessions, claims on container processes | start, stop, detach, StopAll, watch | starts and stops in flight together, ids that come back |
| Store (`daemon/store.go`) | a metadata file per session | save, remove, list lost ones | a crash between two steps, a late save |
| Event log, groups (`events.go`, `group.go`) | a bounded ring per session | append, query, wait, group queries with a cursor, group waits | readers slower than the ring; appends and stops between the reads of two members |
| Server (`daemon/server.go`) | live count, idle timer, connections | serve, stop, idle exit, shutdown | shutdown with requests in flight |
| Daemon start (`daemon/start.go`, `server.go`) | lock, token and socket files | connect, spawn, lock, listen, release, watch the socket | several clients start one at once; crashes leave files behind; the directory goes |
| Inspection (`session.go`, `inspect.go`, `evalset.go`, `forward.go`) | the capture of this stop and of one before, `curStale` | read, capture, diff, set, eval | a read across a resume; a change during a capture |
| Test runs (`testrun.go`) | the runner, its pipes, the host's pid | start, attach, watch, stop | a session that is shared before it runs; the runner's exit in any order with the rest |
| Editor facade (`facade/`) | a connection's phase, queue, gate, mirrors | serve, follow, launch, terminate, mirror | events against responses; a launch that is configured, ended and left at any time; lists that cross events |
| Container fast mode (`cli/compose*.go`, `container/`, `artifacts/compose.go`, `mirror.go`) | override, builds, labels, a lock file | launch, restore, prune | stages that fail; what a later run finds; stale locks |
| Adapters (`adapters/`, `drivers/`) | manifests, installed archives | load, resolve, install | conflicting manifests; concurrent and killed installs |
| .NET helper client (`helper/`) | a child process, its reader | start, call, stream, cancel, close | an answer against the exit; a helper that hangs |
| Artifacts (`artifacts/`) | a directory of dumps, one of traces | name, write, place, prune | commands at once |
| DAP client (`dap/client.go`) | pending requests, read loop | request, deliver, dispatch | who handles an answer and who the event behind it |

They interact by direct calls and shared state. Locks are taken in the order
`execMu`, `syncMu`, `captureMu`, `mu`, then the log (`session/doc.go`). An
execution request holds `execMu` until the adapter answered, a sync of
breakpoints holds `syncMu`; the read goroutine of the DAP client takes only
`mu`, in `onEvent`. Adapter answers go to the goroutine that asked, events are
handled by the read goroutine, and that is where most orders come from.

## 2. Modules

Sessions.

`ControlLease` models `lease.go`, one action per operation: each runs under
`mu`, so it is atomic. `moved` is the newest lease event (who, how, forced or
not) and lets properties say who made a change. Leaving clients (`leave`) and
the end of the session are included.

`Presence` models `presence.go` and `exceptions.go` over the lease: a client's
editor connections, the generation each leaving captures, the grace timer, the
cleanup in its steps (breakpoints, mode, then lease and entry in one), and
`setExceptionMode` with `syncMu`, its guard and the adapter's answer. It
extends `ControlLease`, whose state and actions it uses: what is shown of the
lease holds here too.

`SessionExec` models one session from the end of its launch: execution
requests (`PauseThreads`, `Admit`, `Send`, `SendDone`, `RequestTimeout`), the
filter (`FilterStart` to `FilterDone`), the adapter's events (`OnStopped`,
`OnContinued`, `OnTerminated`, all through `Deliver`, the read loop) and the
end (`Terminate...`, `Daemon...`, `StartShutdown`, `Shutdown...`,
`AdapterGone`). `job` is the holder of `execMu`; what the code does in one
section of `mu` is one action. Requests that the lease refuses change nothing
and are left to `ControlLease`. The adapter and the program are external: they
take requests in order, answer or refuse them, announce resumes or not, stop
for their own reasons, and die. Only the control is kept of a stop: whether it
is a breakpoint's, and whether some breakpoint wants it (`FilterDecide`), which
`Breakpoints` decides from the list. `SessionExecProofs` proves `ShowsProgram`.

`Inspection` models what is read of a stopped program: the captures
(`capture`, with `captureMu`, the cache, the stale mark, the diff against an
earlier one), the reads that go to the adapter with the frame id of one stop
(`Vars`, and those an editor forwards with the id of a frame it was shown,
perhaps at an earlier stop), and the requests that change variables under
`execMu` (`Set`, `Evaluate`, `ForwardExecution`, then `MarkStale`). A value is a
version number. `ClientsProofs` holds the theorems about these three modules:
what the clients of one session do to each other.

`Breakpoints` models one file's breakpoints: the list and its changes, the
three parts of `syncBreakpoints` (snapshot, request, answer), run-until's
temporary breakpoints, and, as operators, what the adapter is sent
(`SlotsFor`) and how the filter decides (`Plan`, `Held`, `Decide`). The adapter
is external; it keeps the last list it took, resolves lines at once or later
and may place two requested lines on one. `BreakpointsProofs` holds its theorems.

`SourcePaths` states what the path map, the translation of messages by it and
the search for an anchor compute, as operators over all small inputs. A path is
the sequence of its segments, a line the sequence of its tokens.

`TestRun` models a session with a test runner (`testrun.go`): the command for
what is found of the project (`TestCommand`: a runner, a self-hosting project, or
one that is refused), the start with its steps and checks, the runner's pipe and its pump, the wait for the host's
pid, the attach, `watchRunner`, and `terminate` by a client or by a failing
start at every point.

The daemon.

`SessionRegistry` models the manager, claims, the store and the daemon's life.
Each start, watcher, stop or detach request and StopAll is a thread; `pc` says
where it is. A session's end is one step here. `Crash` drops everything but the
files, `Restart` finds the lost sessions. Sessions started for a container
claim one process or, for a launch, the whole container.
`SessionsProofs` holds its theorems.

`IdleWatch` models only the reports of the live count (`notify`, `Live`,
`setLive`) and the idle exit that goes by it.

`DaemonStart` models `Connect`, the spawned daemon and `Serve` over the three
files they share, one system call or message per step; daemons stop and crash,
and the runtime directory may be removed, after which the lock is another file.
`DaemonStartProofs` holds its theorems.

`GroupEvents` models the logs of a group's members and one client that reads
them with `GroupEvents`: the members' queries one at a time, the k-way merge,
the cuts by limit and budget, the cursor, the wait with its channels, the
deadline. `log` has every event appended, as the recording's sink sees them;
`held` is how many the ring still has.

`GroupWait` models one request that waits for a stop: `GroupWait` on a group, or
the `Wait` that follows an execution request on one session. It reads one member
at a time and takes the member's channel with it; members stop, resume and end
between any two reads. `news` has those that did so in time. `SessionsProofs`
holds its theorem too.

Editors.

`FacadeConnection` models a connection that joins a session: its reader, its
ordered worker, one goroutine per read, the follower of the event log, and the
gate between them. `FacadeLaunch` models a connection that launches one: the
launch goroutine with the hooks that bind the session, wait for
`configurationDone` and start the terminal, against terminate and disconnect at
any time. `Mirrors` models what an editor shows of the breakpoints of others:
the connection's view, the editor (external, as `mirrors.go` describes VS Code)
and the messages that cross between them. `FacadeProofs` holds the theorems about
the two kinds of connection and one about `Mirrors`.

Commands.

`ComposeFast` models `compose launch` and `compose restore` as runs of their
stages over the services of a project: containers and their labels (external),
the override, the build directories, the sessions in the daemon. Any stage may
fail, a run may be killed, and users change containers between, add and remove
breakpoints, attach and end sessions. A launch reads an old session's breakpoints
(`Capture`, which may fail) and ends it in two calls to the daemon. `strays` has
the services where an app runs that lost its debugger; the guard against them
(`StrayGuard`) lets the launch go on when `docker top` fails, as the code does. `ComposeLock`
models the lock that keeps runs apart, one file operation per step.
`ComposeFastProofs` holds the theorems about `ComposeFast`.

`AdapterCatalog` states what `Load`, `Resolve` and the choice of a Python and of
a .NET adapter compute, as operators over all small inputs. `AdapterInstall`
models processes that install one adapter at once. `AtomicInstall` is what they
promise, an adapter that appears in one step and stays, and `InstallAtomic` that
the detailed module implements it: an adapter is `found` when the directory has
its entry, and a process's `outcome` follows from where it is.
`DotnetHelper` models one diagnostics command and its helper:
start, hello, calls and streams, the reader, cancel, the kill, Close.
`Artifacts` models commands that name, write, place and prune dumps and traces,
each kind in its directory: `writes` is the order in which files were written to,
whose last entries are the modification times `Prune` ranks by, so that a long
trace under way is newer than what was begun after it. `ToolsProofs` holds the theorems about these four modules and
`TestRun`.

Each `MC...` module gives constants their values. `MCBreakpoints`, `MCFacade`,
`MCClients`, `MCCompose`, `MCGroupEvents` and `MCTools` also put modules that share nothing side
by side, so that one run checks several of them: `part` says which one a
behaviour is about, and the others' variables stay as they are.

The operators whose comment begins with "Mutant:", and the others `PROJECT.json`
lists as such, are plausible mistakes; it pairs each with the property that
catches it.

## 3. Runs

| Run | Properties | What it shows |
|---|---|---|
| `clients` | `RequestsAddressHolder` `HolderKeepsControl` `RequestsKept` `ReadsFresh` | Control is never lost against the policy; requests stay with the holder they were made to; no read is older than what was known when it was asked. |
| `exec` | `ShowsProgram` | Whenever nothing is in flight the session's state is the program's; clients see no stop the filter may still continue. |
| `exec_live` | `PauseShows` `ExecReturns` `EndsForGood` | An accepted pause shows, `execMu` is always let go, a teardown ends the session for good. |
| `registry` | `OneDebugger` `NoRevivedMetadata` `SessionsAccounted` | No two debuggers on one process, no session lost to the map or to a crash, no metadata that comes back, a clean exit. |
| `breakpoints` | `ListNewest` `StopsExactly` `SourcesFound` `TemporaryOnly` `EditorAgrees` | The adapter ends up with the newest list; what is shown as verified is resolved; the program is seen to stop exactly where some client wants it; cleanup removes only temporary breakpoints; editors show each breakpoint of others once, and keep their own; a path map mixes up no files, and an anchor's error names the closest lines. |
| `group_events` | `CursorHonest` `WaitHonest` `RequestsWake` | A reader that follows the cursor loses only what the ring dropped and is told; a group wait names the member that stopped first and overlooks none; both are woken. |
| `presence` | `ModeInForce` `CleanupExact` `LeavingEnds` | The mode an open connection set is in force; a cleanup takes all and only what it should, whoever came back meanwhile; it is never forgotten. |
| `facade` | `EventsInOrder` `LaunchObeys` `ConnectionsEnd` | Responses come before the events they cause, every event is told once; a launch runs with its breakpoints and leaves nothing when it is terminated; every connection closes. |
| `daemon_start` | `FilesAreServers` `StartsMeet` `ConnectReturns` | Socket and token are those of the one daemon that serves; clients that start one at once all reach it, and the losers exit; `Connect` returns. |
| `compose` | `MountedKept` `OldAppStopped` `RestoreComplete` `LockExclusive` | No failure takes the files of a container in fast mode or replaces those of a running app; no second app is launched beside one that was seen, and a relaunched one has its breakpoints; a restore leaves nothing; one run at a time. |
| `tools` | `RunComplete` `AdapterChosen` `InstalledWhole` `AnswersKept` `ArtifactsSafe` `InstallAtomic` `ToolsEnd` | Test runs end with their output and leave nothing; one adapter per name, no choice passed over; no half installation, and none that is reported and not there; no answer lost to an exit; no artifact overwritten; runs and helpers end. |
| `live_count` | `LiveAgrees` (violated) | Finding 1 of section 6. |

Bounds, and why they are enough to meet the interesting cases:

- `clients`: two humans and two agents, at most 2 requests. Both kinds meet as
  holder and as challenger, and the list of requests is full and overflows. Two
  readers, three stops and one change: a capture in flight when a variable is
  set, and a stop diffed against the one before.
- `exec`: 2 requests, 2 stops of the program's own, 1 piece of news nobody
  asked for, 1 timeout. That is a request over another one's late answer, a
  filtered stop with a pause and a stop behind it. `exec_live` has no timeouts
  or surprises and adds the daemon's terminate and an adapter that lingers.
- `registry`: two starts on one container (a process or the whole app), one
  request besides the daemon's own StopAll, one restart. Ids are not drawn
  twice here (`Reuse = FALSE`): finding 4 shows what happens otherwise.
- `breakpoints`: two overlapping requests of any kind of two clients, lines 1
  and 2 that the adapter places on one, two conditions, one failed or timed out
  sync, one late resolution. Requests and clients are symmetric. The editor has
  one file under two paths, two acts of its user and two changes by others: a
  list and an event that cross, on a line both use. Its properties were also
  checked with three acts, with three changes, and by random runs with six of
  each, which is how two limits of them were found: a crossing may leave a copy
  under another path until that path's list is sent again (`crossed`), and an own
  breakpoint on a line where a copy was announced may be taken for the copy
  (`OwnKept`'s exception), which takes a file under two paths and two moves by
  the adapter. Paths: up to three given
  pairs, of which two are allowed, over 6 container and 4 host directories (one
  inside another, one by a second name, one that is not there), paths of up to
  3 segments. Anchors: files of up to 2 lines of up to 3 tokens.
- `group_events`: two members with rings of 2 events, 3 events of two sizes (one
  larger than a whole ring), pages of 1 or 2, two requests. Times are distinct. The wait: two members
  found in any states, three changes, so that one stops, goes on and another
  stops during one wait, on a group or on one session.
- `presence`: an editor's client with two connections and an agent, one failed
  request to the adapter, two operations on modes or the lease: a reconnect in
  every step of a cleanup.
- `facade`: two requests of the editor and a log of 4 events that keeps 2, so
  that the follower falls behind and resyncs; two breakpoint requests and one
  terminate during a launch.
- `daemon_start`: two clients of two builds, three daemons, one stop or crash,
  one removal of the directory.
- `compose`: two services, three runs, two failures or kills, one change by a
  user: one run enters fast mode, the next fails in any stage, the third meets
  what is left and may fail too, as a `docker top` over a stray of the second. The lock: three runs, one killed, one failed write.
- `tools`: two lines of output and one failure of a test run; two user files
  over the bundled manifests; two installers of a two-file archive; two
  notifications of a helper; two commands over one older artifact, with one to
  be kept per directory: either command's own may be pruned by the other, and a
  trace under way may outrank one begun after it.

`CHECK_DEADLOCK FALSE` where the system may come to rest: the clients have made
all their requests, the session has ended, the commands are through. `clients`
never rests, and is checked for deadlock.

Fairness. Safety runs assume none. In all liveness runs the program's own
goroutines go on: Go schedules every runnable goroutine, and `sync.Mutex`
starves none, which is also why a step that waits for a mutex others take again
and again (the gate of `FacadeConnection`, `syncMu` in `Presence`) is strongly
fair. Beyond that:

- `SessionExec`: the adapter takes and answers requests, and its stream ends
  once it was asked to disconnect or was killed (`shutdownAdapter` kills it
  after `shutdownTimeout`). Clients and the program need not do anything, and no
  timeout has to fire.
- `GroupEvents`, `GroupWait`: a request's deadline need never come.
- `Presence`: the grace timer fires, and the adapter answers or the request
  times out, which is a failure here.
- `FacadeConnection`, `FacadeLaunch`: requests return (the session bounds them);
  the editor need not send anything.
- `DaemonStart`: processes run and `Connect`'s polls come; no daemon needs to
  stop or crash.
- `TestRun`: the adapter goes once the runner has, or once it was told to end.
  The runner need not exit: `RunEnds` is about one that did.
- `DotnetHelper`: the timers fire: the hello's, the command's if it has one, and
  the delays after which the helper is killed. A helper need not answer.

## 4. Proofs

All of it is checked by TLAPS, for every value of the constants that satisfies
the assumptions named.

`ClientsProofs`. The lease, for every set of clients, every choice of humans
among them and every bound on requests, from `ClientsAssumption` and
`MaxRequestsAssumption`:

- `LeaseInvariant`: `LeaseInv`, the type invariant with
  `RequestsAddressHolder`, is inductive. Neither half is inductive alone: that
  dropping the oldest request makes room for one more needs the bound, that a
  client's older request is found and moved rather than doubled needs
  uniqueness, and uniqueness needs the list to be a sequence of clients.
- `RequestsInOrder`: both halves hold always.
- `ControlKept`: no step violates `HolderKeepsControl`. One case per operation;
  the policy's rule is what is left of `Allows` when the actor is not the holder
  and did not force.
- `RequestsShown`: no step violates `RequestsKept`. It rests on
  `EarlierRequestsStay`: in `requests` without the asking client, with room
  made and the client appended, every earlier request is at the same place or
  further ahead, except the first of a full list that did not have the client.

The lemmas `WithoutProperties` and `MakeRoomProperties` say what the two list
operations return: `Without` is `SelectSeq`, whose properties the proof gets
from the injectivity of the list.

Presence, for any clients, editors, connections and bounds, from
`PresenceAssumption` and the lease's assumptions:

- The lemma `PresenceLease`: every step of `Presence` is one of `ControlLease` on
  the variables it shares, or leaves them alone, so the lease's own invariant
  comes along.
- `ModesInForce`: `ModeInForce`, from `ModesInv` (`ModesKept`). An entry counts
  its client's open connections (`Counted`, by cardinality), and its generation
  is newer than any captured before the newest connection (`Generations`), so
  that a cleanup whose generation still holds has nobody to disturb. `syncMu` is
  held from `setExceptionMode`'s guard to its store and the plan is made from
  the modes of that moment (`Syncs`); so a reset that passed the guard is not of
  a mode that an open connection set (`Chosen`).
- `CleanupIsExact`: `CleanupExact`, from `CleanupInv` (`CleanupsKept`), which adds
  what a cleanup has done by each of its steps and that modes an editor set are
  noted in its entry. This one assumes `Overlap = FALSE`: without it the property
  is false (finding 11).

Reads, for any readers and any number of stops and changes, from
`NoneAssumption`: `ReadsAreFresh`, no answer is older than its request. The
inductive invariant adds to the property that nothing is known which the
program's variables do not have yet, that a capture which may be answered from
the cache has everything known, and that a reader between its fetch and its
store holds `captureMu`, so that no change is marked in between; the last is
what `markStale` takes the lock for, and without it the middle one is not
inductive.

`ToolsProofs`, about what one command or one run does beside the sessions:

- `InstallIsWhole`, for any number of processes and any archive, from
  `AbsentAssumption`. The directory is absent or holds what the archive holds,
  and a rename of an archive with its entry is never undone; from these two
  follows that a process that renamed and failed had an archive without the
  entry. A directory without it is still to be looked at by the process that made
  it, or that process was killed (`SoonGone`). `InstallImplementsAtomic`: the detailed module implements
  `AtomicInstall`. Given the same invariant, only the rename of an archive with
  its entry is a step `Appear`, the steps in which a process ends are its `End`,
  and all others are stutters: staging is never seen, and the removal of a
  failed installation removes nothing that was found.
- `AdapterIsChosen`: `AdapterChosen`, for any names, languages, compiled drivers
  and user files, trusted or not, from `CatalogAssumption` (a manifest is none of the model
  values). An answer is that of the operator to what was asked (`CatalogInv`);
  the lemmas before it say what `Load`, `ResolvePython` and `AdapterLaunch`
  return for every input.
- `TestRunIsComplete`: `RunComplete`, for any lines of output, from `TestInv`.
  Who may still kill or wait for the runner (`RunnerKnown`), who still has to
  shut the adapter down (`AdapterKnown`), when the session's end was decided and
  by whom (`EndKnown`), and what a failing start has done by each step
  (`FailKnown`). The property speaks of the end; that it holds whichever of the
  stop, the failure and the runner's exit comes first is what these keep apart.
- `HelperAnswersKept`: `AnswersKept`, for any number of notifications and calls,
  from `HelperInv`. What is in the pipe is the tail of what was written
  (`Piped`), the line the reader holds comes before it, and the notifications
  handed over are those before that line (`HandedOver`); a failure is reported
  only when a reply that is none was written, or the helper is gone and
  everything it wrote was read (`Outcomes`).
- `ArtifactsAreSafe`: `ArtifactsSafe`, for any number of commands, any artifacts
  there before and any `Keep`, from `ArtifactsAssumption`, the invariant being
  `ArtifactsInv`. Modification times are those of the last writes, and writes are
  only added: so a newer artifact, as `Prune` ranks them, was written to since the
  other was begun, and the number of those never falls (`NewerGrows`, by
  cardinality), and it is never the command's own (`PruneOf`); a file at the
  user's path is its owner's from the exclusive link or create on (`OutOf`).

`SessionsProofs`, of the registry, for any sessions, ids, processes, requests and restarts,
from `RegistryAssumption`:

- `ProcessesApart`: `OneDebugger`, from `ClaimsInv` (`ClaimsKept`), with ids drawn
  twice or not. Claims never conflict, and a session has its claim from before
  its adapter starts until it exits: a claim is given back or taken over only
  after its session exited, also when whoever does so looked at it long before.
- `MetadataStaysGone` and `AllAccounted`: `NoRevivedMetadata` and
  `SessionsAccounted`, from `ClaimsInv` and `Accounts` together (`AccountsKept`),
  for `Reuse = FALSE` (finding 4 is what happens otherwise). An id then names one
  session in the map, on disk and in every request (`Identity`); whoever unmaps a
  session is on its way to its file (`Going`), and no save follows, since a save
  looks at the map; what StopAll listed it still ends (`Stops`, `Kept`); between
  two daemons nothing runs (`Ended`).

`DaemonStartProofs`, for any clients, builds, number of daemons, stops and
removals, from `DaemonStartAssumption`, the invariant being `StartInv`
(`StartKept`):

- `ServersAlone`: `FilesAreServers`. While the directory stays there is one lock
  file; every daemon between its lock and its release holds it, and only those
  remove, write or bind anything (`Alone`).
- `StartsMeetAtOne`: `StartsMeet`. Until a daemon stops, the first to lock keeps
  the lock (`FirstFiles`), a daemon exits only because that one is there, and
  every token and socket a client meets is that one's (`FirstClient`), so no
  `Connect` runs into an error. That no loser lingers needs what a client knows
  of the daemon it started (`Spawns`).

`BreakpointsProofs`, for any clients, requests, lines, placements, conditions and
failures, from `BreakpointsAssumption` (lines are positive numbers), the
invariants being `BpInv` (`BreakpointsKept`) and `ResInv` (`ResolutionKept`):

- `AdapterHasNewest`: `ListNewest`. The list about to be sent, else the last one
  not taken, else the one the adapter keeps, is the current one, unless a thread
  is still to sync or nothing was ever sent (`NewestSent`). That needs `LocksHeld`:
  between a snapshot and its answer syncMu is held, so that no older snapshot is
  sent after a newer one; giving up on an answer does not let it go early. The
  list does not depend on what answers and events change in a breakpoint
  (`Remapped`).
- `OnlyTemporaryGo`: `TemporaryOnly`, an invariant and an action property. While
  an execution is between the removal of the temporary breakpoints and the
  placing of its own it holds execMu and there is none (`Temporaries`). That a
  permanent breakpoint goes only by a removal or its editor is shown action by
  action; `OlderIn` (ids are numbers, so a set of breakpoints has an oldest one)
  is what `addBreakpointLocked` and `matchItems` need.
- `VerifiedIsResolved`: `VerifiedResolved`, the first half of `StopsExactly`. An answer is applied by breakpoint id
  to whoever still has it, so an id must stand for one requested line, in the
  list and in the snapshots under way (`IdsApart`). A caller that has not given
  up waits for the newest request (`WaitsFor`), so what it applies is about the
  list the adapter keeps (`Fresh`). A breakpoint the adapter has answered for is
  in every list it has, gets or is about to get (`KnownTo`), so that an event
  about it, read late, is still so.
- `ProgramStopsExactly`: `StopsExactly`. Its second half, `StopsWanted`, from `ListNewest` and
  `VerifiedIsResolved`, by cases: where the breakpoints that share a place differ
  in their conditions or one logs, the filter decides; elsewhere the adapter's
  one condition is theirs (`SlotConditions`).

`SessionExecProofs`, for any number of requests, stops, surprises and timeouts,
adapters that announce resumes or not, that linger or not, and a daemon that ends
sessions or not, from `BoundsAssumption`, the invariant being `ExecInv`
(`StreamTruth`):

- `StatesAgree`: `StateAgrees`, with every adapter the module allows.
  `ShowsProgram` speaks of quiet moments, so the invariant has to say what the
  messages under way mean. If the adapter announces resumes, the last stop or
  resume in its stream is the program's state, and when the stream has none the
  session has it, shown or held by the filter (`Follows`): a resume is read before
  the answer of the request that made it (`Announced`), so that `send`'s check of
  `stops` against `before` never marks a newer stop running. If it announces
  nothing, only answers tell: while no request was given up on, the one request
  or answer under way is the one its sender waits for (`OneRequest`), and a
  granted resume counts from the moment it was granted, wherever the answer is
  (`Silent`). `Echoes` counts the resumes in the stream, which is what keeps the
  session's own out of the log.
- `ProgramShown`: `ShowsProgram`, for `ThreadStops = FALSE` as in the run (finding
  5 is what happens otherwise). A stop is not read while another is held or shown
  (`Looks`; `Silent` for the other adapters).

The stream is reasoned about by the sets of positions of its stops, resumes and
answers; `ReadStop` to `GetsAnswer` say what one message read or sent does to
them, and each part of the invariant has one lemma with one case per action.

`SessionsProofs`, of `GroupWait`, for any members that are numbers (`GroupWaitAssumption`
says so; a member's number is the order of its id) and any number of changes, the
invariant being `WaitInv`: `WaitsHonest`, that is `WaitHonest`.

- A read is what was so when it was made, and a program stops more often and ends
  for good (`Since`), so whoever a pass sees stopped or ended since its mark did,
  and all members are seen ended only if they are.
- `news` is exactly the members that have stopped or ended since their mark, until
  the deadline, and part of them afterwards (`Marking`). A pass that begins after
  the deadline has seen, member by member, all of it (`Passing`): "a change racing
  the deadline still counts" needs that the last look comes after `expired`.
- A member that has not stopped since the pass began was seen as it is
  (`Passing`). So of those that had stopped by then all are in `Stopped` with the
  times they stopped at, and `stoppedFirst` names one no later than any of them
  (`FirstIn`, from the least element of a set of numbers, `LeastIn`).

`FacadeProofs`, of a connection that joins a session, for any number of requests and
events, any size of the log, of a batch and of the request window, from
`ConnectionAssumption`:

- `EventsToldOnce`: `ResponseFirst` and `ToldInOrder`, whoever continues the program
  and whenever the connection breaks, from `ToldInv`. A request between its session
  call and its response is the worker's first and holds the gate (`CalledHolds`),
  so the follower, which takes the gate for every relay, finds the cause of each
  event answered (`CausesAnswered`). Its place in the log splits what was told or
  missed from what is to come, also over a resync (`FollowsLog`).
- `EventsTold`: with it `EditorAgrees`, that is all of `EventsInOrder`, where no
  other client continues the program (`OthersRun = FALSE`, as in the run). Without
  this it is false, which is finding 7. It needs `Agrees`: an editor sends one
  continue at a time, for a stop it shows (`Offers`); so the program's state is the
  one shown, or the one that the response to the continue or the last event pending
  will show (`WillShow`), from the moment of the join on.

`FacadeProofs`, of a connection that launches one, for any number of breakpoint and
terminate requests, from `LaunchAssumption`, the invariant being `LaunchInv`:
`LaunchesObey`, that is `LaunchObeys`.

- Until `configurationDone` is handled the queue has nothing but it and breakpoint
  requests, and each it must wait for is placed or before it
  (`ConfigurationWaits`).
- A launch that failed, or that a terminate was answered for, has no session unless
  another client holds its lease; a stop is queued only once the launch is over and
  succeeded (`NothingLeft`).
- The route of the terminal is closed before the launch's success is looked at, so
  no terminal fails after it (`RouteClosed`).

`FacadeProofs`, of `Mirrors`, for any paths, lines, acts and changes, and whatever
crosses on the way: `CopiesStayOthers`, that is `CopyNeverOwned`, where the client
sets none by a command (`"me" \notin Owners`, as in the run; finding 9 is about
those). The invariant is `CopiesInv`: an entry of the editor, and of every list on
its way, has the mark column and is plain, or is on a line where the user set or
edited one (`UsersOrCopy`), and `classify` lets a list set only the latter.

`ComposeFastProofs`, for any services and any number of runs, users' changes,
failures and kills, from no assumption, the invariant being `FastInv` (`FastKept`):

- `MountsKept`: `MountedKept`. A recreate that was given up on may still be done
  after its run, so what protects its build is not a label but that a run whose
  `up` failed does not prune (`LateKept`). That it is over by the time the next
  run has the lock is an assumption of the module (`TakeLock`). The record lasts because a launch writes the override before its
  containers change (`Prepared`, at "up") and a rewrite keeps the fragments of
  those that stay.
- `OldAppsStopped`: `OldAppStopped`, an action property. An app under the debugger
  has a launched session and a container in fast mode (`AppsHaveSessions`); where a
  launch is stopping old apps every one of them among its services is still to do
  and listed, and where files are replaced there is none (`Prepared`). A service
  that is still in the run after its turn at the mirror has a complete build. What
  a listed session has (`had`) is among what is carried once its turn is over,
  from the read of its breakpoints on, until the launch.
- `RestoresComplete`: `RestoreComplete`, an action property. As long as a restore
  of everything met no failure, what is in fast mode is among what it has still to
  do; at its end nothing is, and the prune takes every build (`Restoring`).

Every inductive invariant was checked by TLC, on instances like those of the
runs, before it was proved. The constants' assumptions are those the modules
state: model values apart from each other, finite lists, natural bounds.

Only model-checked:

- Liveness under fairness, which is outside this prover: `exec_live`,
  `LeavingEnds`, `RequestsWake`, `ConnectionsEnd`, `ConnectReturns`, `ToolsEnd`.
- What a recursive definition computes for every input: `MergeEvents`, and with
  it `CursorHonest`; the operators of `SourcePaths`, and with them
  `SourcesFound`.
- `LockExclusive`, which holds only for a bounded number of runs (section 6, the
  lock).
- `EditorAgrees` of the run `breakpoints`, but for its part `CopyNeverOwned`: which
  copies a list has is computed line by line (`Echoes` of `Mirrors`, a recursive
  function), so what ids the answers have cannot be proved for every number of
  lines.

## 5. What is not modelled

- The query that waits on one session's log.
- Hit conditions, log messages, function breakpoints (they sync like a file's).
- Of paths: byte limits and letter case on Windows. Of anchors: `normalize` only
  collapses runs of white space, so `a+b` and `a + b` are two texts, which here are
  the same tokens; and the cuts of long lines (`maxAnchorTokens`, `maxLineTokens`).
- Exception modes before the session is configured: nothing is sent then
  (`exceptions.go:180`), and `configureExceptions` sends all of them at once. In
  `FacadeConnection`, `setExceptionBreakpoints`, which is ordered but not gated.
- The translation of DAP arguments, variables and frames for editors; expanding
  and budgets of what is shown; the fallbacks of one expression to another.
- Of a launch by an editor: which of the session's end, the adapter's end and
  `configurationDone` a wait takes when several are ready (`launch.go:267`,
  `launch.go:314`, `session/launch.go:178`).
- Of `Mirrors`: an error of `ReplaceBreakpoints`, a source without a path, and the
  retraction at the session's end; the snapshot, the replacement and the
  reconciliation of one list are one step, as they are under the gate, though
  another client's change may fall between them.
- Of the daemon: errors of the store's `Save` and `Remove`, which are logged only
  (`manager.go:401`, `manager.go:412`); `liveClaimOn`, which refuses a start early
  and decides nothing that `take` does not decide again; a caller that gives up
  while it waits for the daemon that lost (`start.go:222`), and a `Chmod` that
  fails after the bind (`server.go:169`).
- Of containers: replicas, paused containers, projects of several directories,
  other engines; exception modes, which a launch carries as it does breakpoints;
  attaching to a container is `SessionRegistry`'s start with a claim.
- Of the helper: one that closes its output and stays (`helper.go:380`), and a
  note that is refused after the first sample (`cli/dotnet.go:564`).
- Of artifacts: equal modification times, which `Prune` orders by name.
- The wire protocol of the daemon and its authentication, but for the token.
- The recordings' format. Pure I/O and text: adapter processes and sockets, DAP
  arguments and templates of drivers, presentation, stateless commands, the VS
  Code extension, the C# helper.

## 6. Findings

Where the code and what is written about it disagree. `live_count` is a run of
`PROJECT.json`. The others are shown by the configuration named with them
(`tlc -config X.cfg Module`) or the change of one, and the passing runs leave
out exactly these cases.

1. `live_count` (`MCIdleWatch.cfg`, `IdleWatch`): counting and reporting are two
   steps (`notify`); an older count may be the last one set, and the idle timer
   goes by it.
2. With `EndedOnce` as the invariant of `Spec` in `MCSessionExecLive.cfg`,
   `MCSessionExec`: a stop handled after the end makes an exited session stopped
   again, and the end is logged twice (`applyStopLocked`, `emulate.go:232`; `session.go:689` says "once").
3. `MCLostPause.cfg`, `MCSessionExec`: a refused pause clears the flag of an
   accepted one (`session.go:1408`); the field's comment (`session.go:185`) says
   it is set "until the next applied stop".
4. With `Reuse = TRUE` in `MCSessionRegistry.cfg`, `RunningIsMapped` fails:
   `newID` (`manager.go:681`) does not reserve the id; of two starts that draw the same one, the first ends up
   running outside the map ("Manager owns every session of the daemon").
5. With `ThreadStops = TRUE` in `MCSessionExec.cfg`, `FilterLooksRunning` fails:
   the filter runs on a second thread's stop while a stop is shown, and may
   continue from under it (`session.go:559`; `emulate.go:33`).
6. `ResolutionShows` of `Breakpoints` fails with a late resolution: a breakpoint
   event right behind the answer to `setBreakpoints` is handled before the
   answer is applied, and is lost (`breakpoints.go:396`).
7. `MCStaleStop.cfg`, `FacadeConnection`: a stop another client's step led to is
   logged before the editor's continue and relayed after its response
   (`facade/events.go:53`); the editor shows a running program as stopped.
8. `MCAbandoned.cfg`, `FacadeLaunch`: a disconnect between the launch's return
   and its answer leaves the session that `launch.go:162` says does not stay.
9. `MCAdopted.cfg`, `Mirrors`: a breakpoint the client set by a command, placed
   on another line than requested, is shown as a mirror; the user's own one on
   that line takes it over under the same id, and the removal of the mirror
   removes both from the editor, while the session keeps it.
10. `NoneLeftBehind` of `DaemonStart` fails in `daemon_start` (added to
    `MCDaemonStart.cfg`): after the runtime directory is removed,
    a client may start a daemon before the old one looks at its socket again
    (`server.go:418`, every 5 s); the old one then finds the new socket at its
    path and stays.
11. With `Overlap = TRUE` in `MCPresence.cfg`, `CleanupExact` fails: two
    connections of one client set its mode at once, and note in the other order
    that they did (`ExceptionsSet`); the mode then outlives the editor.
12. `MCHalfBuild.cfg`, `ComposeFast`: a run killed while it mirrors a build
    leaves some of its files; a later `--no-build` launches them
    (`checkNoBuild` looks whether there are any). `execute` says "a service whose
    files could not be replaced is never launched".
13. `MCChangedRunning.cfg`, `Inspection`: `vars --changed` is answered from the
    cached capture while the program runs (`session.go:1088`); its help says
    "Needs a stopped program" and `docs/DESIGN.md` "cached until the next
    resume".
14. `MCRacedWait.cfg`, `GroupWait`: `waitUntil` selects between the session's
    change and the deadline; with both there it may take the deadline, and
    `Wait` reports a timeout although the program has stopped or ended
    (`session.go:1421` says "TimedOut is set if neither happened"). A group wait
    looks once more.
15. `OwnFileUnread` fails in `breakpoints` (added to `MCBreakpoints.cfg`): a
    container path the map does not take goes
    through as it is, and is read on the host if it leads into a mapped
    directory there. `readSource` (`inspect.go:447`) says such a file "is never
    read on the host".

Smaller limits met on the way, which the properties state as exceptions:

- `ShowsProgram` leaves out (`Plain`) a resume that was given up on, or news
  nobody asked for, with an adapter that announces no resumes: the session then
  cannot know what the program does, and shows what it knew last.
- The lock: with a third run beside two that take over a dead one's lock, two
  may work at once (`removeLock` says so); an unlock while another run has the
  lock moved away leaves it until `LockMaxAge`.
- A stop of a test run that ends between the start's last check and its entry in
  the map leaves an ended session listed. A child of the runner that keeps its
  output open delays the session's end.
- A launch of containers reads the breakpoints of the session it replaces, and
  stops it in another call: one added between the two is lost. When `docker top`
  fails, the app is launched though an earlier one may run (the code warns, and
  ADR 0021 says so).
- A stop of a test run that looks for the runner before `cmd` is set kills
  nothing; `startRunner` then checks whether the session has exited, which the stop
  only makes it later. If the start gets through its other checks before that, it
  succeeds, and the runner goes on after the stop (`NothingLeft` speaks of failed
  starts and of adapters).
- Of two installers at once one fails although the adapter is then installed; a
  killed one leaves its staging directory.
- `counters --watch` has no timeout and ends by interrupt only.
- A dump that was given up on may still be written by the runtime (the code says
  so) and is pruned later; a prune protects only its own command's file. An artifact that was listed while
  it was still being written may be removed though it is the newest by then: hence
  "written to since it was begun" in `ArtifactsSafe`.
- A group wait reads its members one at a time: of two that stop during one
  pass, the one read later is seen, and answers, though the other stopped first.
- An editor's list that crosses an event may move a copy between two paths of one
  file: a copy stays under the other path until that one's list is sent. An own
  breakpoint that was placed on a line by way of the other path, and moved away
  again by the adapter, is taken for a copy announced on that line meanwhile.
- A host file hidden behind a deeper container root is sent under a name that
  maps back to another file.
- A diff is against the last stop that was captured, which need not be the
  previous one.

## 7. Plan

1. Done: the lease, execution, breakpoints, registry, events (first), then
   presence, daemon start, the facade,
   inspection, test runs, container fast mode and its lock, adapters, the
   helper and artifacts, group waits, paths and anchors.
2. An abstract session (a program seen running, stopped or exited, with each
   accepted request followed by its effect) that `SessionExec` implements.
3. `DaemonStart` composed with the shutdown of `SessionRegistry`.
4. Hit conditions and log messages in the filter.
5. Proofs. Done: the lease, reads, presence, the registry,
   daemon start, breakpoints, `ShowsProgram`, group waits, container fast mode,
   the safety properties of the run `tools`, and the facade's two kinds of
   connection and the copies in an editor.

# A verification of tt-k8s-device-plugin

TLA+ modules, TLC configurations and TLAPS proofs for the Kubernetes device
plugin in `src/` (Go): the process that finds Tenstorrent cards in sysfs, starts
one gRPC device plugin per card type, keeps them registered with the kubelet
through kubelet restarts, reports the health of every card, answers `Allocate`,
and shows what it knows as Prometheus metrics.

Contents: 1 inventory, 2 modules and how they correspond to the code, 3 runs,
bounds and fairness, 4 findings, 5 proofs, 6 what is not modelled, 7 plan.

## 1. Inventory

### Components

| Component | Source | State it keeps | Operations |
| --- | --- | --- | --- |
| Orchestration | `cmd/tt-device-plugin/main.go` | `mu`, the list `plugins`, the signal context, the fsnotify watcher | `main`, `startPlugins`, `restart`, `watchKubelet`, shutdown, metrics server |
| Plugin lifecycle | `internal/plugin/plugin.go` | `stop` channel, `grpcServer`, the listener and its socket file | `New`, `Run`, `serve`, `waitReady`, `register`, `Stop` |
| Health | `plugin.go` (`ListAndWatch`, `buildDeviceList`, `assess`), readers in `internal/device/discover.go` | `lastHeartbeats`, `snapshots`, a ticker per stream | the first list, one list per tick, end of stream |
| Allocate | `plugin.go` | `byID`, `allocations` | `Allocate`, `Allocations` |
| CDI | `internal/cdi/cdi.go` | one JSON file per class under `/var/run/cdi` and its `.tmp` | `WriteSpec`, `RemoveSpec` (no caller) |
| Discovery | `internal/device/discover.go` | none | `Discover`, class of a card, hwmon directory, NUMA node |
| Temperature limit | `plugin.go` (`parseTempMaxEnv`, the fallback to `temp1_max`) | `tempMaxMilliC`, fixed by `New` | choice of the limit, comparison |
| Metrics | `internal/metrics/metrics.go`, `main.go` | the HTTP server; what a scrape has been given | `Collect`, the provider under `mu`, listen, shutdown |
| Telemetry readers | `discover.go`, `plugin.go` (`readTelemetry`) | the snapshot being filled | sysfs reads, each best-effort |
| Deployment | `helm/`, `deploy/`, `Dockerfile` | none | restart policy, mounts, environment |
| Scripts | `hack/` | none | run by hand |

### Interactions

- `main` calls `startPlugins`, which discovers, writes CDI specs (in CDI mode)
  and starts one goroutine `p.Run(ctx)` per class. It then starts the goroutine
  of `watchKubelet` and waits for a signal.
- `watchKubelet` calls `restart()` on its own goroutine whenever `kubelet.sock` is
  created: under `mu` it stops every plugin of the list and calls `startPlugins`
  again. Shutdown takes the same `mu` and stops the same list.
- `Run` and `Stop` of one plugin meet in `p.stop` (a channel), `p.grpcServer`
  (under `p.mu`) and the socket file, which both unlink **by name**. Plugins of
  successive generations meet in that name too.
- `Run` starts `srv.Serve` as yet another goroutine, polls the path until a dial
  succeeds, and registers with the kubelet, which later dials the path by name.
- gRPC handlers run concurrently: `ListAndWatch` streams share `lastHeartbeats`
  and `snapshots` under `p.mu`; the metrics collector reads `snapshots`;
  `Allocate` reads `byID`, which nobody writes after `New`, and adds to a counter.
- A metrics scrape takes `mu` for the time it copies the list `plugins`, and then reads
  one plugin after another, which a restart may stop and replace meanwhile.
- One assessment is some twenty reads of sysfs files, between which the card, its
  driver and its files may change.
- The container runtime reads the CDI spec files when it starts a container, at
  a time the plugin does not know.

### What is hard

- *Interleaving.* `Stop` against a `Run` that has not stored its server; `Serve`
  called on a server already stopped; a restart that overtakes the plugins of
  the restart before; two streams over one heartbeat map; a scrape that spans a
  restart; a card that changes in the middle of an assessment.
- *Names.* Socket paths and CDI files are shared by name between generations of
  plugins and between processes.
- *Ordering.* Registration comes before the watch is installed; the snapshots are
  published before the kubelet is told; the ticker buffers one tick.
- *Failure.* Every error in `Run`, in `WriteSpec` and in a restart's discovery is
  logged and not retried. A crash leaves socket files and `.tmp` files behind. Every
  sysfs read can fail, some reads are nested in others, and an assessment may return
  early.
- *Waiting.* `restart()` and shutdown hold `mu` while they wait for every plugin to
  stop; a scrape needs it.
- *Numbers.* `parseTempMaxEnv` multiplies without a range check.
- *Stale data.* Discovery is a snapshot of cards that may change while it is
  taken; the hwmon directory is found once; the list the kubelet allocates from may be
  that of an earlier plugin; a restart forgets heartbeats, health and counters.

`PROJECT.json` lists the hazards one by one, each at its line and with the
properties that cover it.

### What makes each component correct

- *Orchestration and lifecycle.* A class never has two live plugins; every plugin
  not stopped is in the list the next restart or shutdown works through;
  `p.stop` is closed once; a stopped plugin leaves no listener; a registered
  plugin owns the file the kubelet dials; however often the kubelet restarts,
  every class is advertised again; a signal ends the process.
- *Health.* A card whose sensor fails or that is too hot is never offered; a sound
  card alarms only when a list was late; a freeze or heat that lasts is reported and stays so; a card
  that is well comes back; metrics and kubelet are told the same.
- *Assessment and limit.* A card at or above the limit that it should be held to is
  withdrawn, one below it is not; a series is shown exactly when its file could be
  read, also for a card that is withdrawn.
- *Metrics.* A scrape is given the plugins in service and no others, no class
  twice; it never blocks for good; in the end the answers follow the plugins.
- *CDI and Allocate.* A runtime never reads half a spec; the installed spec and
  the plugin in service agree; one card is under one resource; an answer can be
  resolved by the runtime; a request is answered wholly or not at all.

## 2. Modules

    Incarnations            what the process promises about its plugins (abstract)
      ^ implemented by
    PluginLifecycle         processes, threads, goroutines, sockets, kubelet
      PluginLifecycle_proofs, PluginSockets_proofs, MCPluginLifecycle
      ^ extended and implemented by
    Scrape                  the metrics server and its scrapes, composed with it
      Scrape_proofs, MCScrape
      v implements
    AtomicScrapes           what the metrics endpoint promises its readers (abstract)
    DeviceHealth            streams, tickers, heartbeats, snapshots
      DeviceHealth_proofs, MCDeviceHealth
    Assessment              one assessment, file by file; the limit; the series
      Assessment_proofs, MCAssessment
    CdiAllocation           discovery, spec files, New, Allocate, runtime
      CdiAllocation_proofs, MCCdiAllocation

The MC modules add the symmetry sets, where there are any. Every module has a section of
*variants*: operators no action of the specification uses, each a plausible bug
of the action it is named after. Putting one in the place of its action must
break the property `PROJECT.json` pairs it with, which shows that the property
depends on the code.

### PluginLifecycle

A `Plugin` is an *incarnation* `<<class, generation>>`; the generation counts the
`startPlugins` calls that found a card. `run[i]` is the program counter of its
`Run` goroutine, `closed[i]` is `p.stop`, `server[i]` is `p.grpcServer` (nil,
built, given its listener by `Serve`, stopped), `lis[i]` its listener. `pc`, `cur`,
`todo` and `want` are the program counters and loop variables of the two other
threads, `"main"` and `"watch"`. `sock[c]` is the incarnation whose listener made
the socket file of class `c`, `None` when there is no file: this is what makes
unlinking by name visible. `kup`, `requests` and `endpoint` are the kubelet.

| Code | Actions |
| --- | --- |
| `startPlugins` | `Discover`, `Create`, `Started`, `Restarted`, `StartupFatal`, `RestartFails` |
| `watchKubelet` | `WatchInstall`, `WatchFatal`, `WatchEvent`, `WatchOverflow`, `WatchDone` |
| signal, shutdown | `Signal`, `Wake`, `Lock`, `StoppedAllMain`, `Exit` |
| `restart()` | `Lock`, `StoppedAllWatch` and `startPlugins` |
| `Stop` | `NextPlugin`, `StopCheck`, `StopClose`, `StopRead`, `StopDrain`, `StopUnlink` |
| `Run`, `serve`, `waitReady`, `register` | `RunCheck`, `RunClear`, `RunListen`, `RunStore`, `RunDial`, `RunRegister`, `RunFails`, `RunRegisterFails`, `RunReturn` |
| `go srv.Serve(lis)` | `Serve` |
| outside the process | `Crash`, `ProcessStart`, `KubeletStop`, `KubeletStart`, `KubeletConnect`, `StreamEnd` |

An action is the code between two points at which another goroutine, process or
the kubelet can interfere. Four things of the Go libraries matter and are
modelled as their sources have them: closing a Unix listener unlinks its path by
name; `Serve` on a stopped server closes the listener it is given; `GracefulStop`
closes the listeners `Serve` was given and only those; a dial succeeds as soon as
the kernel listens, before `Serve` is called. `GracefulStop` within
`stopGracePeriod` and the hard `Stop` after it end in the same state and are one
action. `waitReady`'s polling is one step that succeeds or fails: the path it
polls has been made by the same goroutine one step before.

Two variables are history. `hurt` is TRUE from a failure (a partial discovery, a path that
cannot be cleared or listened on, a refused registration, a lost inotify event) until the next `startPlugins` begins. The code
logs failures and does not retry them, so `Readvertised` asks nothing of the time in
between, and everything of the time after the next restart. `overtaken[i]` says that `Stop`
found no server in plugin `i` (plugin.go:226), so that its goroutine may go on to listen
and serve. With it `StoppedServerIsDown`, `ListenConflictIsZombie` and `NoStrayUnlink` say,
under every race, whose doing a listener left behind, a listen in conflict or a path
unlinked under a live plugin can be.

`ImplementsIncarnations` maps this to `Incarnations`: per class a sequence of
incarnations, created once, retired once, and no generation begins before every
incarnation of the ones before has been retired.

### DeviceHealth

One plugin, its devices `1..N` and the handlers `Streams`. A heartbeat counter
is unbounded, and `assess` only compares it with the value stored last; so
`lastHeartbeats[d]` says whether there is a stored value and whether the counter
has moved since (`"none"`, `"current"`, `"past"`). `AssessTemp` and
`AssessBeat` are the two halves of `assess`, in its order: a device rejected for
its temperature does not have its heartbeat read, so its stored value ages.
`Publish` replaces `snapshots`, `Send` sends, `TickFires` is `time.Ticker` with
its channel of one, made after the first list, `Wake` and `SeeStop` are the branches of the `select`. `Stop`
and `New` are the restart as this component sees it.

`Sound` devices are never hot or frozen, `Sick` ones are never cool, and `Freezing` ones may
freeze: they are constants so that a safety property can say what must never happen to them.

A tick that finds the handler of `s` still building or sending a list (plugin.go:334) is
taken as soon as the handler is back in its `select`, and the reads that follow may come just
before the next tick. So a counter is sure to have moved between two ticks only if both
found the handler waiting; of any other two reads nothing is known. `late[s]` is history:
2 if the last tick came late, 1 if the one before did, 0 otherwise. The code takes two equal
reads for a freeze whatever the time between them, so a card that runs can be reported as
frozen; `NoFalseAlarm` says that only a list made soon after a late tick does so, and `Recovers`
asks for cards to come back once ticks find the handlers waiting. The other properties
assume nothing of how long a list takes.

### Assessment

One card and one assessment after another. `pc` follows `assess`: `"telemetry"` with
`next`, the index in the order of `readTelemetry`; `"temp"`, `"limit"`, `"beat"`,
`"publish"`. Each file is one step, and between two steps the temperature may change
(`TempChanges`), a file of `Flaky` may stop or start to be readable (`FileChanges`), and the
driver may go, come back or take another hwmon number (`DriverMoves`). Every file lies in
what the driver makes in sysfs (`SysfsDir`, `HwmonDir`), so all of them fail while it is
`Gone`, and those of hwmon also when their directory has moved. `hwmonDir` is what
`findHwmonDir` found; only `Restart` renews it, and it finds no card without the driver. A file is a name; of a value that only
metrics show the module knows whether it was read. `Answers` is `readSysfs` with its
parser: a file whose text does not parse is a file that cannot be read.

| Code | Definitions |
| --- | --- |
| `readTelemetry` | `Telemetry`, `Requires`, `ReadTelemetry` |
| `assess` | `Begin`, `ReadTemp`, `ReadLimit`, `ReadBeat`, and `Reject` for its early returns |
| `parseTempMaxEnv` | `Parsed`, `Wrap`, `ParseTempMaxEnv` |
| `findHwmonDir`, `New` | `FindHwmonDir`, `Init`, `Restart` |
| `buildDeviceList` | `Publish` |
| `Collect` for one device | `Emitted` |

`Wrap` is the multiplication of `Half`-bounded integers (in the code, 64 bits). The
verdict of the heartbeat is a free choice here: `DeviceHealth` has how it comes about,
and treats the temperature as one value, which this module takes apart. `ever`,
`always`, `low` and `high` are history: the files that could be read at some time and
all the time since the assessment began, and the extremes of the temperature. They let
the properties say what an assessment that takes time ought to find.

What the model makes plain, beside the finding `stale_hwmon`:

- an override may be laxer than `temp1_max`, although `values.yaml` calls it stricter;
  `HeatCaught` therefore holds the card to the override alone, as the code does;
- an override whose product overflows gives a limit that is negative (no check at all),
  zero (fallback to `temp1_max`) or small (always unhealthy); the properties ask
  nothing of such overrides;
- a `temp1_max` that cannot be read for a moment switches the check off for that
  assessment;
- the series of the maximum temperature shows the limit in force, which may be the
  override.

### Scrape

The provider of `main` (`Provide`), `serveMetrics` (`HttpListen`, `HttpShutdown`), the loop
of `Collect` (`ReadSource`, one plugin at a time, `Answer`) and the counter of `Allocate`
(`CountAllocation`), composed with every action of `PluginLifecycle` (`LifecycleStep`):
the module extends it and shares its `mu` and its list. `sources[s]` is what scraper `s`
has still to read, `samples[s]` what it has read, `shown` the last answer. A scrape
holds pointers to plugins, so it goes on to read those that a restart has stopped.
The provider locks, copies and unlocks without waiting for anything in between, so it
is one step that needs `mu` to be free.

`ScrapesAreAtomic` maps this to `AtomicScrapes`, where a scrape takes the list of one
moment and answers in one step, with every plugin of the list, each once, and counters
no older than that moment and no newer than the answer. The list taken is `Given(s)`, what
`s` has still to read and what it has read; the history variable `since[s]` holds the
counters at the time of `Provide`. The abstract specification lets a restart replace the list
by any that has no class twice.

### CdiAllocation

Discovery card by card (`Scan`) while the cards change (`HardwareChanges`),
`WriteSpec` per class as open, fill, rename (`OpenTmp`, `FillTmp`, `Rename`, and
`DirectoryFails`, `WriteFails`), `New` (`Create`), the restart (`StoppedAll`,
`StopPlugin`), crash and start of the process, the kubelet's list and requests
(`Report`, `Ask`, `AskFails`), `Allocate`, and the runtime (`StartContainer`). A spec file is the
set of the names it defines. A request outlives the plugin whose list it was
chosen from: the kubelet may still hold an old list when it asks. `useCDI`
is chosen once in `Init`, so that both modes are checked by every run.

`started[c]` and `served[c]` are history: the containers that the present plugin of `c` has
answered and that have been started, and the requests it has answered. `CountsContainers` says
that the counter is exactly the number of containers answered, `CountsRequests` that it is
the number of requests, as the first of two statements in the metrics specification has it.

The kubelet restarts here while the process is idle; the moments at which it
may really strike are the subject of `PluginLifecycle`.

## 3. Runs

| Run | Question | Instance | Distinct states |
| --- | --- | --- | --- |
| `lifecycle_recovery` | do sockets and advertising recover? | 1 class, 2 processes, 2 restarts, 1 fault | 689 k |
| `lifecycle_races` | what survives a restart at any moment: one live plugin, complete lists, an orderly end? | 1 class, 1 restart, 1 fault, both races | 61 k |
| `health_reports` | are reports right and timely? | 3 devices (sound, free, sick), 1 stream, late ticks, 1 restart | 433 k |
| `assessment` | are verdict, limit and series right while the card changes? | 1 card, 2 temperatures, 2 overrides, 2 flaky files, 1 move of the driver per assessment, 16-bit integers | 328 k |
| `allocation` | do specs, plugins and answers agree? | 2 cards, 2 classes (both symmetric), 2 changes, 3 generations, 1 fault, 2 requests | 975 k |
| `scrape` | do scrapes and restarts get on? | 1 class, 1 scraper, 1 restart, 1 fault, 1 allocation | 243 k |
| `startup_gap`, `restart_race`, `seeded_snapshot`, `unwritten_spec`, `allocation_total`, `stale_hwmon` | see section 4 | the smallest that shows it | |

What the passing runs show:

- `lifecycle_recovery`: `NoListenConflict`, `RegisteredOwnsSocket`,
  `EndpointMovesForward`, the inductive invariant `SocketInv` and `Readvertised`, when
  restarts strike a settled process and one thing fails: a discovery, a removal or a
  listen, a registration, an inotify event. This is the intended operation of the plugin, and it is right.
- `lifecycle_races`: mutual exclusion and the lists (`LifecycleInv`), `OneLivePerClass`,
  `NoLeakedPlugin`, `NoDoubleClose`, `ShutdownCompletes` and `ImplementsIncarnations`, when restarts strike
  at any moment; and what the races of finding 2 can lead to at worst: a listener outlives
  `Stop` only when `Stop` found no server or `Serve` has still to close it
  (`StoppedServerIsDown`), only a plugin overtaken so is in the way of a listen
  (`ListenConflictIsZombie`), and no `Stop` unlinks the path of a live plugin, only the
  kubelet or the straggling goroutine of an older plugin does (`NoStrayUnlink`).
- `health_reports`: `NoFalseAlarm`, `MetricsMatchKubelet`, `SickNeverOffered`,
  `HeatDetected`, `FreezeDetected` and `Recovers`.
- `assessment`: `SeriesHonest`, `HeatCaught`, `CoolNotBlamed` and `SensorRecovers`.
- `allocation`: `SpecNeverTorn`, `SpecMatchesPlugin`, `OneResourcePerCard`,
  `AnswersResolve`, `CountsContainers` and the inductive invariant
  `AllocationInv`.
- `scrape`: `OneSeriesPerClass`, `SourcesAreLive`, `ScrapesAreAtomic`,
  `ScrapeCompletes` and `MetricsFollow`.

### Bounds

- `MaxProcs`, `MaxRestarts`, `MaxFaults` (lifecycle). Interference is between a
  generation and the next, so two generations show every pair; two restarts in
  `lifecycle_recovery` let a third generation meet what the first left, and the
  second process meets the files of a crashed one. One class is enough for the
  socket properties, since paths of different classes are disjoint. What the loops over a
  list of several classes do, after a discovery that found only some of them, is proved: every
  safety property of `lifecycle_races` holds for any set of classes and any `Races`
  (section 5). With two classes that run has millions of states. `allocation` has two,
  with discoveries that lose a class.
- `N = 3` (health): one device that never fails, one that may do anything and one that
  is never cool; the loop is at its first, at a middle and at its last device. Devices
  share no state but the list. One stream, as the kubelet keeps one per endpoint; what
  is said of several streams is proved, not run.
- One kubelet restart (health) forgets the stored values once; liveness needs no
  more, because it is about the last restart.
- `Ids`, `Classes` of two (allocation): a card can move to another class, and a
  class can lose or gain a card, each in the middle of a discovery
  (`MaxChanges = 2`). Three generations: a request, an answer and a spec of
  generation one meet generation three after a failure in two. Two requests of up
  to two containers each.

- `assessment`: 16-bit integers and the overrides 0 and 30, one that is unset and one
  that fits (of one that overflows nothing is asked); the card's own limit
  lies above the override that fits; one temperature is below all limits, and the other
  reaches `CardLimit` exactly, which an off-by-one would miss. One hwmon directory, which can come
  and go; `stale_hwmon` has two. The driver moves once in an assessment at most (`MaxMoves`),
  and freely between two: an assessment may begin without it and find it loaded at any read,
  or lose it at any read, which is all that a read and the one nested in it can tell
  apart; the proofs have any number of moves. The flaky files are the inner one of a nested
  read and `temp1_max`; the others, the sensor included, fail when the driver goes.
- `scrape`: one class, since scrapes of several classes only take longer; what
  one scrape may be given of two generations needs one restart. The counter goes to one,
  which is enough to tell the old plugin from the new.

### Races

`PluginLifecycle` takes `Races`, the moments a kubelet restart may pick.
Without `"startup"`, it does not fall between the first registration and the
installation of the watch. Without `"restart"`, it strikes a process that is done
with the restart before. The code does not guarantee either; the findings show
what goes wrong when they fail, the runs with `Races = {}` what holds without them, and
`lifecycle_races` what holds in spite of them.

### Fairness

- `WF` of each thread's and goroutine's steps: Go schedules goroutines that can run.
  Weak fairness is enough for them, since no step is disabled again and again while
  it waits: `mu` is held over a bounded loop, and in `PluginLifecycle` only two threads
  use it.
- `SF` of `Provide`: a scrape competes for `mu` with restarts and with other scrapes; Go's
  `sync.Mutex` hands itself to a waiter that has waited for a millisecond
  (starvation mode), so a waiter is never passed over for ever. `WF` of `ScrapeStep` and
  `ServerStep`: Prometheus scrapes again and again.
- `WF` of `AssessStep` in `Assessment`: the ticker of a stream fires for as long as there is
  one. Temperature, files, driver and `Restart` are free.
- `WF` of `KubeletStart`, `ProcessStart`, `KubeletConnect`, `StreamEnd`: the node's
  service manager restarts the kubelet, which restarts the container
  (a DaemonSet always does), acts on registrations and notices
  streams that end. Signals, crashes, kubelet stops and faults are never forced.
- `WF` of handlers, tickers, `Open` and `New` in `DeviceHealth`; hardware is free.

### Deadlock

Deadlock is not checked in the lifecycle, scrape and allocation runs. A process that was
told to end stays ended, and when the bounds on restarts, faults or requests are
used up nothing is left to do; that nobody waits for `mu` for ever is what
`ShutdownCompletes` and `ScrapeCompletes` are for. It is checked in the health and
assessment runs.

## 4. Findings

Six statements of the repository that the code does not keep, each with a run
whose counterexample shows how:

1. `startup_gap`. A kubelet restart between the first registration and the
   installation of the watch is never noticed (main.go:61).
2. `restart_race`. When a restart overtakes a starting plugin, `Stop` finds
   `grpcServer` nil (plugin.go:226) and the server that `Run` starts afterwards is never
   stopped, or the old goroutine unlinks its successor's path late (plugin.go:262); the
   successor fails to register, or is registered and unreachable, and nothing
   retries. `StoppedServerIsDown`, `ListenConflictIsZombie` and `NoStrayUnlink` say how far
   it can go.
3. `seeded_snapshot`. After a restart the metrics show every device as healthy until
   it is assessed (plugin.go:133).
4. `unwritten_spec`. When a spec cannot be written, the plugin starts in CDI mode all
   the same and answers with names no spec defines (main.go:97).
5. `stale_hwmon`. The hwmon directory is found once, at discovery; after the driver is
   reloaded under another number the card is unhealthy until the next kubelet
   restart, although its sensor is well (discover.go:233).
6. `allocation_total`. `tt_allocations_total` counts containers (plugin.go:375), as its help
   text and one scenario say; the requirement above that scenario
   (`openspec/specs/device-metrics/spec.md:54-56`) says `Allocate` requests served.

## 5. Proofs

Every theorem holds for all values of the constants that satisfy the named
assumption `ConstantsAssumption` of its module: any number of classes, cards,
devices, processes, restarts and faults. Those of PluginLifecycle_proofs and
Scrape_proofs, and the first part of PluginSockets_proofs, hold for every `Races`; four
theorems of its second part name the races that they exclude.

**PluginLifecycle_proofs.** `TypeCorrect`, then `LifecycleSafe`: `LifecycleInv` is
inductive. Its parts are `MutexInv` (who holds `mu` where), `CreatedInv` (lists name
created plugins, later generations are untouched) and `LiveInv`. The
interesting one is `LiveInv`: a live plugin belongs to the current generation, is
in main's list unless that list is being built, and, while a stop loop runs, is
still ahead of it. `OneLivePerClass` alone is not inductive: that `Create`
keeps it depends on the stop loop having missed nobody, which depends on the list
being complete when the loop began, which depends on `mu`. From the invariant
follow `NoDoubleCloseHolds`, `OneLivePerClassHolds`, `NoLeakedPluginHolds` and
`Refinement`, the step simulation of `Incarnations`. `MuIsReleasedHolds` goes through
the steps one by one: a thread takes `mu` only where it enters a section, and every step
that leaves one, `RestartFails` included, gives it back.
`PathSafe` (`PathInv`): a socket file was made by a listener of its class, nobody has a
listener before it listens, and once `RunClear` has removed the path no file of a process that
is gone can be in the way. Most steps are `Harmless` to it (no socket file is made or met);
`Create`, `RunListen` and `ProcessEnd` have lemmas of their own.

**PluginSockets_proofs.** What sockets, listeners and servers come to.
The first part assumes nothing of when the kubelet restarts:

- `ServeSafe` (`ServeInv`): a server is stored once and stopped after its channel is
  closed; a live plugin that has listened still listens; nothing of a process outlives it.
- `ListedSafe` (`ListedInv`): the lists that a stop loop works through name plugins of one
  generation, so that unlinking by name cannot hit a later one.
- `StopSafe` (`StopInv`): a plugin that was told to stop was overtaken, or is being drained,
  or has a stopped server and no file but the one its `Stop` is about to remove. A `Run` that
  has stored its server makes no file any more, which is why it stays so.
- `StoppedServerIsDownHolds`, `ListenConflictIsZombieHolds` and `NoStrayUnlinkHolds` follow. A
  file that a live plugin meets belongs to an older plugin (`OthersAreOlder`: the live one
  is the only one of the present generation), which was told to stop, so `StopInv` applies; a
  stop loop unlinks for plugins of the present generation, which it has stopped.

The second part is for the intended operation. `SocketSafe` is the inductive invariant under
`NoRestartRace`, which says that the kubelet does not restart while the process acts on an
earlier restart; the startup race is allowed. Its argument, in order:

- `RestInv`. The `Create` event is raised when every goroutine of the process is at
  rest, and the lemmas `EventsKept`, `StartRests` and `RestStays` keep it so until
  `startPlugins` creates the next plugin. So a stop loop of the watcher meets no `Run`
  between its listen and its end, and generations before the present one are at rest.
- `DownInv`. A plugin told to stop and at rest has stored its server if it listens, so `Stop`
  finds it and drains it. Shutdown may meet goroutines under way; `Calm` says when it
  has not, and it is the last thing the process does.
- `ClearInv`. Of a class only one goroutine is under way (`OneUnderWay`), so the path that
  `RunClear` has cleared is still free when `RunListen` comes to it.

`NoListenConflictHolds` and `EndpointMovesForwardHolds` follow under `NoRestartRace`. `RegisteredOwnsSocketHolds` adds `OwnerInv` (from the listen to
the next restart the file at the path is that of the live plugin) and excludes the startup race
too (`NoRace`): a kubelet that restarts before the watch is installed empties the
directory and raises no event. The two hypotheses are not promises of the code.
They say when the kubelet may restart, and the runs `restart_race` and `startup_gap` show
that they are needed; without these two races the three properties hold for any number of
classes, restarts, crashes and failures.

**DeviceHealth_proofs.** `TypeCorrect`. `SickNeverOfferedHolds`: the list under
construction already has FALSE for every sick device the loop has passed, whatever
the other streams do. `NoFalseAlarmHolds`, for one stream: while `late` is 0, a sound device
that the loop has still to look at has no `"current"` value stored, and those it has
looked at are TRUE in the list; a tick that comes late ends what is known, and the second tick
after it that comes on time restores it.
`MetricsMatchKubeletHolds`, for one stream: from `Publish` on, the list of the
stream is what `snapshots` holds. That the kubelet keeps one stream per endpoint is an
assumption of both.

**CdiAllocation_proofs.** `TypeCorrect`, then `AllocationSafe`: `AllocationInv` is
inductive. `FoundInv`: a card is grouped once, because the loop looks at it once;
`SpecInv`: the spec of a class found has been installed, or has failed, or is
still to come, so none is to come when plugins are made; `AnswerInv`: an answer
carries a generation that is not in the future, and one of this generation names
what this discovery found. `SpecMatchesPluginHolds`, `OneResourcePerCardHolds`,
`AnswersResolveHolds` and `SpecNeverTornHolds` follow. `CountInv` says that a plugin
still to be created has answered nothing, so that its counter may begin at zero, and `AskInv`
that the containers of a request under way ask for ids no other container has, so that
a request adds as many answers as it has containers (`AnswersCount`); together they give
the equality of `CountsContainersHolds`.

**Scrape_proofs.** A step of the composition is a step of `PluginLifecycle` or leaves its
variables alone (lemma `ScrapeRunsLifecycle`), so all its theorems hold beside any number
of scrapes.
`ScrapeSafe`: `ScrapeInv` is inductive. `SourcesAreLive` alone is not: that the list
names live plugins when `mu` is free depends on the list under construction
naming live ones (`ListInv`), which depends on the stop loop being over when it
begins (`LiveInv` of the lifecycle). `GivenInv` says that what a scrape has been given
is of one generation; `OneSeriesPerClassHolds` and `SourcesAreLiveHolds` follow.
`ScrapesAreAtomicHolds` is the step simulation of `AtomicScrapes`. It rests on `ReadInv`: a
plugin that a scrape was given is still to be read or has been read once, with a counter
between that of `since` and the present one. A step of the lifecycle replaces the
list (`Replace`; by `ListInv` it is of one generation, so no class is in it twice) or ends the
process (`Cease`, where `MuIsReleased` says that `mu` is free); `Provide` is `Take`, `ReadSource`
is a stutter, `Answer` is `Answer`.

**Assessment_proofs.** `OverrideFits`: an override whose product fits is multiplied
exactly, for every width, and is in force; `LimitIsRight`: a reading is found too hot
exactly when it reaches the limit that the card should be held to. `AssessSafe`:
`AssessInv` is inductive. `HistoryInv` bounds the present by the history; `GotInv` says
that what was read could be read and that a file whose turn has come, and which could be read
all the time, has been read; `HeatInv` says that a reading that has passed was
below the limit, and that one that has not is to blame. `SeriesHonestHolds`,
`HeatCaughtHolds` and `CoolNotBlamedHolds` follow, for every set of temperatures,
directories and files that come and go.

Only model-checked:

- liveness (`Readvertised`, `ShutdownCompletes`, `HeatDetected`, `FreezeDetected`,
  `Recovers`, `ScrapeCompletes`, `MetricsFollow`, `SensorRecovers`): fairness and
  `ENABLED` are out of the proof system's reach.

## 6. Not modelled

- The values of telemetry series and the parsers of the AER and link-speed files: pure
  string functions, whose failure is modelled as a file that cannot be read.
- Topology and the NUMA node: read once and handed on without deciding anything.
- Which mounts and environment variables `Allocate` adds: constant data.
- `RemoveSpec`: the program never calls it.
- The pre-start container and preferred-allocation calls: neither changes state.
- The chart, the DaemonSet, the image and the scripts: configuration and tools that
  share no state with the process. The restart policy is `ProcessStart`; the environment
  variables are constants (`useCDI`, `configured`).
- `TT_METRICS_ENABLED=false`: the same as a metrics server that could not listen.
- Names, units and help texts of metrics, permissions, the contents of JSON, log lines.

## 7. Plan

Done: `PluginLifecycle` with `Incarnations`; `DeviceHealth`; `CdiAllocation`; `Scrape`,
which composes the metrics server with the lifecycle; `Assessment`, which has hwmon
discovery and the temperature limit in one module, since the verdict needs both; the proofs
of the safety properties of all runs; `AtomicScrapes`.

Left, in this order:

1. A composition of `DeviceHealth` and `PluginLifecycle`: a stream that belongs to an
   incarnation, so that what the kubelet holds after a restart is the new plugin's list.
2. `Assessment` as an implementation of `AssessTemp` and `AssessBeat` of `DeviceHealth`,
   with the hwmon directory and the heartbeat file in one model.

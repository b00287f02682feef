# mmfp-govee: a TLA+ verification project

`mmfp-govee` listens for webhooks of a mining monitor and plays light effects on
Govee lamps, over the local network where a lamp answers there and over Govee's
cloud otherwise. A web UI edits the configuration and drives lamps by hand.
This directory models the parts of the program in which something can go wrong
between two steps, checks them with TLC on small instances, and proves the
central properties with TLAPS for every instance.

## 1. Inventory

| Component | State | Operations | Talks to |
|---|---|---|---|
| Webhook listener `internal/hooks` | none of its own | authenticate, handleHook, dispatch | configuration (read), engine (Enqueue), activity log |
| Mapping dispatch `internal/dispatch` | none | DeviceFor, JobFromMapping | configuration, engine |
| Effects engine `internal/effects` | lastRun per mapping, a mutex per device, quiet-hours setting, context, wait group | Enqueue, EnqueueControl, SetQuietHours, Stop, one goroutine per (call, device) | the Govee client through the Controller interface, activity log |
| Activity log `internal/activity` | ring of 200 records | Add, Recent | engine and hooks write, the UI reads |
| Govee cloud client `internal/govee/client.go` | call budget, last send slot, device and scene catalogs | Power, Color, ..., Control, State, ListDevices, RefreshDevices, ListScenes | cloud, breaker, LAN service, caches |
| Circuit breaker `breaker.go` | outage streak, open-until time, probing flag | breakerCheck, recordOutcome, probeRecovery, clearBreaker | wraps every cloud call |
| Transport selection `transport.go` | none (reads routes) | lanServe, TransportFor, VerifyReachable | LAN service |
| LAN service `lan.go` | routes, status waiters by address, last send per address | Scan, receiveLoop, dropRoute, seedStatics, Status, pace | lamps over UDP |
| Catalog caches `devicecache.go`, `scenecache.go` | a file, its temporary, the map in memory | load, save, WarmSceneCache | client |
| Configuration `internal/config` | the live Config pointer, config.json | LoadConfig, GetConfig, Save, migrateEncryption | every handler |
| UI handlers `internal/handlers/v1` | a sensor cache | settings, tokens, mappings, devices, control, sensors | configuration, engine, client |
| Process `cmd/mmfp-govee` | - | start order, stop order | all |
| Logger `internal/logger` | the log file, the writer all loggers share, rotated and compressed files | Write, checkAndRotate, compressLogFile, cleanupOldLogs, StopRotation, CloseLogFile | every component logs; main starts and stops it |
| Login, middleware, secrets, web pages | stateless | - | - |

What is hard, and what must hold:

- **Engine**: webhook calls, UI tests, manual writes, the operator saving quiet
  hours and Stop all overlap. Commands of two runs must not mix on a lamp; a
  storm must collapse to one effect and keep collapsing; quiet hours must match
  the clock; every run of a queued job must get one verdict, also when a mapping
  lists a lamp twice; a failure anywhere must neither keep a mutex nor leave a
  half-restored lamp reported as a success.
- **Breaker**: calls that started before, during and after an outage report in any
  order; the breaker must open only on outages, and must be able to close.
- **LAN**: UDP loses, delays and duplicates; replies carry no request id; routes
  change under a running effect. An "effect ok" must not be reported for writes
  that vanished.
- **Caches and configuration**: read-copy-save without a lock across it, files
  replaced or rewritten, a crash in between. A saved catalog must survive whole and
  must keep the time it was fetched at.
- **Webhooks**: a request reads the configuration twice while the operator saves.
  Nothing may run that was not configured, and the log must account for every
  request, in an order a reader can trust.
- **Sending**: callers reserve slots under a lock and sleep outside it. Requests must
  keep their gap however callers are woken, without a backlog nobody waits in.
- **Stopping**: two servers, the engine and the LAN socket are stopped one after the
  other, with two timers, while requests and runs go on. Only what came too late, or
  was given up on, may be lost.
- **Log file**: loggers write while the file is closed, renamed, replaced, compressed
  and deleted behind their backs. What a file held when it was renamed may be lost by
  the deletion of old files only; lines logged while a rotation is under way reach
  stdout only.

## 2. Modules

| Module | Models | Kind |
|---|---|---|
| `QuietHours` | the suppression window: `QuietHours`, `Location`, `inQuietHours`, `parseHHMM`; a reference definition that walks the clock | operators |
| `LampEffects` | the command plans of `runFlash`, `runSolid`, `runOn`, `applyAfterScene`, `restore`, `execute`; what a report holds; the lamp (external) | operators |
| `AtomicRuns` | the abstract promise: a run changes what its lamp shows in one step and gets one verdict | specification |
| `Engine` | Enqueue, EnqueueControl, the workers, SetQuietHours, Stop; extends `LampEffects` and `QuietHours`, implements `AtomicRuns` | specification |
| `Breaker` | the circuit breaker with `do`, `spend` and `doRequest` around it | specification |
| `LanRoutes` | scans, routes, status waiters and drops of the LAN service, with the readers that use it | specification |
| `ConfigStore` | config.json, the live configuration, the handlers that change it, the start | specification |
| `CatalogCache` | the device list and the scene lists in memory, their files and temporaries, the start-up goroutine, restarts | specification |
| `ActivityLog` | the ring of records, Add and Recent | specification |
| `Webhooks` | a webhook or a mapping Test from its arrival to the verdicts of its jobs; extends `ActivityLog` | specification |
| `SendSlots` | the spacing of cloud calls (`spend`) and of LAN packets (`pace`) | specification |
| `Process` | the stop sequence of main against requests and runs | specification |
| `LogRotation` | writers, rotation, compression, cleanup, stop and restart of the log file | specification |
| `MCEngine`, `MCBreaker`, `MCLanRoutes`, `MCConfigStore`, `MCCatalogCache`, `MCWebhooks`, `MCSendSlots`, `MCProcess`, `MCLogRotation` | finite instances | model checking |
| `EngineProofs` (with `QuietHours`, `LampEffects` and `AtomicRuns`), `CloudCallProofs` (`Breaker` and `SendSlots`), `LanRoutesProofs`, `ConfigStoreProofs`, `CatalogCacheProofs`, `WebhooksProofs` (with `ActivityLog`), `ProcessProofs`, `LogRotationProofs` | theorems | proofs |

The specifications meet at interfaces that each leaves open. A Controller write of
`Engine` may be reported sent or failed, and may have reached the lamp or not either
way; a state read may fail, leave fields out or tell of an earlier look. That covers
what `Breaker`, `SendSlots` and `LanRoutes` do to it: over LAN a nil error says that
the packet has left the host. The settings `Engine` takes from its operator
are what `ConfigStore` hot-applies. `LanRoutes` has the phases of an `Engine` worker
(capture, write, verify) and takes the cloud path as always possible. `Webhooks` lets
Enqueue answer with any of the results `Engine` has, and lets a job end any time
later; the configurations its operator saves are whatever `ConfigStore` makes live.
The cloud of `CatalogCache` answers or not, which is all `do` tells its callers.
`Process` keeps of the engine what main can tell: how many runs are under way, and
whether the goroutine in wg.Wait has been woken.

In every module a definition headed "Mutant" is a wrong version of the one below it:
replacing the right one by it must make a run fail, which shows that the property is
about that piece of code.

### `Engine`

A **call** is one goroutine inside `Enqueue` or `EnqueueControl`; `stage[c]` is where
it is. `Enqueue` is four steps: `ReadQuiet` copies the window under quietMu (`copy[c]`),
`EnqueueQuietCheck` looks at the clock, `EnqueueCooldown` holds mu, `EnqueueStart`
writes the log and has the `go` statements. A job's devices are the entries of its
list, pairs of a device and a mark that tells apart the places where the list names
it: a mapping, and a request of the API, may name a lamp twice. A **worker** `<<c, e>>`
is the goroutine of call `c` for entry `e`, `Lit(w)` its device; a lamp that is listed
twice has two runs, one after the other, and two verdicts. `pc` is a worker's phase,
`todo` the commands it has still to send, `deviceLocks[d]` the holder of the device's
mutex. `SendCommand(w, ok, landed)` is one Controller write with its outcome: the lamp
may have heard it or not, whether it was reported sent or failed. A failed write ends
the run (`must`) except inside `restore`. `Capture(w, look, fields)` is a state report
of the lamp's look, or of one of `EarlierLooks`: a devStatus may come late.
`activity[c]` holds the records call `c` has added, in order.

`accepted`, `decided`, `turns`, `before` and `slips` are history: no guard reads them.
`slips[w]` says what an "effect ok" of `w` cannot vouch for: a write reported sent that
the lamp did not hear ("unheard"), a capture that failed, one that did not say how the
lamp looks, a restoring write that failed, a scene swallowed by a waking lamp.

Abstractions: the after-scene of an entry is what `DeviceFor` resolved, a mapping's
override or else the scene the device has in the configuration, and enters as a scene
per entry; colours, brightness and scenes are numbers; a lamp's white mode (colour
temperature) is left out; the transport label of a record is left out; time is a count
of minutes; a run may reach its five-minute deadline in any sleep. `Validate` is called
by every caller of `Enqueue`, so an unknown effect or end state is not a state of the
program. A lamp is changed by nobody else.

### `Breaker`

A **caller** is a goroutine inside `do`, a **prober** one of `probeRecovery`.
`at[r]` is its step. `c.mu` is taken once in `breakerCheck` (`CheckPasses`,
`CheckRejects`, `CheckProbes`), once in `spend` and once in `recordOutcome`; the
request lies between the last two. `Refresh` is `clearBreaker` at the head of
`RefreshDevices`, a step of its own before `breakerCheck`. `breakerUntil` is kept as
ticks left (0: lapsed, -1: the zero time). The budget rolls in `spend` once `Midnight`
has passed. `doRequest` gives an answer, a rejection (4xx, or an error code in the
envelope), no answer, an error because the caller's context ended, or an error
before anything was sent. `outageStreak` is capped at the threshold, which no test
in the code tells apart. The spacing of calls and the text of `breakerErr` are left out.

### `LanRoutes`

A **reader** reads a device's state over LAN: a **sweep** is `fetchState` for the UI, a
**run** an effect that captures, writes and then calls `VerifyReachable`. The route read
(`RouteFound`), the registration of the waiter (`Register`), the send (`SendQuery`), the
cleanup (`GiveUp`) and `dropRoute` take different locks, so each is a step. `scanning`,
`found`, `queries` and `replies` are datagrams on their way: any may be lost, late or
delivered twice. `missed` is history: the devices for which a datagram of a scan was
lost since their route was last dropped. A lamp may lose power, and come back at another
address. Scans answered while a device has power renew its route; `static` marks a route
that came from the configuration. `wrote` and `heard` are history.

### `ConfigStore`

`Copy` is what every handler does first: `GetConfig`, its tests and `cloneConfig`. A
settings request may name a timezone, and keeps that of its copy when it names none
(`Updated`). It
is one step because a configuration is not edited once it is live. `SaveOpens`,
`SaveEnds` and `SaveFails` are `Save` under the manager's lock, with the moment in
which `os.WriteFile` has truncated the file; `HotApply` is `engine.SetQuietHours`
after the lock is gone. `Load`, the three steps of the migration, `Refuse` and the
default file are main.go's start; a crash may come anywhere. `fresh`, `stale`, `named` and
`behind` are history: whether a copy is still of the live configuration, whether one
that was not has ever been saved, which requests name a timezone, and which copies are
older than a change of timezone.

### `CatalogCache`

A **part** is what one fetch brings: the account's device list, or one lamp's scenes.
A **client** is a web handler or `Boot`, the goroutine main starts to refresh the
catalog and then to warm the scenes. `cacheMu` is held for single assignments, so
`StoreDevices`, `StoreScenes`, `Snapshot` (the copy `saveSceneCache` makes) and
`Fallback` are steps of their own, between the cloud's answer and the save. A save is
`OpenTmp`, `Write`, `Rename`, each of which may fail. Files are modelled with their
descriptors: `fd` is where the open descriptor of a client leads, which is how two
saves that share one `.tmp` can put a torn file in place. An entry carries the number
of the answer it came with and the time it is stamped with. The clock moves with the
answers. `Restart` may come at any point and primes memory from the files. Left out:
the time to compute JSON, an answer whose scenes are all without a value, and an
answer of code 200 with a null list, which is an empty one here.

Where updates cross the code promises little: saves that overlap on one .tmp, answers
that reach memory in another order than they came, a save that fails. `overlapped`,
`crossed` and `unsaved` record such crossings and the properties excuse them, so they
say that nothing else does harm, not that crossings do none.

### `ActivityLog` and `Webhooks`

`Add` makes a record and then inserts it under the lock, so two goroutines may insert in
the other order: `adding` holds the records in between. A **hook** is one request, a
webhook or a mapping Test. `Authenticate` is the first read of the configuration, `Body`
the arrival of the body, at any time after it, `Dispatch` the second read; `DispatchOne`
takes its mappings one at a time, as the loop does, and hands a match to Enqueue, which
answers whatever it may. `Save` replaces the live configuration at any time. A token's
secret, a mapping's filter and its events are members of small sets, the filter as the
set of entities it lets pass. `seen` and `fired` are history.

### `SendSlots`

`slots[l]` lists the slots of a lane, of which the code keeps the last (`lastCall`,
`lastSend`); `Reserve` is the code under the lock, `Send` what follows the sleep.
`Tick` may pass a sleeper's slot by up to `MaxLate`, which is how late the scheduler
wakes it. The gap is a constant per lane, 100 ms for each lane of the code.

### `Process`

`main` is where `runServer` is; `HooksStopped`, `EngineStopped` or `EngineAbandoned`,
`LanStopped` and `WebStopped` are its statements after the signal. `Accept` gives a
request to its server while that one listens; `HandOver` is wg.Add with the start of a
run, which the engine does not refuse once its context is cancelled. Go's WaitGroup
wakes its waiter at the last Done and panics if Add comes before that waiter is back:
`wait` says where the waiter is. `Expire` is the end of the 30 s; engine.Stop's own 10 s
may be over whenever it waits. `ServerFails` is the other way out of `runServer`, told
apart from a `WebStopped` that the 30 s forced. A run may end ok or failed at any time,
after the cancel and the closing of the socket too: a verification that finds no route
confirms it. `late`, `early` and `reused` are history: what came after the engine was
waited for, what main did not wait for, and which Add fell into the gap.

### `LogRotation`

Every log file has a number, `path` is the one at the log's path. A **writer** takes the
shared output under the lock (`Take`) and uses it later; a line for a closed file goes
to stdout only. `PutBegins` and `PutEnds` are the beginning and the end of the write(2):
Close does not wait for one in flight, which then reaches the renamed file. `sealed` is
what a file held when it was renamed, `copied` what its compression has read. The
checker's steps are the statements of `rotateLogFile` and `cleanupOldLogs`; each may
fail where it uses the file system. `packing[g]` is the goroutine that compresses file
`g`. `byTime` is the order of the modification times, as pairs, which is what cleanup
sorts by; that files may also be too old is the choice of `n` in `ListOld`. Rotated
names are distinct: they carry the second, and the checker ticks once a minute.

## 3. Runs

| Run | Instance | Shows |
|---|---|---|
| `EngineRuns` | 1 lamp in 3 looks, listed once or twice, 2 calls, 6 effect jobs and a manual write, a late look, 2 kinds of report | `NoInterleaving`, `OneVerdictPerRun`, refinement of `AtomicRuns` (`RunsAreAtomic`) |
| `EngineCalls` | 3 calls, 2 mappings, cooldowns 0, 2, 3, 3 settings saved at any time, a day of 4 minutes, clock to 3 | `CooldownCollapses`, `LastRunWasAccepted`, `QuietHoursHonoured` |
| `EngineLive` | 2 lamps, 2 calls, 2 effect jobs and a manual write, Stop, fairness | `EveryRunIsReported`, `StopReturns` |
| `BreakerRuns` | 2 callers, 2 probers, threshold 2, cooldown 2, budget 1 | `OpenOnlyAfterOutages`, `OneProbeAtATime`, `RecoveryIsNoticed` |
| `LanRuns` | 1 device, 1 address, 1 run, 1 sweep, a configured route, 1 startup scan, 1 power cut | `WaitersAreWaiting`, `StaticsStayDropped`, `UnansweredRunsFail`, `RouteReturns` |
| `LanVanished` | 1 device, 1 run, 1 sweep | a refuted comment (section 6) |
| `ConfigRuns` | 2 handlers, 1 mapping, 1 token, 1 device, 1 timezone or none, 1 crash; no file, a half-written one, or one typed by hand | `FileIsLive`, `OnlyStaleSavesOrphan`, `PlaintextNeverComesBack`, `HandEditedZoneStays` |
| `CatalogRuns` | 1 handler beside the start-up goroutine, 2 lamps, 3 answers of the cloud, 1 restart | `TypeOK`, `CatalogsAreFetched`, `SavedCatalogSurvives`, `NothingOlderThanStart`, `FileCatchesUp` |
| `WebhookRuns` | 2 requests of 5 kinds, 3 configurations, a ring of 2 | `TypeOK`, `RecentIsTheLatest`, `EveryHookIsAccounted`, `NothingRunsUnconfigured`, `QueuedBeforeVerdict` |
| `SlotRuns` | 2 lanes, 3 callers, 3 requests a lane, gaps of 2, sleepers up to 1 late | `NoBurst`, `BacklogIsCallers` |
| `ProcessRuns` | 2 webhooks, 1 page, fairness | `NoLateWebhookRuns`, `SocketOutlivesRuns`, `KilledRunsWereLate`, `CrashNeedsALateAdd`, `ProcessEnds` |
| `LogRuns` | 2 writers, 3 log files, 3 lines, 2 backups, 1 restart | `TypeOK`, `LinesAreKept`, `AtRestLinesReachTheFile`, `NoWriteToRotated` |

The type invariants that section 5 proves for every instance are not checked again
on a small one.

Why the bounds are enough:

- **Engine.** Mutual exclusion, a capture and a restore concern one lamp and two runs; a
  job that lists the lamp twice and another call make three. Two lamps are needed only
  for a call whose workers do not wait for each other, which `EngineLive` has. One
  earlier look, of a lamp that is off, is the one a late report does most harm with. Two
  of the three calls of `EngineCalls` fight for one mapping while a third moves another,
  or all three fight. Cooldowns of 0, 2 and 3 minutes against a clock of 0 to 3 give
  "just inside", "exactly at" and "past" the cooldown; a day of 4 minutes makes the
  clock, shifted by a timezone, pass midnight inside the run, with windows saved between
  a call's copy and its look at the clock, windows that wrap, that do not, and that name
  a timezone that does not load.
- **Breaker.** Threshold 2 is the least at which a streak can be interrupted; two
  callers and two probers are the least at which an outcome clears the flag of a
  probe that is still out. A budget of one call is exhausted and rolls at midnight.
- **LAN.** Duplicates and delays need only one query; one power cut separates silence
  from a dead route. Moves to another address are not in `LanRuns`: the
  theorems of `LanRoutesProofs` cover them, for any number of addresses.
- **Configuration.** Two handlers make one stale. One crash restarts the program from
  every content of the file. One timezone or none lets a request name it, keep it, or
  put back the absence of it. The theorems cover the rest.
- **Catalogs.** Two clients are the least that share a temporary file; two lamps let a
  save of one lamp's scenes lose the other's. Three answers are a catalog,
  an update of it, and one more update that crosses it; after a restart they
  leave a fallback.
- **Webhooks.** Two requests add records around each other; three configurations
  revoke a token, re-issue one, and disable or break a mapping. A ring of two wraps
  with the third record, and one request adds up to four.
- **Slots.** Three requests of a lane are the least of which the middle one can be
  early or late for both its neighbours; one lane leaves the other alone. The theorems
  cover any number.
- **Process.** Two webhooks and a page put a run before, in and after each statement
  of the stop; requests meet only at the wait group. The theorems cover any number.
- **Log.** Two rotations let the compression of the first overlap with the second and
  with the cleanup; with three files and their copies, two backups are exceeded.

The constraints of `EngineRuns` and `EngineCalls` leave Stop to `EngineLive`: what it
does to a run in a sleep, the run's own deadline does as well. `EngineCalls` also keeps
the workers before their mutex, since no call reads what they do. Deadlock is checked in
`BreakerRuns`, `LanRuns` and `ConfigRuns`. In the others the calls, requests, answers
or lines are finitely many and the system then rests, or, in `Process`, has ended.

## 4. Fairness

- `Engine`: a goroutine that can run does, and every controller call and every sleep
  ends (HTTP client timeout, LAN reply timeout, timers): weak fairness of each
  worker and call. A `sync.Mutex` hands itself to a waiter starved for a
  millisecond: strong fairness of `TakeLock`. Arrivals, the clock, the operator and
  Stop owe nothing, and Stop's own timeout is not relied on.
- `Breaker`: goroutines are scheduled and requests end (`clientTimeout`), time
  passes, and somebody keeps using the program, without which nothing would ever
  ask the cloud again. The cloud owes nothing; `RecoveryIsNoticed` supposes it answers.
- `LanRoutes`: a datagram of a scan does not stay on its way: the scan reaches the
  lamp, which answers, or is lost, and the answer is handled or lost. The network may
  lose every one, and the code repeats none, so `RouteReturns` promises a route only
  to a device for which no datagram of a scan was lost since its route was dropped.
  Readers, the operator and Stop owe nothing.
- `Process`: main goes on from a statement that need not wait, and its timers fire:
  weak fairness of `MainStep` and of `Expire`. Nothing is assumed of requests and
  runs, which may hang for ever: `ProcessEnds` rests on the timers alone.
- The others: none; they have no liveness property.

## 5. Proofs

Each theorem holds for every value of the constants that satisfies the module's
named assumptions, which only type the constants and keep the special values apart,
with one exception: `BreakerAssumption` asks that a probe (its wait in `spend` and
`clientTimeout`, 10 s) ends before `breakerCooldown` (60 s) is over.

- **`EngineProofs`**. `TypeCorrect` needs `JobInv` (a call that is not idle has a job of
  its kind, a worker exists only once its call has returned). `CommandsNeverInterleave`:
  `SerialInv` says that a worker past its lock holds the mutex, that one which has not
  begun to send is in nobody's turns, and that one which is sending can only be the
  last. `StormsCollapse`: `CooldownInv` says that `lastRun` is the latest acceptance of
  its mapping and never ahead of the clock. `CooldownsStartWithRuns`: once a call is
  accepted it stays `Behind` its acceptance, which is to be, and then is, recorded as
  queued. `OneVerdict`: `LogInv` says that only started workers of a queued job add
  records of a device, and `Tallies`, that a lamp has as many ok and as many failed ones
  as workers that ended so; each last step of a worker adds one to both sides.
  `QuietHoursAreHonoured`: `QuietInv` says that what the test decided is kept until it
  is the first record; what the test decides is `QuietHoursMatchClock`. The module also
  holds the facts about the operators `Engine` is built from: the two comparisons of the
  code are the minutes a clock passes from start to end, and every plan is a finite
  sequence of commands with real values. `EngineIsAtomic` is the refinement. Where a
  plan leads is not said by any one of its commands: the lemmas on plans say that from
  any point of a plan the commands left, if they all land, bring the lamp to what the
  plan's verdict promises (`EffectPlanShows`, `RestoreBringsBack`, `SceneComesLast`).
  `CourseInv` carries that along a run: a worker with an empty `slips` is on its way to
  what ok would say. An ok whose worker was not heard by its lamp every time is "ok,
  unheard" and promises nothing about the look; one with another slip (the capture
  failed or told of an earlier look, a restoring write failed, a scene was swallowed by
  a waking lamp) is "best effort", which only a run that captures can be. It needs
  `SerialInv`, since only the holder of the mutex writes. Each step of `Engine` is then
  a step of `AtomicRuns` or leaves all of its variables alone (`NoRunStep`, `StartStep`,
  `RunStep`).
- **`CloudCallProofs`**, the breaker. `OpensOnOutagesOnly`: `StreakInv` says that the last
  `outageStreak` outcomes are failures to get an answer, and an open breaker has a
  streak at the threshold. `ProbesNeverOverlap`: `ProbeInv` says that while a probe is
  out an open breaker stays open at least until the cooldown the probe started is
  over, so it has not lapsed, flag or no flag.
- **`LanRoutesProofs`**. `NoWaiterIsLost`: `WaitInv` (a reply is in the channel of a
  waiting reader only), on `AskedInv` (a reader past its route read remembers an
  address). `ConfiguredRoutesStayDropped` is a fact about steps.
  `UnansweredRunsAreReported`: `HeardInv` says that a verifying run whose reply has come
  from the address it wrote to has been heard, so only a reply of another address, or no
  route, can confirm it.
- **`ConfigStoreProofs`**. A request does one thing to the state, it gives its handler
  a changed copy of the live configuration; `RequestCopies` says what each copy keeps.
  `FileInv`: what is in memory holds no plaintext, and a file that parses is what is
  in memory once loaded; from it `FileIsAlwaysLive` and `SecretsStayEncrypted`.
  `RefInv`: until a stale copy is saved, the file, the live configuration and every
  fresh copy name tokens they hold (`OrphansComeFromStaleSaves`). `ZoneInv`: every
  copy has the zone of the live configuration, but for those of requests that named one
  and those made before it was changed (`ZoneIsKept`).
- **`CatalogCacheProofs`**. `CatalogsFetched`: `Sourced` says that every entry held
  anywhere, on its way included, was fetched under the part it is held for, `Asked`
  that a client holds the answer to its own question. `SavedSurvives`: `Savable` (only
  a usable catalog is ever on its way) and `Alone` (while no two saves of a kind have
  overlapped there is one writer, and the .tmp is its own text). `NothingOlder`:
  `Fresh`, no entry is older than what the process was primed with; a .tmp counts
  only while somebody writes it, since the next save writes it anew. `TheFileCatchesUp`:
  `Synced`, the file holds what memory holds or a save that will write it is under way.
- **`CloudCallProofs`**, the slots. `SlotsStaySpaced`: appending a slot a gap behind the
  last keeps every pair spaced. `RequestsNeverBurst`: `Punctual` says that a sleeper is
  not overdue by more than `MaxLate` and that every request left between its slot and
  `MaxLate` after it; two such requests are as far apart as their slots, but for that.
  `TheBacklogIsCallers`: the slots of a lane that are not due yet are its end, a gap
  apart, and each has a sleeping caller of its own, so there are no more of them than
  callers.
- **`WebhooksProofs`**. `TheLatestAreShown`: `RingInv` says that the k-th newest record
  is k slots behind `next`, around the ring. `TheVerdictComesAfter`: `VerdictInv` says
  that a running job is recorded as queued or its caller is still inside that Add, and
  that a verdict on its way finds the record in the log. `HooksAreAccounted`: the answer
  speaks of the log only when nothing is on its way, so `AccountInv` counts the records
  in the log and the one inside an Add together: before dispatch there is none, in
  its loop as many as mappings have matched, and what they say fits the answer.
  `NothingUnconfiguredRuns`: `OriginInv` says that the live configuration is one the
  hook has seen, that the name it was given belongs to a token of one it has seen, and
  that so do the mappings it has still to look at.
- **`ProcessProofs`**. `HooksInv`: past the stop of the webhook server no webhook is
  being served unless the 30 s cut it off, so none hands over a run late
  (`WebhooksStopFirst`). `RunsInv`: once Wait has been woken the runs alive reused the
  group, once it has returned they are late; past engine.Stop it has returned or the
  engine was abandoned. From it `SocketIsClosedLast`, `OnlyLateRunsAreKilled` and
  `CrashesComeFromLateAdds`.
- **`LogRotationProofs`**. Neither the types nor the properties are inductive alone. A
  file holds at most the lines logged because a line is in one file or with one
  goroutine: `SizeInv` counts those too (`LogIsTyped`); the file renamed is one that is
  there: `PathInv`. `LinesReachTheFile`: `RestInv` follows the loggers round a rotation,
  the steps at which they may be behind included. `RotatedFilesStayClosed`: `OpenInv`,
  only the file at the path is ever open, so a goroutine with an old output begins no
  write on it. `LogLinesAreKept`: `FilesInv`, a file being packed is on disk until its
  copy is finished, unless cleanupOldLogs took it, the copy has all the lines the file
  held when it was renamed, and no file is at the path and on disk at once.

Only model-checked are the five liveness properties, which the prover does not handle:
`EveryRunIsReported`, `StopReturns`, `RecoveryIsNoticed`, `RouteReturns` and
`ProcessEnds`. Every other property of section 3 that a passing run checks has a
theorem, and so has every module's type invariant.

## 6. Where code and comments disagree

| Run | Sentence | What the code does |
|---|---|---|
| `LanVanished` | no fallback that would "report 'effect ok' for writes that vanished" (transport.go 153) | a sweep that drops the route before `VerifyReachable` has that effect |

The run checks that sentence, `OkMeansAnswered`, and ends in a counterexample. Seen
while modelling, without a run of their own:

- "let in-flight effects finish" (main.go 215): Stop cancels the context first, so a
  blink ends in its next sleep.
- "a test blink must not leave an already-on lamp dark (or change its color)"
  (devices.go 247): the first failed write ends the run without restore.
- An outage means "the Govee cloud is not answering" (breaker.go 37): a request whose
  caller went away counts too.
- A dropped route "can come back on its own" (lan.go 345): the one scan a drop sends
  may go out while the lamp has no power, or be lost, it or its reply; nothing repeats
  it, and the lamp stays on the cloud until the next drop or the operator's re-scan.
- A write that is reported sent over LAN may never be heard (lan.go 360), and a late
  devStatus may make `restore` put back an earlier look (lan.go 302): both runs can end
  in "effect ok". `AtomicRuns` has a verdict of its own for the first, and counts the
  second as best effort.
- A mapping, or a request of the API, that lists a lamp twice is played on it twice,
  one run after the other, and leaves two verdicts (engine.go 216, mappings.go 43).
- "must not wipe it" (settings.go 135): a copy made before another request changed the
  timezone puts the old one back when it is saved.
- A line that is being written while the log is rotated may reach the old file after its
  compression has read it, and is deleted with it; lines logged between the closing of
  the old file and the swap go to stdout only (logger.go 214 to 250).
- "Hot-apply quiet hours to the running engine" (settings.go 154): two updates may be
  saved in one order and applied in the other, after which the engine and the file
  have different windows.
- "let in-flight effects finish" again: the web server is the last to stop, so a page
  may hand over a run after engine.Stop. It is killed with the process, and one that
  falls between the last Done and the return of Wait panics (`CrashNeedsALateAdd`).
- Scene warming costs its calls "exactly once in the install's life" (scenecache.go
  140): two saves that cross may lose a lamp's scenes from the file again.
- After a rotation that could rename the log but not create the new one, `Stat`
  fails at every tick: nothing is logged to a file until the next start (logger.go
  199, 235).
- cleanupOldLogs counts a rotated file and its unfinished copy as two backups: with
  `MaxBackups` 1 it may delete the file and keep the copy (logger.go 315).
- `restore` sends a captured scene straight after power-on; the waking lamp swallows
  it (engine.go 549, against the reason given at 444). `AtomicRuns` counts such a run
  as best effort.
- A call refused by the daily budget or without an API key closes an open breaker,
  although nobody asked the cloud (breaker.go 124, against the comment at 122).
- Timeouts recorded between `clearBreaker` and `breakerCheck` open the breaker again,
  and the operator's Refresh is rejected (client.go 414, breaker.go 138); that it takes
  `breakerThreshold` of them, recorded after the clearing, is `OpenOnlyAfterOutages`.
- `dropRoute` forgets whatever route the device has by then, also one that a scan has
  just renewed at another address (lan.go 352).
- `cloneConfig` shares the logging section: a new log level changes the live
  configuration even when the save fails (settings.go 144).
- Of two overlapping saves one is lost: `OnlyStaleSavesOrphan` says what that does to
  tokens; a mapping created in between simply disappears.

## 7. Not modelled

- Login, middleware and router: stateless checks of a token, and tables of routes.
- Encryption: `ConfigStore` has which secrets are encrypted, not the cipher.
- Validation of requests where no property tells the values apart; response formats;
  web pages.
- The encodings of capability commands and of LAN packets.
- The level and format of log lines.
- The sensor readout (sensors.go): one cached value with a time to live. A sweep that
  reads some sensors only is served for the five minutes, by design of the code.

## 8. Plan

1. The log level in `ConfigStore`: a setting that is shared between the copy and the
   live configuration, and changed before the save that may fail.
2. The sensor cache, and the validation of manual control.
3. Proofs: abstract specifications of the configuration and of a catalog file, and
   that `ConfigStore` and `CatalogCache` implement them.

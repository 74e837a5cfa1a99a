# Verification of the remote driving system

This directory holds TLA+ models of the remote driving system of this
repository, the TLC runs that check them on small instances, and TLAPS proofs
of the results that matter most, for every value of the parameters. Paths are
relative to the root of the repository; everything under `src/` here means that
root.

## 1. The system

An operator drives a vehicle over the network.

| part | where | state it keeps | operations | talks to |
|---|---|---|---|---|
| vehicle controller | `Vehicle-side/src/vehicle_controller.cpp` | command in force, last valid command, safety state, time of the last command, takeover, session, mode, replay mark, delay | `processCommand`, `watchdogTick`, `emergencyStop`, setters | called by the two threads below, all methods under one mutex |
| vehicle process | `Vehicle-side/src/{main,mqtt_handler,control_protocol}.cpp` | the message being handled, the stream flag | callback thread: `processControlCommand`, `handle_control_json`; main loop: tick, status, stream check | broker, controller, push script |
| push supervision | `control_protocol.cpp` 26-320, 871-928, `scripts/push-*-to-zlm.sh` | flag, check time, pid file, lock file, processes | start, stop, check and restore | both threads of the vehicle process |
| client MQTT controller | `client/src/mqttcontroller.cpp` | client object, connected, watchdog generation, back-off, stream requested, sequence counter | connect, reconnect, posted calls of the library, stream requests | broker; session manager, UI |
| client control service | `client/src/services/vehiclecontrolservice.cpp`, `infrastructure/hardware/InputSampler.cpp` | latest input with the emergency latch, queue of samples | 100 Hz tick, UI commands, emergency stop, neutral commands | MQTT controller, safety monitor |
| client safety monitor | `client/src/services/safetymonitorservice.cpp` | emergency flag, circuit breaker, last heartbeats | checks, trigger, clear | control service, state machine |
| client state machine | `client/src/core/systemstatemachine.cpp` | outer and driving state | `fire`, `stateEnum` | `main.cpp`, safety monitor, session manager |
| client session | `client/src/{authmanager,vehiclemanager}.cpp`, `services/{sessionmanager,remotesessionclient}.cpp`, `qml` | tokens, chosen vehicle, request under way, services running | login, refresh, logout, choice, session, start and stop of services | backend, identity server, every service |
| client video links | `client/src/{webrtcclient,webrtcstreammanager}.cpp` | peer connection, flags, three timers, counters of each stream; polling of the manager | connect, disconnect, offer, answer, reports, retries | media server, decoder |
| client packet ring | `client/src/{media,utils}`, `webrtcclient.cpp`, `h264decoder.cpp` | ring indices, byte budget of the four streams, posted flag | push, pop, acquire, release, drain, tear-down | three threads per stream |
| backend | `backend/src/main.cpp` | vehicles, grants, sessions, participants, locks (PostgreSQL) | HTTP handlers, a thread each | clients |
| decoding and rendering, UI, transports, bridge, deployment | `client/src/{media,ui,presentation}`, `carla-bridge`, `deploy` | | see section 7 | |

What is hard, and what correctness means for each:

* **Controller.** Time decides: 150 ms of silence start a fading of the
  command, 500 ms stop the vehicle, any accepted command undoes either. Right
  is: silence always stops the vehicle; SAFE_STOP is the full brake; fading only
  eases.
* **Vehicle process.** Two threads, each call atomic, a message several calls.
  The watchdog may fall between any two. Right is: the vehicle is set in motion
  only by a command let in under a takeover, and a takeover lost by silence
  stays lost until it is given again.
* **Replay check.** Messages with quality of service 0 over two transports:
  lost, late, repeated, overtaken; either side may restart, and two threads of the
  client number commands in one step and stamp them in another. Right is: a command
  takes effect at most once and in order, and a restarted client is heard.
* **Push supervision.** Two threads, several scripts, two files, crashes.
  Right is: at most one pusher, a stopped stream stays stopped, a wanted stream
  comes back.
* **Client safety.** Three threads load, change and store one input record;
  the safety monitor's flag and breaker are two more variables beside it. Right
  is: an operator's stop is not lost, the vehicle is told to brake for as long as a stop
  stands, and it can be driven again once both are cleared.
* **Client session.** Answers of two servers come after a logout or another
  choice; a confirmation may overtake what it confirms. Right is: the services
  work for the chosen vehicle and for nobody after logout.
* **MQTT and video links.** A library's threads post their news to the UI
  thread, and the news outlives the object it is about; three timers and a
  watchdog retry on their own. Right is: what is shown catches up with what is,
  what is closed stays closed, what is lost is tried again.
* **Packet ring.** Three threads without a lock, a budget shared by four streams,
  a flag that says whether a drain is posted. Right is: a FIFO, no leak, nobody
  asleep while packets wait.
* **Backend.** Statements that commit one by one under concurrent requests.
  Right is: one holder of the control lock, no announced session without
  participants, answers that are true.

`PROJECT.json` lists every component, and every hazard at its line with the
properties that watch it.

## 2. The modules

| module | models | checked by |
|---|---|---|
| `VehicleController` | class `VehicleController`; one action per method | `MCVehicleController` |
| `VehicleSide` | the process: callback thread, main loop, shutdown, restart; extends the controller | `MCVehicleSide` |
| `DeadMan` | the abstract promise of the vehicle side | `ImplementsDeadMan` of `VehicleSide` |
| `ReplayFilter` | the replay and freshness check, as operators over ages | used by the two modules above and below |
| `ReplayChannel` | the two numbering threads of the client, channel and replay check with absolute clocks | `MCReplayChannel.cfg` |
| `StreamSupervisor` | the push supervision: both threads, the push scripts, the pid and lock files | `MCStreamSupervisor.cfg` |
| `ControlLatch` | the emergency flag of the client's latest input: UI thread, control tick, sampler | with the next |
| `ClientSafety` | the latch composed with the safety monitor's stop and circuit breaker | `MCClientSafety.cfg` |
| `SystemStateMachine` | the two nested machines as a relation, and what `stateEnum` reports of them | with the next |
| `ClientSession` | login, tokens, vehicle choice, session, services, composed with the state machine | `MCClientSession.cfg`, `MCClientSessionHeartbeat.cfg` |
| `MqttLink` | the connection to the broker and the stream requests over it | `MCMqttLink.cfg` |
| `VideoLink` | the peer connections of the streams and their manager | `MCVideoLink.cfg` |
| `PacketQueue` | ring, budget and drain of one stream, access by access | `MCPacketQueue.cfg` |
| `PacketFifo` | the bounded queue it promises to be | `ImplementsFifo` of `PacketQueue` |
| `Backend` | the handlers that change the database, statement by statement | `MCBackend` |
| `*Proofs` | theorems | TLAPS |

**State.** The controller's variables are the fields of the class
(`m_state` is `safety`, `m_currentCommand` is `current`, and so on, named at
the declaration). Instants are kept as ages, because the code only subtracts
clock readings: `sinceCmd` is `now - m_lastValidCmdTime`, `stampAge` is
`now - m_lastCmdTimestamp`. Ages stop at `MaxAge`, beyond every threshold.
Levels of pedals are integers `0 .. Unit`; interpolation is a division of
integers that rounds down, and rounds towards more braking.
The type invariant admits the states of `SafetyState` but `ARMED`, which no
code assigns; the mode `REMOTE_CONTROL` likewise.

**Atomicity.** Every controller method holds `m_mutex` throughout, so a method is
one action. A message is several actions: `mqttAt` is where the callback thread
stands between two calls. The main loop is `MainTick`, and `MainRestored`
for the return of `check_and_restore_streaming`; while it is out, no tick runs.

In `StreamSupervisor` a thread is split wherever a script or the other thread can
come between: after looking whether a stream runs, after the signal, after the
removal of the pid file, after the launch. A script is split at every look at
and change of the two files. `at` and `script` say where each stands; the four
`ffmpeg` processes of a script are one, `Purge` removes both files in one step as
one `rm` does, and a process id is not given again while a file names it.
`VEHICLE_VIN` is taken to be set; then `stop_streaming_processes`, whose
`pkill` pattern has no prefix, ends no `ffmpeg` directly. `is_streaming_running`
is modelled as it decides, not as it is meant: see section 3.

**Environment.** The broker is open: any message of `Messages`, of any age of
`Delays`, may be delivered whenever the callback thread is free, which covers
loss, repetition, delay and reordering. Operators may be several.

**Messages.** `drive` stands for every type without a branch of its own.
`target_speed`, `mode`, `start_stream` and `stop_stream` call nothing of the
controller that changes its state and are `inert`. Parsing is left out; a field
that cannot be parsed has its default.

**Numbers and stamps.** A command gets its number where it is built (`fetch_add` in
`vehiclecontrolservice.cpp` 190 by the worker, 554, 597, 713 and 760 by the UI thread) and
its stamp in a later step (`mqttcontroller.cpp` 383, or 613 of the former for a UI
envelope), so `ReplayChannel` has `TakeNumber` and `StampAndSend`, and `held` is what
a thread has taken in between. The worker passes ten commands a second on to the broker and none
without a session; the numbers of the others are lost. `sendControlCommand` takes
one more number in case the command brings none (377). The commands that
bring none are the release of the stop (its type is `emergency_stop`) and the ones built without a number by functions nobody
calls; the vehicle handles the types of all those it gets without the check, and
they are left out.

**Builds.** `vehicle_controller.cpp` has blocks under `ENABLE_CARLA`, which no build file
defines; they are left out, with the stop that an exception of the simulator brings about.

**Time.** `Time` is guarded by `sinceTick < MaxTickGap` (and `< LoopGap` while the
loop is not restoring a stream): the main loop runs at least that often. In
the code a pass takes a millisecond plus the status message; a restore takes a
little more than three seconds. The proofs hold for every value.

**The client's threads.** The UI thread runs one handler at a time, so a handler
of the session, of the MQTT controller or of a video link is one action. News of
the libraries' threads are posted to it and kept in order in a sequence
(`calls`, `posts`), each with a mark that the code does not have: `current`, whether it
is about the present object. Only the properties and the actions that replace the
object look at the mark; the handlers do not, as in the code. In `ControlLatch` every load
and every store of `m_latestInput` is an action, and `stale` remembers, for the
property only, which copies of the flag were taken before it last rose.

**The ring.** In `PacketQueue` every access of an atomic is an action of its own:
`at` says where the media thread stands in acquiring, writing, publishing and giving
back, `dat` where the decode thread stands in a pop, `drain` where a drain is
between being posted and being reported. The accesses are taken in program
order, which the acquire and release pairs of the code give for the accesses the
properties relate; the budget's relaxed counter is only added to. The three
other streams are one process that takes and gives bytes of the total.

**The database.** Each SQL statement commits on its own (no handler opens a
transaction), so `Backend` makes each a step, and each may fail. `told`,
`clean` and `leftover` are kept for the properties: what an account was last answered,
whether an opposite statement came since, and the grants that a removal has failed to delete.

## 3. The runs

| run | question | result |
|---|---|---|
| `controller` | every method at any moment with any argument | `SafeStopIsFullBrake`, `SilenceStopsVehicle`, `SurvivalOnlyEases` hold |
| `side` | the two threads interleaved at every call; silence for good | they implement `DeadMan`; stale reads never add throttle; the vehicle stops and stays stopped |
| `channel` | any channel, two numbering threads, restarts of either side | at most once and in order, but for commands whose number and stamp disagree with another's; a restarted client is heard once the past has left the window |
| `stream` | two threads, two scripts, one kill | no lock is left but by a kill; a wanted stream comes back unless such a lock keeps every script out |
| `backend` | two server threads, three users, statements that fail | answers are true, but for the grants a 204 has failed to delete; an announced session has its participant, a lock is taken over only on a stale read |
| `backend_holder` | one holder | violated: finding 1 |
| `client` | three threads on the latch, the monitor's stop and the breaker | a stop is undone by a copy older than itself and by nothing else; a stop that stands keeps braking; cleared stops let drive |
| `mqtt` | posted calls, watchdog, timers and requests in any order | a connection that is up is known, a swallowed request is not remembered once the loss is known, waiting ends; and the back-off never grows |
| `video` | reports, answers and timers of replaced connections | the new connection is shown, none but the single-shot retry reopens a closed one, a drop is retried for ever |
| `session` | late answers, logouts, changes of vehicle | one vehicle; logout stops, but for the two known ways round it; no waiting for what has come |
| `session_heartbeat` | heartbeats are required while driving | violated: finding 2 |
| `queue` | three threads on the ring, the budget and the flag | a FIFO, no byte leaks, packets get out unless the ring fills while the UI thread stalls |

**Findings** (details and quotations in `PROJECT.json`): (1) the control lock is read
and taken in two statements and the second has no condition, so two users who both
read a free session are both told they hold it; (2) `stateEnum` does not see into
the composite state, so that a driven vehicle is reported as IDLE: no heartbeat
is required of it, and `isDriveActive` is never true.

**Bounds.** *Vehicle:* one time unit stands for 150 ms, the finest threshold of the code, so
that SURVIVAL has two different fading steps between 1 and 3 units; `MaxAge`
lies beyond every sum of thresholds, and larger ages behave alike. In the `side` run
the timeout is one unit shorter, which keeps every order of the thresholds and one
fading step. `Unit = 10` represents 0.2 and 0.3 exactly. The two commands of the controller run have a
throttle above the degraded limit, a brake above and below the protective one, a
level out of range and a gear that does not exist. `MaxSeq = 1` separates
zero, the number that switches the check off, from a real one; sequences are the
matter of `ReplayChannel`, with a window of 1 within 4 units, numbers up to 3 taken by two threads, and one restart of the client:
a command can be in the window, leave it, and be followed by a reset, and one thread can stamp and send while the other holds a number.
With these bounds TLC finds the properties violated without their exception, so that the case
they except does happen.
One session is enough, because the session reaching the controller from the
handler is always empty, and for the controller alone the empty session and a
named one are two.

*Scripts:* two are the fewest that race, and one kill is enough to leave a lock
behind. The sleeps of the threads are no bounds on the scripts: a script may be
slower than the thread that started it, as on a loaded machine it may be.
`recent` abstracts the five seconds between restores to passed or not passed;
the ten seconds between checks are left to the scheduling of the main loop.

*Client:* two vehicles are the fewest between which a choice changes.
`MaxReconnectAttempts` is the code's 10. `MaxCalls` and `MaxPosts` bound the news
waiting for the UI thread, at 4 and 3: the code has no bound, and the
cases that matter need the last news of an old object and two of the new. One stream of
four is checked in `VideoLink`: a stream touches another only through "is any
shown", which the choice of `same` covers. `MaxRetries = 1` and
`MaxReconnects = 2` stand for 12 and 5: each limit is reached and passed.
`MaxLate` bounds the single-shot retries pending.

*Ring:* four places (the code's power of two is larger) hold three packets;
packets of one and two bytes fill the budget of four before the ring or after it;
the total of five with one byte of the others is exhausted only while
the budget's counts are half taken or half given back. A drain takes two packets, fewer than the
ring holds, so that it ends with packets left.

*Backend:* two threads are the fewest that interleave; two seeded operators of one
account and one whom the backend does not know yet; one vehicle and one session; `Asks` says which
requests each makes, so that each pair of opposite requests meets.

**Fairness.** `FairSideSpec` assumes that the clock goes on and that the main loop
is scheduled and its push script returns (weak fairness of `Time`, `MainTick`,
`MainRestored`), which the operating system and the bounded sleeps of
`run_dataset_push_script` give. Nothing is assumed of the callback
thread, of messages, or of shutdowns. `FairStreamSpec` assumes that the two
threads and each script are scheduled and that five seconds pass; the operating
system gives that. It assumes no message, no end of a push and no kill.
`MqttFairness` and `VideoFairness` assume that the UI thread's event loop runs and
its timers fire, nothing of the broker, the peer or the user. `ClientFairness`
assumes that the two timers of the safety thread, the control tick and the
breaker's check, keep firing; since the one excludes the other only within a call,
strong fairness is what two timers on one event loop have. `QueueFairness`
assumes that the media, decode and UI threads run, that packets keep coming, and that a
comparison which is tried again and again does not fail for ever.

## 4. The proofs

Each theorem is stated of a specification and holds for every value of its constants that
satisfies the named assumptions; these say of which kind the constants are, that thresholds are
in their order and ages end beyond them, that every message is of one of the types that the handler tells apart, and
that the empty values are none of the others (as `NothingAssumption` does). A theorem about an
invariant has the form of an inductive invariant (`...Inv`) that was first checked with
TLC, a lemma that the initial states have it, one lemma for each
group of actions that they keep it, and the step to the stated property.

`VehicleProofs` proves, from the assumptions on the constants only,
that `TypeOK`, `SafeStopIsFullBrake` and `SilenceStopsVehicle` are invariants
of `Spec`. The first needs that interpolation stays in range, which
is the content of the lemmas on `Fade`. The last is not inductive: the vehicle
may not be stopped although the timeout has passed, as long as the next tick is
still due. The strengthening `SilenceSeen` says exactly this:
beyond the timeout and not stopped, the silence exceeds the timeout by no
more than the time since the last tick; the tick then stops the vehicle, and
`sinceTick <= MaxTickGap` bounds the rest.

The same module proves the action property `SurvivalOnlyEases`. A tick fades
from the last valid command, not from the one in force, so it eases only
because of what the ticks before it did: `StillToEase` says that whatever the
remaining ticks of the window may command has no more throttle and no less brake
than the command in force. It rests on `FadeFalls`, the monotonicity of the
division of integers that stands for the interpolation.

The same module proves `ThreadsImplementDeadMan`, that `SideSpec` implements
`DeadManSpec` under the mapping of `Promise`. Each action of the two threads maps to
one action of `DeadMan` or to none: `Check` admits, `Process` acts or drops, a tick
beyond the timeout expires, and `Time` needs `SilenceSeen` again to show that a
driven vehicle has not been silent for too long. Note what the promise does not
say: an admitted command may act after the takeover has ended (section 5).

It proves `SideTypes` and `StaleReadAddsNoThrottle`. A message that
changes one field gives back a command it read earlier, and between the two the watchdog
may have begun SURVIVAL or stopped. `MessageAtPlace` ties what the thread holds to
where it stands; `ThrottleCovered` says that the throttle in force, and
the one in the thread's hands, is at most that of the last valid command. The controller's
lemmas on clamping are stated for every parsed command (`Parsed`) and are used for both.

`ReplayChannelProofs` proves `ReplayProtection`: if the client's clock leads by no
more than the window, then for any threads that take numbers and stamp commands in separate steps, and
through any restarts of either side, an executed command is executable again, or a command is
executed after a later one, only if numbers and stamps disagree (`Inverted`: a command numbered after
it was executed that is stamped before it). That exception is the whole price of the two steps:
the vehicle keeps the stamp of the command it executed last, the reset rule is as patient as that
stamp, and if it is the older of the two, the other command is still in the window when
the mark is given up. The invariant `MarkCovers` says of each executed command that it is `Covered`:
out of the window, or inverted, or neither its number above the mark nor its stamp after the last one, so that the
mark is not lowered before the command has left the window. `AcceptedIsLater` is what an accepted command tells of those before,
`CoveredKeeps` that a later mark covers what an earlier one did.
The assumption on the lead is needed: with a
larger one TLC finds a command that is rejected for its stamp, lowers the mark
on the way, and lets an executed one in again when its stamp comes of age.
`RestartIsHeard` is about a restarted client: its invariant `LastIsKept` says that the last
stamp is that of an executed command and the mark no higher than its number. If that command is
of an earlier client it has left the window, and `processCommand` takes a lower number for
a restart; if it is of the present one its number is the lower.

`StreamSupervisorProofs` proves `NoLockLeftBehind`: for any number of scripts and
kills, as long as none was killed, the lock file names a script that is
alive. The invariant is strengthened (`LockHeld`) to the places where a script
may hold the lock: from each of them it still passes a step that removes the
file. Alive alone would not do, since a script leaves from its checks
without removing anything.

The module also proves `StreamTypeOK` for any number of scripts and kills.

`ClientProofs` proves `OneVehicle`, `StopsAtLogout` and `PreflightWaits` of the session. None is
inductive: that a service runs for the chosen vehicle depends on the answer that
started it having been asked for that vehicle, and on every change of vehicle having stopped
what ran. `ServedIsIn` (the control service runs only while somebody is logged in, or as an
orphan) and `UnnotedIsKept` (a login that was not noted is one kept from an earlier
run) are the links between a session and the login it came from.

`PacketQueueProofs` proves `RingIsFifo`: the ring, access by access, implements `PacketFifo`
for every size. The mapping reads the queue's contents off the ring, from `head` to
`tail`, as a sequence. A store into a slot changes nothing abstract, since the slot is outside of
that range; the publication of `tail` is the put (`PublishPuts`), that of
`head` the take (`MoveTakes`), a tear-down the clearing. The invariant says what each thread may rely on at
its place: there is still room where it writes (`RoomToWrite`), what it publishes is in the slot
(`Written`), there is still a packet where it takes (`PacketToTake`), and at a tear-down
the other threads are out. `DrainIsFlagged` is the type invariant with `FlagIsDrain`.

`BackendProofs` proves `ToldTheTruth`, `AnsweredSessionHasParticipant` and
`TakenOnlyOnStaleRead` for any number of threads. The invariant speaks of each request by
its place: what a request nobody has crossed has seen to (`VehicleSeenTo`), what one about a
session may rely on (`SessionSeenTo`). A removal revokes the grants of the operators that have
a row in `users` only, so `GrantsToUsers` is needed: nobody else has a grant. A lock
request whose SELECT no UPDATE has overtaken finds no conflict still (`clean`); expiry only
takes conflicts away.

`MqttLinkProofs` proves `UpIsKnown`, `LostRequestIsForgotten` and `BackoffNeverGrows` for any
lead of the library over the UI thread and any limit of attempts. All
three follow from the order of the posted calls: a loss is posted right after the
connection that it ends (`LossAfterConnection`), so the UI thread resets the count before it
raises it; and the last call posted tells the state of the present client (`LastCallTells`),
whatever calls of replaced ones come before.

`ClientProofs` also proves `StopIsKept` (`StopLostOnlyByStaleCopy`): the three threads load and store one input
record, and a stop of the operator is undone by a copy older than it and by nothing else. The property
speaks of one step; what makes it true is the past of every copy in flight. `FreshCopiesStop` is the
invariant: while a stop is latched, the device has been told, and the polled value, the sample, the tick's input
and the UI's copy, so far as each was taken since, show the stop. The device matters
although no step of the property reads it: a poll of a device that was not told would be fresh and
would release the latch. `CopiesHeld` says that a thread between load and store has a copy at all.
`LatchStopsTick` is the safety half of `BrakesWhileStopped` for the latch: a tick sends no driving command while a stop is
latched, unless it has read the flag before that (`FreshTickStops`). The exception is real: TLC finds the
driving command of a tick whose copy is older than the stop.

`VideoLinkProofs` proves `VideoTypes`, `UpBecomesShown` and `ClosedStaysClosed` for any streams, limits and lead of
the library. `UpIsShown` is not inductive: a Failed or Closed of the connection before, taken after the
Connected of the present one, would hide it. `ConnectionTold` therefore says that nothing posted behind the
connection's own report hides it, and nothing at all once that report is taken; it
holds because closing a connection posts its Closed before the new one exists. For
`OnlyLateRetryRevives` the invariant needs to know why a stream is not wanted: `UnwantedIsClosed`
says that the user has closed it, so that `m_manualDisconnect` is set and no timer runs
(`TimerFits`), or that it was never started and nothing of it is under way.

The same module proves `LossLeadsToRetry`, the safety half of `DropIsRetried`. A loss is the last report
posted about its connection (`LossIsLast`), so no Connected is taken after it that would
clear the mark of an attempt under way behind its back; when it is taken with that mark clear, a timer is running from then on
(`TakenLossIsTimed`); and the timer of a wanted stream opens a connection whenever it fires. What is
left to liveness is that the UI thread takes the report and the timer fires.

`PacketQueueProofs` also proves `BudgetIsAccounted`: no byte of the budget leaks or is
given back twice, for packets of any sizes. `BudgetAccounted` is almost inductive; `BudgetInv` adds that a packet
on its way past a check of a limit still fits under it when it is counted (`WithinLimits`:
meanwhile the other threads only lower the slot's count, and the total is exchanged only if it is the one that was read) and that a pipeline that is down has an empty ring. What is
hard is the sum over the ring. `Bytes` is a recursive function in the
model, because the folds of the community modules are declared `RECURSIVE`. That the
function exists and what it returns for a sequence with one more packet, or without its first, is
`SumsExist`, `BytesAppend` and `BytesTail`. They need an induction, and the library's induction
theorems take a predicate as a parameter, which the provers do not instantiate. `NatInduct`
states the induction for sets instead of predicates: a set that holds zero and is closed
under the successor contains every number; it follows from the library's `WFMin`, that
a well-founded relation has a minimal element in every set that is not empty, and from `NatLessThanWellFounded`.

Every invariant and every action property of the passing runs is stated by a theorem. Only
model-checked is liveness, which is out of the prover's reach: `StopsWhenSilent`, `ComesBackUnlessLockedOut`,
`BrakesWhileStopped`, `DrivesWhenCleared`, `PendingEnds`, `DropIsRetried` and `GetsOutUnlessStalled`. For
some the part that is safety is proved: that silence leads to a stop within a bound (`SilenceStopsVehicle`), that
no unkilled script leaves a lock (`LockNotAbandoned`), that a waiting UI has its watchdog armed
(`MqttTypeOK`), that a posted drain is flagged (`FlagIsDrain`), that a loss is remembered (`LossLeadsToRetry`),
that a latched stop is obeyed by every tick that has read it (`LatchStopsTick`).

## 5. Also seen while modelling

The models contain the following; no run refutes them one by one.

*Vehicle.*
* `processCommand` brakes fully on a critical network (`vehicle_controller.cpp` 167-184) without
  storing that command, so 150 ms later SURVIVAL fades from the older one: the
  brake is released and throttle returns, although the comments say "油门线性衰减至 0" (359) and
  "刹车：平滑增加压力" (370).
* `isRemoteControlEnabled` is read and the command given under two locks
  (`control_protocol.cpp` 737, 850): a command checked before a timeout acts after it,
  without a takeover ("检查远驾接管状态与会话锁", 735).
* `setRemoteControlEnabled` is given the session (467) before it is parsed (812): the
  session lock is never armed.
* `check_and_restore_streaming` sleeps for seconds in the loop of the watchdog
  (`main.cpp` 209); `project_spec.md` 331 promises a stop after 500 ms.
* A number not above the mark is accepted as a restart after two seconds, so late
  commands of an earlier client lower the mark and executed ones are let in again;
  `project_spec.md` 335 says they are dropped. The same happens without a restart if the worker and the
  UI thread stamp two commands in the other order than they numbered them: the older stamp is the last, and after two seconds from it the
  other command may come again. The first command after a start
  of the vehicle process is executed at any age.
* A killed script whose pid file is removed leaves a lock nobody looks at
  (`control_protocol.cpp` 255): the stream never comes back, in spite of line 870. A
  `stop_stream` that meets a script being started is without effect (447, 444).
  The lock is removed by whoever ends, so that two slow scripts may push
  at once, and `is_streaming_running` cuts a command line at its first NUL (56), so
  that it never recognises a script by its pid file.
* After a timeout the driving mode stays REMOTE_DRIVING.

*Backend.* A removal whose revocation of grants fails is answered 204 all the same
(`main.cpp` 746-766), although the line it logs says that the vehicle is no longer shown after a refresh (782). `ToldTheTruth` excepts
just these grants (`leftover`). An
addition that overlaps a removal can leave the vehicle visible. `GET /vins` never
creates a missing user. Nothing ends a session, nothing looks
for another active one, and any user with a row may lock any session.

*Client safety.* The monitor is never given the control service, so its own stop
works through the breaker only. With the latch set and the monitor's stop active,
neither `requestEmergencyStop` nor the tick sends a brake. `start` does
not refresh the time of the last tick, so that a session may begin with a stop for a
stalled control loop.

*MQTT.* The library's own reconnection after 1 s races the first back-off of 1 s:
a late call of the old client makes `isConnected` true while the new one is
connecting, `start_stream` is then swallowed and held back for 13 s. The
exponential back-off and the limit of ten attempts are never reached. After an
attempt ended by the watchdog nothing is scheduled. `setCurrentVin` does not
subscribe anew.

*Video.* `disconnect` leaves the single-shot retry of 3 s alive, which opens the
closed stream again. The old connection's Closed sets the reconnection timer of the
new one. A first attempt that fails in ICE or HTTP is not retried, since only
Connected resets `m_connecting`. `connectFourStreams` leaves lost streams
alone while any one is up.

*Session.* A kept login is not noted (`m_hadSuccessfulLogin`), so its logout stops
nothing; the answer to a session request after a logout starts the services,
and a refresh answered after it stores tokens again. Retry and back-off of the refresh are
unreachable. The takeover's confirmation is not reset when the vehicle changes. A
machine that was stopped once is usable again only after a new login.

*Ring.* A drain computes what is left before the UI thread clears the flag. If
the ring fills up in between, as it does while the UI thread waits for another stream's
tear-down, no drain is posted, every push fails, and only a push that succeeds
posts one: the stream is frozen until it is connected again. `GetsOutUnlessStalled`
names this case as its exception.

## 6. The plan

Done: the vehicle side, the stream supervision, the backend's handlers, the client's
safety, session, links and packet ring. What is left, in this order:

1. Proofs of the safety halves of `GetsOutUnlessStalled` (which packets a drain may have overlooked) and
   `ComesBackUnlessLockedOut`, as was done for `DropIsRetried` and `BrakesWhileStopped`.
2. `Teleoperation`: operator, channel and vehicle side composed end to end.
3. `ReplayWindow`: the anti-replay guard over wrapping numbers, once something feeds it.
4. The choice of the transport for a command, once the UDP channel is wired in.

## 7. Not modelled

* Decoding, jitter buffer (off by default) and rendering: computation on packets and pixels, half
  of the client's lines, without a protocol between actors besides the ring that is modelled.
* The user interface beyond the buttons that change the session; views of state.
* Code nothing calls: the triple buffer, the stack of `LockFreeQueue.h` and the
  frame pool on it, the error recovery manager, the backend's session handler
  outside the build. The degradation manager is called but never leaves its first level (finding 2).
* The anti-replay guard: sequential, and applied to inbound messages that no
  transport delivers to it.
* Text and parsing of messages, SDP, logging, the calls into steering hardware (they
  pass the command on), the blocks under `ENABLE_CARLA`, status reporting, token validation, the CARLA bridge,
  deployment scripts, vendored code.

A large part of the repository's lines is of these kinds, and a handler's lines are
to a good part logging; the share of lines the models stand for is smaller than the
share of the system's state changes.

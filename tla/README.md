# Verification of the Naviq MTS160 ROS 2 driver

TLA+ models of `naviq_mts160`, a ROS 2 driver for a magnetic tape sensor on a
CAN bus, with the TLC runs that check them and the TLAPS proofs about them.
Paths below are relative to the repository; `canbus.py`, `sdo.py`, `driver.py`,
`diagnostics.py`, `decoder.py` and `line_follower.py` are in
`naviq_mts160/naviq_mts160/`.

## Inventory

| part | state it keeps | operations | interacts with | what makes it correct | module |
|---|---|---|---|---|---|
| `CanBus` (`canbus.py`) | `_bus` under `_bus_lock`, `connected`, `_stop`, `_thread`, listener lists | `start`, `stop`, `send`, the reader loop `_run`, `_open`, `_close` | calls frame listeners and state listeners; `send` is called by any thread | no Bus object lost or shut down twice, the flag and the notifications true, recovery, `stop` final | `CanBus` implements `HandleLife` |
| `SdoClient` (`sdo.py`) | `_lock`, response `_queue`, counters | `_transact` (send, wait, retry), `upload`, `download`, `_on_frame` listener, `close` | sends through `CanBus`; the reader thread feeds its queue | one call at a time, bounded retries, the answer is to the question, every call returns | `SdoClient` implements `SdoContract` |
| driver node, data path (`driver.py`) | inversion parameters, `_last_track`, `_closing`, `Stats` | `_on_frame` and its handlers, `_publish`, parameter callback | listener of `CanBus`, publisher, writer of `Stats` | every frame counted and published once, statistics of one frame, parameters applied at once | `Driver` |
| driver node, navicode path (`driver.py`, `decoder.py`) | `_last_navicode_counter` | `_handle_navicode`, `counter_advanced` | the sensor's one-byte counter | `is_new` neither invented nor missed | `Navicode` |
| driver node, control path (`driver.py`) | helper threads, `_closing` | `_on_bus_state`, `_apply_tpdo_periods`, zero service, `destroy_node` | state listener of `CanBus`, caller of `SdoClient` | no period lost in silence, every call ends, a sensor that answers is configured, quiet after shutdown | `Control`, composed with `CanBus` |
| diagnostics (`diagnostics.py`) | last values seen by each task | six tasks run by the updater once per second | reads `Stats`, `CanBus`, the node's time-outs | drops reported once each; freshness judged in time, no false alarm | `Driver` (frame errors), `Diagnostics` (heartbeat and data) |
| codecs (`decoder.py`, `sdo.py`) | none | frame identification, payloads, inversions, expedited SDO frames, typed values | called by the driver and by `SdoClient` | nothing lost in conversion, frames go to their own node | `Codec` |
| line follower (`line_follower.py`) | `_last`, `_last_t`, parameters | `_on_track`, `_tick` | subscribes to `~/track`, publishes `cmd_vel` | stops in time when the tape or the data is lost | `LineFollower` |

Threads: the ROS executor (`rclpy.spin`, single-threaded: services, parameter
callbacks, the diagnostics timer; after it ends, `destroy_node` runs on the same
thread), the reader thread of `CanBus`, which runs every frame listener, and
one helper thread `mts160-sdo-init` per connection when a TPDO period is set.
The owner of a `CanBus`, its reader and everybody who calls `send` meet in
`_open` and `_close`; the executor and the helpers meet at the lock of the SDO
client; the reader and the executor meet at `Stats.lock` and, without a lock, at
the parameters, `_closing` and `connected`.

What is hard here: `_bus_lock` protects one attribute, the flag and the
notifications beside it are separate steps; any thread may close the bus; the
adapter, the frames and the answers can go away at any moment; answers come
late; one-byte counters wrap; a signal takes the ROS context away while the
reader publishes. `PROJECT.json` lists each hazard at its line.

## Modules

**`CanBus`.** One action per step a thread takes between two points where
another can see the shared state; `pc[t]` is the place in the code, `held[t]` the
local `bus`. `_open` is `OpenDevice`/`OpenFails`, `StoreHandle`, `SetConnected`,
`NotifyUp`; `_close` is `TakeHandle`, `Shutdown`, `TestConnected`,
`ClearConnected`, `NotifyDown`; `_run`, `start`, `stop` and `send` follow the
same way. `TypeOK` includes that no thread uses a bus its snapshot found to be `None`;
`JoinTimesOut` takes a reader inside `can.Bus`, `shutdown` or a listener. `live`, `good` and `up` are the adapter: `can.Bus` objects not yet
shut down, those that answer, and whether one could be opened. `overlapped` and
`abandoned` are history: another `_open` or `_close` ran beside the last one,
and `join(timeout=2.0)` gave up. **`HandleLife`** is what it promises about
Bus objects: free, opened, installed, retired, free again; one installed at
most; what is retired is shut down.

**`SdoClient`.** One call is one `upload` or `download`; `pc` follows
`_transact`, `toSensor`, `toHost` and `queue` are the frames on their way.
A frame carries the call it belongs to as a ghost the code does not look at.
The sensor (`Serve`) executes and acknowledges, refuses, or answers nonsense;
both directions lose frames; a time-out may fire at any moment of a wait.
**`SdoContract`** is what callers may rely on: calls are worked on one at a
time, each returns, and a success uses up one execution of an equal request.
**`MCSdoClient`** gives the requests of the runs.

**`Driver`.** The reader handles one frame at a time (`handling`), with the
points between reading the parameters, publishing and updating `Stats` as
separate steps. `_publish` is two: `TestClosing` reads `_closing`, and by the time of
`Publish` the node may be closing and the publisher gone. The executor sets parameters one by one (`BeginSet`, `Assign`),
reports dropped frames in two steps (`TakeErrors`, `ReportErrors`) and closes.
`received`, `settled` and `told` are history.

**`Navicode`.** The sensor's counter, which steps modulo `CounterValues` and is
arbitrary after a power cycle, and `_handle_navicode`. `seen`, `changes` and
`missable` are history that says what a frame could show.

**`Control`** extends `CanBus` and adds the node around it: `_on_bus_state` is
`HearUp` (the test of `_closing`), `TellUpAndSpawn` and `TellUpOnly`, joined with
the bus's own `NotifyUp`; the helper threads and the zero service are the bus's
senders and go through `Acquire`, `Attempt`, `FetchBus`, `Request` or
`RequestFails`, and `TakeAnswer`, `Retry`, `GiveUp` or `Raise`, which is
`_transact` seen from outside: the lock, the attempts, the answer and the Bus object it
would come through. A wait may end at any moment, also while the answer is on its way;
an answer nobody waits for any more is received and dropped, as the drain of the next
attempt would do (a late answer that is mistaken for another is `SdoClient`'s subject).
A helper that starts takes a free member of `Helpers`; that there is one is a bound of the
model, `driver.py:161` starts any number. `BeginDestroy` and `StopBus` are `destroy_node`. The sensor
answers, refuses or is silent, and forgets its RAM when it is switched off; the
adapter can be unplugged; a send can fail. Every step is a step of `CanBus`
or leaves the bus alone (`BusImplemented`).

**`Diagnostics`.** The heartbeat or the data task (`watched`) with a clock:
`ReceiveFrame` and `CountFrame` are the reader that stamps a frame and counts it
later, `SetLimit` the parameter handler, `BeginZero` and `EndZero` the service call that
keeps the executor busy, `BeginRound`, `Judge` and `PublishReport` the updater's
timer callback, with the clock read before the lock is taken. **`LineFollower`**
has the best-effort queue between driver and follower, `OnTrack`, `Tick` and
`Quit`. In both, time passes by `Elapse` or `Pass`, and the variables are ages, which
stop counting above everything they are compared with. **`MCTimed`** runs one or
the other; they share no state.

`PublishReport` stands for the updater, which publishes what the tasks returned;
`Quiet` and `steady` are history.

**`Codec`.** Pure operators. The masks of the status byte are shared by decoder and encoder
(`StatusMask`), so a round trip alone could not tell two swapped masks:
`PayloadsKept` also compares with the layout documented in `decoder.py:17`.
`EncodeStatus` refuses a strength above three, as the code does with its `ValueError`; **`MCCodec`** feeds them one input per state.

The actions or operators named as slips in comments are plausible errors of the
code next to the definition they would replace; the specifications do not
use them. They serve to see that each property notices such an error.

## Runs

| run | bounds | properties |
|---|---|---|
| `canbus` | 2 senders, 3 Bus objects | `TypeOK`, `HandlesAccounted`, `UndisturbedExact`, `CleanStop`, `LifeRefined`, `Recovers`, `StopCompletes` |
| `canbus_flag` | 1 sender | `FlagTellsTruth` is violated |
| `canbus_stop` | 1 sender | `StoppedMeansClosed` is violated |
| `sdo` | 2 calls of 2 threads, 3 requests about 2 objects, 1 retry | `TypeOK`, `RetryBound`, `FreshUnlessTimedOut`, `OkIsSomeExecution`, `ContractKept`, `CallReturns` |
| `sdo_stale` | the same | `StaleDiscarded` is violated |
| `driver` | 3 frames | `TypeOK`, `Accounted`, `StatsConsistent`, `AppliedAtOnce`, `ReportedOnce`, `DropsReported` |
| `navicode` | counter modulo 3, 4 frames, 6 captures, 1 power cycle | `TypeOK`, `NewsNotInvented`, `NewsNotMissed` |
| `codec` | every standard identifier, those one bit wider, every status byte and its fields; boundary values elsewhere | `FramesSorted`, `PayloadsKept`, `InversionsUndone`, `TransfersKept` |
| `control` | 2 helpers, the zero service, 3 Bus objects, 2 periods, 1 retry, 1 failure of adapter or sensor | `ControlTypeOK`, `SilenceIsSuccess`, `QuietAfterStop` |
| `control_live` | 1 helper, the zero service, 2 Bus objects, 1 period, 1 retry, 1 failure | `CallsEnd`, `Configured` |
| `control_tpdo` | the same | `TpdoOnce` is violated |
| `timed` | period 3, zero call up to 2, lag 1, limits 2 and 3; queue of 3, delay 2, staleness 3, ticks 2 apart | `DiagnosticsTypeOK`, `ReportFresh`, `NoFalseAlarm`, `FollowerTypeOK`, `DriveFresh` |

Why the bounds are enough to see the interesting cases. `canbus`: the owner, the
reader and two senders can all be inside `_close` at once, and three Bus objects
allow an old one being shut down, a current one and one being opened; nothing
else is bounded. `sdo`: two calls and one retry are what a late answer, an
answer to the other call and an answer to the call's own earlier attempt need;
the two calls may be the same request, two kinds about one object, or about
different objects. `driver`: a track, its successor and a marker or a bad frame
between two reports. `navicode`: six captures with three values go twice round,
with four frames between and one restart anywhere. `codec`: standard identifiers and
status bytes are complete; identifiers of twelve bits that are not marked as extended reach
the test of the width, which no recording does; the codecs treat payload bytes alike, so 0, 1 and 255
at every length from 0 to 5 tell positions, lengths and padding apart.
`control`: `MaxFailures` bounds what the surroundings do to a
working system (a send that fails on a good handle, an unplugged adapter, a sensor
switched off); failures that follow from these are not counted. One such event at
any moment is what starts the recoveries, and with two helpers and two periods a
second helper can start while the first holds the lock between its writes. A third
helper at once would need two reconnections within a helper's time-outs; the names of
helpers that ended are used again, so their number over time is not bounded. The
liveness run is smaller, for TLC's graph: `Configured` is checked after one failure at any
moment, not after any number of them. `timed`: units are small because only
their order matters; limits below and at the period, a block and a lag make every
order of frame, deadline and round occur, and the bound of `DriveFresh` is reached
exactly. `MaxBlock` stands for what the zero service can take, (retries + 1) times the
time-out, with the wait for the lock before it; `Lag` for handling one frame and for
one round of the tasks; `Delay` for the way of a track from the frame to the follower's
callback. `CHECK_DEADLOCK FALSE` is used where the system really may stop: all calls
made, the frames used up, the node closed.

Fairness. `CanBus`: a thread that can take its next step takes it
(`WF` per thread, operating-system scheduling); calling `start`, `stop` or
`send`, the adapter coming or going and frames arriving are not required.
`SdoClient`: the calling thread runs and a deadline passes; nothing is asked of
the bus or of the sensor, whose silence `CallReturns` has to survive. `Control`: the
same threads, weakly; a thread that waits for the SDO lock gets it one day although the
zero service takes it again and again (`SF`): `threading.Lock` promises no order, and
the zero service leaves the lock free between calls. `Driver`: a
handler that began goes on; the diagnostics timer is served again and again
although parameter requests compete with it (`SF`), because the executor serves
its ready callbacks in turn. `Navicode`, `Codec`, `Diagnostics` and
`LineFollower` have no liveness property: the timed models bound what others leave to
fairness.

### What the runs show

* `HandlesAccounted`, `LifeRefined`: no interleaving of `_open`, `_close` and a
  failing `send` loses a Bus object or shuts one down twice, although they are
  taken out of `_bus` under the lock and shut down outside it.
* `UndisturbedExact`, `CleanStop`: the flag and the last notification agree with
  the bus as long as calls did not overlap, and listeners hear of a disconnection only
  when they last heard of a connection; calls that overlap may
  do worse: two threads in `_close` together both find `connected` set and both notify.
  A `stop` that waited for the reader is final.
* `Recovers`, `StopCompletes`: the reader always comes back to a working bus
  while the adapter stays present, also after a needless close; `stop` returns.
* `canbus_flag`: `_close` tests and clears `connected` outside the lock, so a
  sender that shuts the old handle down can clear the flag of the bus the reader
  opened meanwhile. Frames arrive and the diagnostics say "disconnected"
  (`docs/USER_MANUAL.md:250`).
* `canbus_stop`: a reader still inside `can.Bus(...)` when the join times out
  stores its bus after `stop` has closed. `test_canbus.py:50` asserts the opposite for
  the undisturbed case.
* `RetryBound`, `FreshUnlessTimedOut`, `OkIsSomeExecution`, `ContractKept`: how much
  of "responses are matched" holds. A success always stands for an execution of
  an equal request and no acknowledgement serves two calls; before the first
  time-out every answer is the call's own.
* `sdo_stale`: after a time-out it need not be. A late answer that arrives
  behind the drain ends the next call about the same object (`sdo.py:178` says
  stale frames are discarded).
* `Accounted`, `StatsConsistent`, `AppliedAtOnce`, `ReportedOnce`,
  `DropsReported`: the data path beside the executor. A frame that is being
  handled while a request sets both inversions may use one new and one old
  value; the next one uses both new.
* `NewsNotInvented`, `NewsNotMissed`: `is_new` is exact between frames
  unless the counter went all the way round or the sensor restarted between two
  of them. `missable` marks just those cases. A power cycle alone may raise `is_new`, as
  `docs/USER_MANUAL.md:195` defines it; nothing else may.
* `SilenceIsSuccess`, `Configured`, `CallsEnd`: whatever opens, fails and re-opens
  meanwhile, a period that is not in the sensor's RAM shows as a counted error, unless
  the sensor was switched off, which the driver cannot see; a sensor that answers ends
  up configured; no call waits for ever. One failed attempt with the bus is final for that write
  (`CanBusError` is not retried), and what repairs it is the helper of the next connection.
* `QuietAfterStop`: a shutdown that waited for the reader leaves no helper about to start
  and no request going out, although helpers outlive it. It needs both the join
  (its mutant) and the one lock of the SDO client: without that lock a second helper could
  still be inside `send`.
* `control_tpdo`: the periods are written at every connection, not "once at startup"
  (`docs/USER_MANUAL.md:91`), also to a sensor that has them. That is what makes
  `Configured` hold.
* `ReportFresh`, `NoFalseAlarm`: the manual's "it is ERROR whenever the tape data is not
  fresh" (`docs/USER_MANUAL.md:257`) with its price: the last report may say OK for a
  period, a zero call and a round longer. The other way round, frames that come early
  enough for the limit are never reported as lost, although the judgement uses a clock read
  before the stamp and the limit may change at any time. It speaks of frames that were
  steady from the start: after one late frame nothing more is claimed.
* `DriveFresh`: the follower stops as the manual says (`docs/USER_MANUAL.md:362`), within
  delay, staleness and one timer period. The time of reception counts, so a delayed
  track counts as fresh; and a follower that is interrupted leaves its last command in force.
* `codec`: conversions lose nothing, the fields of the status byte are where they are
  documented, and every frame finds its one node and kind, whatever the width of its identifier.

## Proofs

The proofs hold for every value of the constants (senders, Bus objects, calls,
requests, retries, frames, counter values) under the named assumptions in the
modules: thread identities differ, `None` values are none of the values they
stand beside, bounds are natural numbers.

* `CanBus_proofs`: `TypeCorrect`, `HandlesSafe`, `ExactSafe`, `StopSafe`, `LifeSafe`,
  `StopDescends`.
  `HandlesAccounted` is not inductive: `_open` overwrites `_bus` and would lose
  what is there. `HandleInv` adds that each thread stays in its part of
  the program and that only one thread opens, when there is no bus (`OneOpener`).
  `ExactInv` adds what an undisturbed `_open` or `_close` has settled at each of
  its steps; `StopInv` the same for the owner's part of `stop`. `LifeSafe` maps
  each step to one of `HandleLife` or a stutter, from `HandleInv`. `StopDescends`: once
  `stop` was called, the owner and the reader are at most fifteen steps from their ends
  (`StopAhead`), each step of theirs takes one off and no sender adds any. It needs that the
  flag stays set (`FlagSet`), without which the reader could open once more.
* `SdoClient_proofs`: `TypeCorrect`, `OkSafe`, `FreshSafe`, `BoundSafe`, `ContractStepSafe`,
  `CallsDescend`, `LockHeldAtWork`. `BaseInv` says that
  `_lock` belongs to the one call between its two ends and that attempts are left.
  `OkInv` says of every acknowledgement on its way that its request was
  executed; `FreshInv` that, before a time-out, at most one frame is on its way and
  belongs to the holder of the lock. `BoundSafe` (`RetryBound`): what the sensor executed
  and has still to serve of a call is no more than was counted as sent (`BoundInv`).
  `ContractStepSafe` maps each step to one of `SdoContract` or to a stutter: the
  credit of a request is how many places of the queue and of the bus hold an
  acknowledgement of it, which appending and taking change by at most one. `CallsDescend`:
  every step of a call but the skipping of a foreign answer takes it nearer to its return
  (`Ahead` counts three steps for every attempt left), and nobody else moves it off;
  `LockHeldAtWork`: whoever waits for the lock waits for a call that is at work.
* `Driver_proofs`: one invariant `Inv` relates the frame in hand to the counters,
  to the last track, to the parameters it read and to the request; `ReportedSafe`
  adds that what the reports know is no more than what was dropped.
* `Navicode_proofs`: `NotInvented` and `NotMissed`. The invariant locates the counter
  from the last value seen and the captures since (`CounterFollows`), without
  which a wrap could hide a change.
* `Codec_proofs`: `SortedAlways`, `StatusKeptAlways`, `PayloadKeptAlways`,
  `InversionsUndoneAlways`, `TransfersAlways`, `ValuesAlways`, `PeriodsAlways`, over all
  identifiers, bytes, integers, objects and data, and from them the properties of the run:
  `FramesSortedAlways`, `PayloadsKeptAlways`, `InversionsAlwaysUndone`, `TransfersAlwaysKept`.
  A number has at most four bytes, so that packing and unpacking are sums over the places of
  a byte (`Place`), and what is read from data padded to a width is known byte by byte.
* `Control_proofs`: `BusImplemented` shows that the composition keeps every step of
  `CanBus`, so that `HandleInv` and `StopInv` hold in the node too (`HandlesSafeInNode`), and
  with them everything proved of the bus alone (`BusPromisesInNode`).
  `NodeTypeCorrect`, `QuietSafe` and `SilenceSafe` rest on `NodeInv`: at most one sender is
  between the two ends of the SDO lock and only that one is inside `send` (`LockInv`), and no
  answer is left over when a request is being sent (`AnswerInv`). `SilenceSafe` needs
  `Served` besides: what a helper has crossed off is in the sensor's RAM. `OneAtATime`: the
  one SDO lock keeps all but one sender out of `CanBus.send`. `TransactionsDescend`:
  a transaction has at most nine steps for every attempt left (`CallAhead`), its own steps
  and the answer take some off, and re-openings, failures and other senders add none.
  `PeriodsInOrder`: a helper crosses off the first period left at each end of a transaction,
  also a failed one (`TodoInv`), so that it has no more transactions than there are periods.
* `Diagnostics_proofs`: `DiagnosticsTypeCorrect`, `ReportFreshAlways`, `NoFalseAlarmEver`, for every
  period, block, lag and set of limits. `DiagnosticsInv` bounds the time since the clock reading
  of the published report by where the executor and the timer are (`TimerInv`, `ReportInv`),
  relates the stamp to the last good frame (`StampInv`) and says what steadiness
  leaves for the frame in hand (`SteadyInv`).
* `LineFollower_proofs`: `FollowerTypeCorrect`, `DriveFreshAlways`: a track with a tape is as
  old as the last frame that showed one, in the queue, in `_last` and in the command.

Only model-checked: the liveness properties (`Recovers`, `StopCompletes`, `CallReturns`,
`DropsReported`, `CallsEnd`, `Configured`, the fairness half of `LifeRefined` and
`ContractKept`), because fairness speaks of `ENABLED`, which is out of the prover's reach.
Of three of them the other half of the argument is proved: what must end gets nearer to its
end with every step it makes and is never moved off it (`StopDescends` for `StopCompletes`,
`CallsDescend` for `CallReturns`, `TransactionsDescend` and `PeriodsInOrder` for `CallsEnd`).
That the next step is enabled and taken is what TLC checks. `CallsDescend` leaves out
`SkipResponse`: that a call meets only finitely many foreign answers is checked, not proved.

## Not modelled

* Counters and texts that only the diagnostics show (`rx_count`, `reconnects`, rates, intervals,
  latencies): the bus, SDO and latency tasks format what they read. `connected`, which
  the bus task reads, is `CanBus`'s subject; `sdo_errors`, which the SDO task reads, is
  `blamed` in `Control`.
* Logging, raw messages (`publish_raw`), wall-clock stamps, QoS beyond the follower's queue.
* Millimetres as floating point numbers, `encode_tpdo2_mm`, the steering law of the line
  follower: formulas without state over reals.
* The arguments of `can.Bus` and the `gs_usb` start-up patch (`canbus.py:47-149`), which
  changes a third-party call inside the adapter library.
* `SdoClient.close`, whose listener removal never matches (see the hazard list).
* Two adapters, two drivers on one bus, and the sensor's firmware beyond what it
  does with a request.
* Message definitions, launch files, tools and tests.

## How the project was built, and what could follow

The bus shared by threads came first, then transactions over it, the data path, the
navicode counter and the codecs; then the control path composed with the bus, the timed
models of the diagnostics and of the line follower, and the proofs about each. What could
follow: TPDO periods against a sensor that restarts without the bus noticing, which no
part of the driver repairs; and the SDO transactions of `SdoClient` in the place of
`Control`'s shorter ones, which needs a smaller bus model for TLC.

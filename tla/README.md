# wb-mqtt-dali in TLA+

`wb-mqtt-dali` bridges DALI lighting buses to MQTT. It has no serial port of
its own: it writes DALI frames into the send queue of a WB-DALI gateway with
Modbus requests that wb-mqtt-serial carries out, and both the requests and the
replies travel through the MQTT broker. This directory holds TLA+ models of the
program, the TLC runs that check them on small instances, and TLAPS
proofs for instances of any size.

Paths below are relative to `wb/mqtt_dali/` in the repository.

## 1. The system

| Part | State it keeps | Operations | Talks to |
|---|---|---|---|
| **DALI driver** `wbdali.py` `WBDALIDriver` | send queue, waiters by gateway slot with their timers, batch under collection, slot index, sequence id, session and resync flags | `send`, `send_commands`, `run_sequence`, the queue sender task, reply / `/meta/error` callbacks, timers, `initialize`, `deinitialize` | callers await futures; MQTT dispatcher; bus traffic |
| **Bus monitor** `wbdali.py` `BusMonitorFrameHandler` | expected counter, reorder buffer, counters seen far behind | `handle` per slot publication | bus traffic |
| **Bus traffic** `bus_traffic.py` | cursor, sorted list of early items, callbacks | `notify_command`, `notify_bus_frame`, `register` | driver → listeners |
| **Overheat limiter** `overheat_rate_limiter.py` | cooldown end, recovery step, next send time | `on_overheat`, `on_non_overheat_response`, `wait_before_send` | driver |
| **Application controller** `application_controller.py` | lifecycle state, task queue, quiescent mode and timer, commissioning state, device maps | `start`, `stop`, requests that enqueue a task and await it, polling loop, start / cancel of a scan, on-topic messages | driver, publisher, schedulers |
| **Commissioning** `commissioning.py`, `short_address.py`, `address_with_randomise.py` | search interval, found and assigned addresses | presence query, binary search with COMPARE, address assignment and verification | driver |
| **Schedulers** `device_init_scheduler.py`, `fetch_scheduler.py`, `settle_clock.py`, `PollScheduler` | due times, attempts, turn | next due device, record success or failure | application controller |
| **MQTT dispatcher, sessions** `mqtt_dispatcher.py`, `main.py` | subscriptions, retained cache, retained mirror, session number, connected | subscribe, publish, replay, connection lost / restored | broker |
| **Publisher** `device_publisher.py`, `wbmqtt.py` | devices, controls, retained topics | add, rebuild, remove, value / error / title updates | dispatcher |
| **Gateway service, RPC** `gateway.py`, `mqtt_rpc_server.py`, `mqtt_rpc_client.py` | configuration, endpoints, pending calls | RPC handlers, saving, gateway list update | application controllers |
| **Devices and settings** `common_dali_device.py`, `dali*_device.py`, `settings.py`, `dali_*parameters.py`, `wbdali_utils.py` | device types, remembered values, the settings page | initialise, fetch ahead, load, save, group writes, each by its retry rule | driver |
| **Event synchronisation** `event_sync_coordinator.py`, `dtr_snapshot.py`, `settle_clock.py`, controls and virtual devices | levels, setpoints, switches, fade times, the member a group follows | apply a command seen on the bus, confirm by a poll, publish | bus traffic, publisher |
| **Colour** `dali_type8_*`, `colour_sequence_tracker.py` | captured sequences, read cycle, colour of scenes | recognise, predict, read, set, store | event synchronisation, driver |

Everything runs in one asyncio loop. A step of the program runs from one
`await` to the next, so the interleavings that matter are those of callbacks
(MQTT messages, timers) and tasks at awaits. What makes the code hard:

* **slots, not names.** A reply names a gateway slot; whose reply it is follows
  from which waiter the slot holds when it arrives. Timers find their waiter in
  the same way.
* **two sides that count.** Driver and gateway both advance a queue pointer;
  each failure that loses a write must be followed by a reset of both.
* **a lossy, reconnecting link.** The broker link drops and comes back as a new
  session, wb-mqtt-serial reports the gateway unreachable and withdraws it.
* **cancellation.** Callers, the sender task and the scan can be cancelled at
  any await.
* **tables that must agree.** Device lists, registry, map of ids, publisher,
  group devices and the file are changed by the bus loop and, after their task,
  by the RPC handlers, with awaits in between.
* **a bus that forgets.** Any frame or answer may be lost, DTR registers are
  shared with other masters, and a retry is right or wrong depending on which
  frame of its batch was lost.
* **prediction against measurement.** What MQTT shows is predicted from commands
  seen on the bus and corrected by polls that take several ticks.
* **reordering.** Resolved commands and bus monitor frames come in any order,
  with holes and a counter that wraps, and listeners rely on their order.

What makes each part correct is the list of properties in section 3; the places
where it could go wrong are the `hazards` of `PROJECT.json`, each at its line.

## 2. Modules

| Module | Models | Uses |
|---|---|---|
| `DaliDriver` | `WBDALIDriver`: callers, sender, slots, timers, reports, sessions, `deinitialize` | |
| `DaliDriverProofs` | theorems about `DaliDriver` | `DaliDriver` |
| `TrafficOrder` | what `BusTrafficCallbacks` promises its listeners, on sets of ids | |
| `BusTraffic` | `notify_command` on its sorted list; implements `TrafficOrder` | instance of `TrafficOrder` |
| `DriverTraffic` | the driver together with the traffic it reports | `DaliDriver`, instance of `BusTraffic` |
| `DriverTrafficProofs` | theorems about `DriverTraffic`, `BusTraffic` and what `TrafficOrder` says of them | `DriverTraffic` |
| `BusMonitor` | `BusMonitorFrameHandler`, one action per way a frame can land | |
| `BusMonitorRing` | the handler behind the gateway's ring and wb-mqtt-serial's read passes | `BusMonitor` |
| `BusMonitorProofs` | theorems about `BusMonitor` and `BusMonitorRing` | the instance of the run |
| `ApplicationController` | task queue, polling loop, `/on` messages, scans, quiescent mode, `start` and `stop` of one bus | |
| `ApplicationControllerProofs` | theorems about `ApplicationController` | `ApplicationController` |
| `Polling` | the idle side of the loop: initialisation and its retries, rounds of polls, energy reading, background fetch | |
| `Commissioning` | scan of a bus, search of the command line, randomising tool, with the gear | |
| `CommissioningProofs` | theorems about `Commissioning` | `Commissioning` |
| `DeviceTable` | device lists, registry, ids, published devices, group devices, file, under Editor RPCs and scans | |
| `GatewayService` | list of gateways, websockets, configuration, GetList and SetGateway | |
| `GatewayServiceProofs` | theorems about `GatewayService` | `GatewayService` |
| `Settings` | initialisation and settings of one gear over a lossy bus | |
| `LevelSync` | levels, setpoints and switches of two gears and their group | |
| `LevelSyncProofs` | theorems about `LevelSync` | `LevelSync` |
| `ColourSync` | the colour of one lamp and its scene | |
| `BrokerLink` | broker sessions, dispatcher, the topics of one device, an RPC client | |
| `BrokerLinkProofs` | theorems about `BrokerLink` | `BrokerLink` |
| `MC...` | the small instances of the runs | the module named |

The modules meet at these seams: a call that `Settings`, `Commissioning`,
`LevelSync` or `ColourSync` makes is a call of `DaliDriver`, which ends
(`CallsEnd`) with the answers of its own commands (`AnswersMatch`; what is left of
it when replies are late or calls cancelled is `WrongAnswerIsLate`) and keeps a
batch together (`NotInterleaved`); what `LevelSync` and `ColourSync` hear comes
in the order `TrafficOrder` promises; the tasks they and `DeviceTable` run are
those of `ApplicationController`, one at a time; the publisher they end in is
`BrokerLink`'s.

### DaliDriver and the code

| Code | Model |
|---|---|
| `_send_commands_internal` before, at and after the lock, each `put`, `gather` | `CallUnavailable`, `CallStart`, `AcquireLock`, `Put`, `Gathered` |
| `run_sequence`: availability test per command before its `put`, one command at a time, lock kept | `SequenceRefused`, `SequenceBlocks`, `Put`, `Gathered` with `k \in SequenceCall` |
| cancellation of a caller | `CancelCall` |
| `_queue_sender`: top of loop, `get`, its timeout, wait for a slot | `SenderTop`, `SenderGet`, `SenderGetTimeout`, `SlotFree` |
| the three calls of `_send_to_gateway` and what their `finally` does | `site`, `Finish` |
| `_send_to_gateway` from one await to the next | `SendUnavailable`, `SendReset`, `SendWrite`, `ResetPublished`, `WritePublished`, `PublishFailed` |
| `_handle_reply_message`, `timeout_callback` | `Reply`, `Timeout`, `OrphanTimeout` |
| `_handle_meta_error_message` | `ReportUnreachable`, `ReportReachable` |
| `connection_lost`, `connection_restored` | `ConnectionLost`, `ConnectionRestored` |
| `deinitialize` and where its cancellation lands | `Deinitialize`, `Deinitialized` |

Session numbers are only compared with the current one, so `synced` and
`reported` stand for the comparisons. `initialize` awaits its own reset while
the sender task already exists; no call can be made before it returns, so
`Init` is the state after it. A waiter is a record of command, sequence id and
whether its timer is armed; a waiter that is replaced leaves its timer behind in
`orphans`. `answer`, `notified` and `gwPtr` are history variables: the command
whose reply resolved a future, the ids given to bus traffic, the slot at which
the gateway continues. The kinds of error a reply can carry are one outcome.
What the gateway and wb-mqtt-serial do (`ReplyLost`, `InTransit`, `UnknownPtr`)
is external and as permissive as the driver's use of them: replies come in
order of the commands or get lost. A list that a sequence yields
(`wbdali.py:1058-1061`) is modelled one command at a time. The `except Exception` of
`_queue_sender` (1176-1186) is left out: only a frame of a length the encoder does
not know, or a listener that raises, leads there.

Four constants say what the environment may do: `PromptGateway` (replies come
before their timeout or not at all), `RefusedPublish` (the MQTT client may
refuse a publish on a live link), `ReportDuringReset` (a `/meta/error` report
may be handled while a queue reset is being published), `LinkMayDrop`.

### ApplicationController and the code

| Code | Model |
|---|---|
| `start` and its roll-back | `StartBegins`, `StartFails`, `StartEnds` |
| the methods that queue a task and await its future | `SubmitRequest`, `SendCommandBatch`, `StartCommissioning`; the caller's cancellation is `CallerGivesUp` |
| `_handle_on_topic` up to its await | `HandleOnTopic` |
| `cancel_commissioning`, `_remove_queued_commissioning_task` | `CancelCommissioning`, `RemoveQueuedScan` |
| `_polling_loop` from one await to the next | `TakeItem`, `PollWhenIdle`, `RefuseItem`, `GatherControls`, `FinishControls`, `RunTask`, `FinishTask`, `RunCommissioning`, `CollectChild`, `FinishPoll`, `PollRaises` |
| a cancellation of the loop at each await | `LoopCancelled`, `LoopCancelsChild`, `CancelSwallowed` |
| `_commissioning_task` | `ChildAdvances`, `ChildCannotStart`, `ChildReports`, `ChildLeavesScan`, `ChildEnds`, `ChildCancelled` |
| `_handle_start_quiescent_mode`, `_handle_stop_quiescent_mode`, the timer | `StartQuiescentMode`, `StopQuiescentMode` |
| `stop` from one await to the next | `StopBegins`, `StopCancelsChild`, `StopCancelsLoop`, `StopTimesOut`, `StopDrains`, `StopEnds` |

A task of the queue is its identity; a message stands for the value it carries,
and messages are numbered as they arrive, so that newer means greater. Sections
under `_state_lock` contain no await and are one step. `pc` is the await the
loop stands at; `"item"` is the point between the queue giving a task up and
the loop going on with it, where `asyncio.wait_for` of the Python versions the
package runs on takes one more step of the event loop and swallows a
cancellation. A task kept from a gather passes `"item"` without an await; the
model lets other tasks run there as well, which only adds behaviours.
`_current_commissioning_task` is set exactly while `pc = "scan"`. What a task
or a poll does on the bus is one await of unknown length that ends with or
without an exception; whether a future got a result, an exception or a
cancellation is not told apart. `settled` is a history variable: the newest
message of a control that the loop has taken.

### Polling and the code

| Code | Model |
|---|---|
| `_poll_step`: first attempts, poll tick, retry, idle wait with fetch | `FirstAttempts`, `PollTick`, `Retry`, `Idle` |
| `PollScheduler.poll`, `poll_controls`, `next_poll_step` | `Visit`, `PollControls`, `Ask`, `ReadEnergy` |
| the answers of a batch, `Type51Parameters._do_chunk`, `_fail_cycle`, `_finish_cycle` | `Answered`, `ChunkRead`, `FailCycle`, `FinishCycle` |
| `DeviceInitScheduler`, `SettingsFetchScheduler` | `RecordFailure`, `RetryReady`, `Forget`, `FetchStep` |
| quiescent mode, events, rebuilt and removed devices, a scan | `StartQuiet`, `StopQuiet`, `QuietTick`, `Reschedule`, `Rebuild`, `RemoveDevice`, `Scan`, `LoadInfo` |

Moments are kept as the time left until them, in units of the longest idle wait
(1 s), so time needs no bound. A reading is told apart only as far as its bytes
belong to one reading or to two: what was read before a chunk failed, or before
quiescent mode, is marked as old, and a reading published with both is `"mixed"`.

### Commissioning and the code

| Code | Model |
|---|---|
| `SearchAddressWriter.compare`, `_compare_with_retry`, `_bisect`, `find_next_device` | `Compare`, `CompareWithRetry`, `Bisect`, `FindNextDevice` |
| `smart_extend`: presence, random addresses, re-randomising, withdrawal of the known | `PollPresent`, `PollRandoms`, `RandomiseDoubtful`, `JoinAndWithdrawKnown` |
| its search, `_process_found_device`, the passes, the result | `Search`, `SearchExhausted`, `QueryAndWithdraw`, `ProcessFoundDevice`, `NextPass`, `Finish` |
| `binary_search`; `address_with_randomise.py` | `StartList`; `RandomiseEverything`, `AddressFoundGear` |

The gear (COMPARE, WITHDRAW, RANDOMISE, PROGRAM SHORT ADDRESS, colliding
answers) is external and stands in `bus`. One action runs from one decision of
the scan to the next; the frames in between are folded into operators over `bus`,
with the losses chosen by `Lose`.

### DeviceTable and the code

| Code | Model |
|---|---|
| handlers of the Editor RPC up to their task | `SetDevice`, `GetDevice`, `ResetDevice`, `ResetSettings`, `SetGroupConfig`, `SetBus`, `ScanBus`, `StopScan` |
| the tasks of the bus loop | `LoopTake` and `Program`: the operations of each task in order |
| what a handler does after its task: `apply_parameters`, `update_short_address`, saving, reply | `Resume`, `Index`, `Save`, `Reply` |
| `_try_init_new_device`, `_do_init_device`, the retries | `TryInit`, `DoInit`, `InitDevice`, `InitOk`, `InitFailed`, `PollInit` |
| `_update_dali_devices`, `_update_dali2_devices` | `Scan`, `Update`, `PopAll`, `Relist`, `Completed` |
| `_refresh_group_virtual_devices`, `_refresh_broadcast_device` | `RefreshGroups`, `DropGroup`, `NewGroup`, `CheckGroup`, `RefreshBroadcast` |
| `DevicePublisher` | `Add`, `Serve`, `Unpublish`, `RemoveAll` |

A process is its agenda, the list of operations it has left; `busy` names the
process that has not reached an await, and only that one runs. That is how the
model keeps the code's atomicity without a program counter per line.

### GatewayService and the code

`_update_gateways` is `Load` (the answer of wb-mqtt-serial), `TakeLock`,
`Sweep` (one gateway kept or stopped), `Grow` (one started), `Replace`, `Save`;
`set_gateway_rpc_handler` is `SetGateway`, `ApplySet`, `Closed`, `Confirm`;
`run_websocket` is `Bind`; `Gateway.run` and `stop` are `StartAll`, `ServeFirst`,
`ServeAll`, `Broken`, `StopServing`, `StopGateways`. A gateway object is a pair
of id and number, so that one that comes back is another object.

### Settings and the code

The tasks are `Initialize`, `LoadInfo`, `ApplyParameters`,
`ApplyGroupParameters`, `FetchStep`; each is a list of handlers (`Handle`), each
handler an exchange whose batches are repeated by the rule of its helper in
`wbdali_utils.py` (`QueryResponses`, `RetryFromFirstFailed`, `RetryOnlyFailed`,
`SendCommandsWithRetry`) or of its sequence (`DeviceTypes`, `ReadMemoryBank`).
`Attempt` sends one batch with any one fault, `Resume` gives the result to the
handler (`AfterRead`, `AfterWrite`), `Finish` ends the task (`LoadedPage`,
`UpdatedPage`, `Fetched`). `Foreign` is another master. Reads that the code
gathers run here one after another.

### LevelSync and the code

`Foreign` and `Execute` put commands on the bus; `StartTask` and `StepTask` are
the task `EventSyncCoordinator` starts for each (`_apply_level` device by device,
with an await at each dispatch), `Publish` the publisher's turn; `PollStart`,
`PollAnswer`, `PollTell` a poll; `Write`, `Execute`, `Executed` a write to the
switch; `Rebuild` and `Regroup` rebuilt controls and changed members. The group
device follows one member (`RecordAnswer`, `TakeState`, `UpdateCandidates`).

### ColourSync and the code

`Hear` with one operator per frame is `_apply_one` with tracker and DTR snapshot;
`ActivateEnds` the end of `_apply_activate` after its awaits; `PollAsk`,
`PollTake`, `PollTell` one tick of the read cycle (colour type first, then one
component per tick); `WriteControl`, `WriteConfirmed` a write of a client;
`FetchScene`, `SaveScene`, `SceneStored` the colour of a scene.
The registers, the temporary colour and the fade of the lamp are external. A byte
is one bit, so that a word has four values and its MASK is one of them.

### BrokerLink and the code

`Connect`, `Restore`, `Restored`, `Replay`, `Lost`, `NotJoined`, `Stop`,
`Stopped` are `BrokerSessions` and the dispatcher's `connection_restored`,
`replay_retained` and `connection_lost`; `Clean`, `CleanStep` are
`remove_topics_by_driver` with `retain_hack`; `Update` and `PublishStep` are an
operation of the publisher, topic by topic; `CallStart`, `CallRelease`,
`CallRequest`, `CallEnd` are `rpc_call`. `pipe` holds what the MQTT client has
accepted: when the link drops it is sent again in the next session or lost.
`Receive` is `_dispatch_message` for a topic another service publishes;
`SubscribeAgain` is a second callback for that topic, as each bus of a gateway has
for the gateway's `/meta/error`: the broker is not asked again, the callback is given
what the cache holds (`late` is what it knows then). `seen` is a history variable: what
was retained there since the session subscribed. A `subscribe` that raises
`MqttError` on a live link (`mqtt_dispatcher.py:95`) is left out: `SubscriptionsMatch`
assumes that there is none.

### Seeded faults

A definition whose comment begins with "Seeded fault" is a changed form of the
definition after it (a dropped guard, an off-by-one, a missing reset). Nothing
uses it; `PROJECT.json` lists under `mutants` which property finds it when it
replaces the original. They show that each property depends on the code it is
about.

## 3. What TLC checks

| Run | Instance | Properties |
|---|---|---|
| `driver_traffic` | a send and a two-command sequence, two slots, link losses and reports, prompt gateway, with bus traffic | `NoLostCommand`, `AnswersMatch`, `WritesContinueQueue`, `CallsEnd`, `NothingSkipped`, `ImplementsOrder` |
| `driver_faults` | a batch of two and a sequence, both cancellable, two slots, late replies, refused publishes, link losses, `deinitialize` | `NotInterleaved`, `WrongAnswerIsLate` |
| `bus_monitor` | ring of 3, counter modulo 18, 8 frames from 14 on through the ring, or any counter at any time | `PassIsDelivered`, `PicksStreamUp`, `InCounterOrder` |
| `controller` | three of: a request, a command batch, two scans, two messages for one control and one for another | `QueuedOnce`, `ScanKnown`, `ConfirmedInOrder`, `TasksEnd`, `MessagesServed` |
| `polling` | a metered lamp, a lamp with two controls, an input device; any may fail for ever | `OneReading`, `Served` |
| `commissioning` | two devices with any short and 2-bit random addresses, two short addresses, up to two stored entries, one loss | `EveryoneAddressed`, `SettledKeepAddress`, `ConfiguredKeepAddress`, `NewAddressIsFree`, `Terminates` |
| `device_table` | two devices, three short addresses, one group, two RPCs in flight, two events | `TablesAreCurrent` (`PublishedIsListed`, `RegistryIsListed`, `VirtualIsCurrent`), `ConfirmedIsSaved` |
| `gateway_service` | two gateways, two ports, two RPCs, four events | `SavedAsConfirmed`, `NoStray`, `RequestsEnd` |
| `settings` | two sorts of gear, two tasks, one foreign write, up to three faulty batches | `KnownIsHeld`, `SavedIsHeld` |
| `level_sync` | two gears and their group, three levels, two events | `ShownIsActual`, `GroupFollowsPin`, `LastWriteWins` |
| `colour` | a lamp of two coordinates or of colour temperature, six foreign sequences, two events, one fault | `ShownIsLampColour`, `SceneIsHeld`, `ColourConverges` |
| `broker_link` | one outage, one restart, two updates, one call or message, a second callback of a topic | `BrokerShowsDevice`, `SubscriptionsMatch`, `LateHearsSession`, `Recovers` |

Each module's `TypeOK` describes its state; no run lists it, since it says little
beyond the other properties; those of the driver, the controller and the gateway
service are proved, and so is `ResolvedOnce` of the driver, which no run lists either.

### Bounds

* *Driver.* Two slots with three commands make the slot index wrap and meet a
  slot that still awaits a response, and let a batch end at the last slot or be
  moved to slot 0; three commands are needed for a slot to be reused, and no
  action looks further than one reuse. Link losses, reports and timeouts are not
  counted.
* *Bus monitor.* The modulus leaves room for the window, a ring behind it and the
  half cycle that separates ahead from behind; the frames cross the wrap.
* *Controller.* Two messages for one control let the second find it clean, dirty
  or captured; the third puts a second control into the same gather, and the
  request or the batch is what the loop holds behind a gather. Two scans let one
  start while the other is cancelled or has just ended. Quiescent mode,
  cancellations, give-ups and poll failures are not counted.
* *Polling.* Budget 2 and chunk cost 3 stand for 3 and 4. Failures are not
  counted; `MaxEvents` bounds what users and other masters do. `RetryAssumption`
  (`MaxDelay >= Slow * Len(Devices)`) is sharp: with a smaller delay three
  devices that always fail use up every turn and the last is never retried. For
  the code: the initialisation attempts of all failing devices of a bus must take
  less than the 60 s of the longest delay.
* *Commissioning.* Two devices are enough for a shared short address, a shared
  random address, a stored device that moved and a newcomer; two bits let the
  bisection turn both ways at both levels and include the unset address.
  `ConfiguredKeepAddress` is about two devices: with more of them, a device that is
  given a new random address may get, by chance, one that the configuration holds for
  somebody else, and is then taken for that device.
* *Device table, gateway service.* Two requests in flight next to the loop, and
  two or four events, reach every pair of operations in every order.
* *Settings.* Two scenes with a chunk of one let the fetch be interrupted; three
  faulty batches exhaust the retries of one exchange.
* *Level and colour.* Two events let the second find the first at any stage;
  three levels distinguish dark, lit and in the middle of a fade.
* *Broker.* One outage hits every point of a session, the replay and the removal
  of old topics included (within `Calm`), and one restart finds what the first life left;
  it also lets a session begin after one that filled the cache.
  Two and three outages, without calls and liveness, were run once beside the proof,
  which holds for any number.

### Fairness

`CallsEnd` assumes that the event loop runs what is ready: a caller or the sender
that can go on, a timer that is due, a publish that ends with or without an error,
and that a command held by the gateway is answered or lost. Nothing is assumed
about the link or the reports: they may stay down for ever, in which case calls
end with `GatewayUnavailable` or by their timer. `TasksEnd` and `MessagesServed`
assume that the event loop runs the polling loop, the scan and `stop` whenever
they can go on (bus operations end: `CallsEnd`), and that a controller whose
polling loop failed is stopped, which is what `_report_polling_failure` leads to
through `Gateway.run` and `BrokerSessions`. `Served` assumes
the same of the polling loop (`WF(Loop)`), `RequestsEnd` of the handlers
(`WF(Work)`; nothing is assumed of clients), `Terminates` of the scan,
`ColourConverges` of event tasks and ticks, that quiescent mode ends by its timer
and that the periodic poll comes round. `Recovers` assumes that the process is
started again after a crash (systemd), that the reconnect loop runs, and that the
link, which drops at most `MaxDrops` times, then stays.

### What the runs assume of the environment

* `PromptGateway`, `RefusedPublish`, `ReportDuringReset`, `LinkMayDrop`: see
  DaliDriver above.
* `Calm` in `LevelSync`: the events of a command about several devices are
  published before the next command, the light does not change before the first
  poll of new controls, and settings do not change while it changes.
* `Careful` in `DeviceTable`: two requests in flight are about different devices
  and values; `Prompt`: a round trip to the broker ends before an exchange on the
  bus does; `MayCancel = FALSE`: a scan is stopped in the queue or during its
  search, not while it reads what it found. The initial state is a service that has
  come to rest.
* `Calm` in `BrokerLink`: the link does not drop while the old topics are being
  collected, the service stops or crashes in a session only once that has settled,
  and a stop without a link leaves no topic without the `/meta` by which the next
  clean-up finds it (`Findable`). The last one matters from the second outage on: a
  replay cut short leaves values whose `/meta` has not got through.
* `GatewayService` assumes that the buses of a gateway can be started
  (`gateway.py:739`) and that the file can be written (663, 701).
* `Settings`: another master writes only between batches and when the gear is
  initialised; a batch has one fault of a frame, or fails or goes unheard as a
  whole. `SavedIsHeld` is about saves in which the gear heard every frame
  (`task.heard`): what a write reads back is remembered, not compared, so that one
  the gear missed is still a success. None of the modelled settings is one that
  `sync_controls_after_broadcast` would read again after a group write.
* `LevelSync`: a write to a switch that fails puts none of its commands on the bus
  (`send_commands_with_retry` may have got a part through), and the last write to a
  switch is what was carried out, or tried, last. Controls are rebuilt and members
  changed (`Rebuild`, `Regroup`) only while nothing waits for the publisher's lock.
* `ColourSync`: the frames of one batch or question of the service stay together
  on the bus, and a tick is long against the event tasks that are ready; the level of
  a scene is told and its colour taken in one step (`event_sync_coordinator.py:174`).

### Where the code and its documentation disagree

These are definitions of the modules that the code does not keep; TLC shows the
counterexample when the definition, or the run's own property, is checked with
the constants named.

* `BrokerLink`, `LateHearsLatest` with `SecondSubscriber`: the cache keeps a message
  only if it has the retain flag (`mqtt_dispatcher.py:160`), which a broker sets on
  what it sends for a new subscription and not on a live update. A callback that joins
  the topic later is given the payload the session began with, although it was changed
  or withdrawn since, and hears nothing until the next update, against
  `tests/test_mqtt_dispatcher_retained.py:5-7`, "every callback on the same topic sees
  the latest retained payload regardless of subscribe order". What does hold, and is
  proved, is `LateHearsSession`.
* `DaliDriver`, `AnswersMatch` with `CancellableCall` not empty: a cancelled call
  makes its slot look free (`wbdali.py:1139`) although the gateway still holds the
  command; its reply is given to the next command in that slot, against "List of
  responses aligned with ``commands``" (`wbdali.py:1115`).
* `DaliDriver`, `DeinitEnds` with `MayDeinit`: the `continue` in a `finally`
  (`wbdali.py:1152`), or the wait for a slot (1138-1141), swallows the cancellation
  of the sender task, and `deinitialize`, which says "Task cancellation is expected
  during deinitialization" (649), never returns.
* `DriverTraffic`, `NothingSkipped` without its condition on the link, for the calls
  `MCBatchAndSend`: commands
  refused while the link is down take sequence ids at once (`wbdali.py:1268`) and
  push the cursor past ids still in flight, which are then dropped as stale,
  against "no frame is published ahead of its predecessor or silently skipped"
  (`bus_traffic.py:91-93`).
* `ApplicationController`, `RunningMeansScan`: a scan refused because the bus went
  quiescent (`application_controller.py:1440`) leaves `queued` as its status; no
  scan can be started, cancelled or seen to end any more, against
  `docs/editor_rpc.md:395` and `430`. A cancellation that reaches the child before
  its first step ends in the same way.
* `DeviceTable`, `CancelledScanDidNotHappen` with `MayCancel`: a scan stopped while
  it reads the devices it found (`application_controller.py:1112-1182`) has taken
  devices off MQTT that stay in the list, against
  `tests/test_gateway_commissioning.py:138`, "CANCELLED means scan did not happen;
  config must NOT be saved."
* `Commissioning`, `DeferredAreFound`: devices put off are randomised group by
  group (`commissioning.py:690`), each group beginning with TERMINATE, so that
  only the last group is searched for, against README.md:256 «Такие устройства
  откладываются на следующий проход.»
* `Commissioning`, `SettledKeepAddress` when it is asked of devices that share a
  short address too: of two stored devices found at one short address, the one whose
  entry comes first keeps it, although the configuration may record the other one
  there (`commissioning.py:583-597`), against the comment above, "our goal is to always
  preserve current state if it's correct and consistent". `ConfiguredKeepAddress` says
  what does hold. A lost answer to the presence query or to QUERY SHORT ADDRESS has the
  same effect.
* `LevelSync`, `ShownIsActual` with `Calm = FALSE` and `SteadyGear`: controls
  rebuilt during a fade are new, `schedule_poll_at` ignores a control that was
  never polled (`common_dali_device.py:127-131`), and the level in the middle of
  the fade stays until the periodic poll, against README.md:187 «После любой такой
  команды затронутый параметр один раз перечитывается через время выхода на
  установившееся значение.»
* `ColourSync`: the comment at `colour_sequence_tracker.py:91-95` says that captures
  whose ACTIVATE was missed are dropped with the next DTR write; they are dropped
  only when no register is fresh, and only an ACTIVATE makes them so. A missed
  ACTIVATE, or a stored scene, which needs none, leaves its capture to the next
  sequence; the confirming read puts the colour right, which is why
  `ShownIsLampColour` holds.

With `ReportDuringReset = TRUE` (in `driver_faults.cfg`), `NoLostCommand` fails: a
report and its withdrawal while a queue reset is awaited set `_pending_resync`,
which `wbdali.py:1199` then clears; a later batch overwrites waiters that are
still pending and their callers are never answered.

With `RefusedPublish = TRUE`, `WritesContinueQueue` fails as well: a publish
refused on a live link advances the driver's slot index and not the gateway's
pointer, and `wbdali.py:1248-1251` schedules no reset. The test
`test_batch_refused_by_the_client_fails_whole_and_the_next_one_resyncs` expects
by its name a resync and by its assertions the slots after the refused batch.

### What the properties leave open

Behaviour met while modelling that no property forbids, because nothing in the
repository promises otherwise or an assumption above excludes it.

* *Driver.* `deinitialize` resolves registered waiters only (`wbdali.py:653`);
  calls whose commands are still queued wait on.
* *Controller.* While the loop holds a scan it has popped and not started,
  `cancel_commissioning` finds it nowhere and answers False
  (`application_controller.py:652`); in the step before the handle of an ended
  child is cleared (1556) it is told that a new scan was cancelled, which then
  runs; a second cancellation cuts the `finally` block of a scan (1007) and leaves
  input devices quiescent until their own timeout.
* *Polling.* The bytes of an energy total may be torn between ticks when the meter
  counts on; a failed reading is repeated at the next refresh, after 120 s; a device
  initialised during an idle wait is polled up to 1 s late.
* *Commissioning.* A lost answer to the presence query or to QUERY SHORT ADDRESS, a
  lost WITHDRAW, and a device with an invalid short address that shares a random
  address with a confirmed one are noticed only by the next scan.
* *Device table.* Two SetDevice calls for one device in flight at once use the
  address remembered before the first one ended (`application_controller.py:693`),
  and two calls for one new address pass the conflict test together
  (`gateway.py:462`); a scan leaves old addresses in the map of instances.
* *Gateway service.* A websocket whose port is taken leaves a failed task that
  every later stop raises again (`gateway.py:128-135`): the gateway cannot be
  disabled or moved, and its buses are not stopped. A gateway that fails to start
  in an update (738) leaves the ones started before it outside the list.
* *Settings.* An answer lost three times is taken for a setting that is not there;
  a lost answer to QUERY NEXT DEVICE TYPE skips a type; whether a failure is "no
  answer" is decided by the last one (`wbdali_utils.py:279`); after a failed save
  and after a group write the page shows the old value until it is loaded again.
* *Level.* A write to the switch is suppressed on a stale value; a group keeps the
  value of a member that left; frames the monitor lost are wrong on show until the
  periodic poll.
* *Colour.* Quiescent mode that drops a read cycle loses the confirming read until
  the periodic one (`dali_type8_parameters.py:827` has moved the due time on).
* *Broker.* A crash inside the clean-up, or a stop or crash after outages that cut a
  replay short, leaves topics without their `/meta`, which the next clean-up does not
  recognise.

## 4. What is proved

The theorems hold for every value of the constants the named `ASSUME`s admit:
`DriverAssumption` and `DistinctCommands` (at least one slot, calls have commands,
commands belong to one call), `TrafficConstants`, `ControllerAssumption` (a task is
of one kind, a message belongs to one control), `DevicesAssumption` and
`FadeAssumption` of `LevelSync` (there is a gear, and the group is none; a fade time is a
number of ticks or not given), its `StartAssumption` (gear found in a fade ends it within
the time of that fade), `ServiceAssumption` (finitely many
clients, a configuration lists a gateway once), `BoundAssumption` of
`BrokerLink`, `BusMonitorAssumption` (the counter's modulus is at least four rings,
as the code has it: a ring of 4 and a 16-bit counter), `RingAssumption` (a history
shorter than half a cycle of the counter, so that a counter names one frame) and
`CommissioningAssumption` (sizes
are numbers, short addresses end at 63 or below). TLC evaluates each of them on the instances of section 3, and every
inductive invariant below was checked there before it was proved.

**Traffic** (`DriverTrafficProofs`).
`ListImplementsOrder` is the refinement: every step of the driver with
`notify_command`'s sorted list is a step of `TrafficOrder` or a stutter. By it,
`TrafficHeldBehindGap` and `TrafficHeardInOrder`, which are easily seen of the sets
of `TrafficOrder`, hold of the driver and its list: listeners hear ids in order, and
what waits in the list waits behind an id nobody has told yet. Its invariant `FeedsInv` says that the list
is sorted, without repetition and within the window (`ListInv`), and that the driver
hands over each sequence id once (`FeedInv`), which rests on the driver's typing.
The sorted insertion and `_drain_contiguous` are described by what they establish
(`InsertedAt`, `DrainRun`): the ids dispatched are those between the old cursor and
the new one, and nothing behind the gap is touched.

`TrafficNothingSkipped` says that while the broker link stays up no resolved command
is skipped or kept back once nobody waits for a response. It assumes
`~ReportDuringReset`, `~MayDeinit` and that no call is cancelled: the id of a
cancelled command is never told, which leaves a gap until the list is flushed. Late
and lost replies, timers left behind, refused publishes, reports and resets are all
admitted. The argument relates three parts of the state. `WindowInv`: the id in a
waiting slot follows from the distance between the slot and the place where the next
command goes, so the ids in flight are those of the last round of slots. `CountInv`:
every id given out was told or is in flight. `HeardInv` and `InboxInv`: listeners have
heard everything up to the cursor, and an id on its way to `notify_command` either is
within one queue length of the cursor, since the id the cursor waits for is in flight,
or comes after all its predecessors, since ids that are given out and told at once are
told when no slot waits any more. Hence the flush never happens. That a registered
batch is awaited slot by slot, and no command stands in two places, is `StandInv`.

**Driver** (`DaliDriverProofs`).

| Theorem | Assumed of the environment |
|---|---|
| `DriverTypeOK`, `DriverResolvedOnce`, `DriverNotInterleaved` | nothing |
| `DriverNoLostCommand`, `DriverWrongAnswerIsLate` | `~ReportDuringReset` |
| `DriverWritesContinueQueue` | also `~RefusedPublish`, `~MayDeinit` |

* `TypeOK` is not inductive: that a batch fits into the slots it is written to needs
  `IndexInv` (the batch is what was collected since `batchStart`, and the index is
  below the queue size whenever the sender takes another command) and `CallInv` (a
  call's position is inside its commands).
* `NotInterleaved` needs `LockInv` (who holds `_send_queue_lock`, and that nobody
  else stands between two of its commands) and `WayInv` (batch and queue read as one
  list are runs of consecutive commands, and an unfinished run is the last one and
  belongs to the holder). No assumption is needed: a cancelled caller leaves the lock
  and a run that nobody continues.
* `NoLostCommand` adds that a command not yet put is nowhere (`NewInv`), that while a
  reset is owed nothing pending stands in a slot (`ResyncInv`, which is what makes
  moving the batch to slot 0 safe and exactly what a report handled during the reset
  breaks), and that while the driver runs the slots ahead of the batch are free
  (`SlotInv`) and every pending command has its place (`OwnedInv`).
* `WritesContinueQueue` adds `PtrInv`: unless a reset is owed, the gateway's pointer
  stands where the batch begins.
* `WrongAnswerIsLate` admits late replies, timers left behind, cancelled calls,
  refused publishes, outages of link and gateway, and `deinitialize`. The code does not
  promise that a caller gets the reply to its own command, since replies name only a
  slot; what it does keep is that a foreign reply comes from a command that was given
  up, and that nobody gets that reply a second time. The invariant is `HeldInv` (a
  command the gateway holds is awaited in its own slot for as long as its caller waits,
  and stands nowhere else), `WriteInv` (the same for the batch that is being
  published), `OwnerInv` (a command whose reply was given to somebody is with nobody
  any more) and `OnceInv` (batch and queue hold no command twice). It rests on the
  wait of `_queue_sender` for its slot: a waiter is replaced only when its command has
  been given up. A report handled during a reset moves a batch over waiters that are
  still pending, which is why it is excluded.

**Application controller** (`ApplicationControllerProofs`): `ControllerTypeOK`,
`ControllerQueuedOnce`, `ControllerScanKnown`, `ControllerConfirmedInOrder`, for any
tasks, controls and messages. `TypeOK` needs `LoopInv` (what the loop holds at each
await; in particular that the child enters its `finally` block for a reason).
`MessageInv` states `QueuedOnce` position by position, up to the drain of `stop`,
and includes the task in the loop's hand; `ScanInv` says that the queued scans, the
scan whose child lives and the status agree; `OrderInv` that every value still
waiting, captured or confirmed is no newer than `settled`; `StopInv` keeps the
drain after the end of the loop.

**Gateway service** (`GatewayServiceProofs`): `ServiceTypeOK`, `ServiceNoStray`,
`ServiceSavedAsConfirmed`. The three follow from one invariant `IInv`. Its centre is
`SweepInv`: during an update, what it keeps so far and has left accounts for every
listed gateway it has not stopped, and the objects it adds are new. With `LockInv`
(one handler updates or waits for a websocket) and `ListInv` (one object for each id)
that gives `RunInv` and `SaveInv`, the two properties at every await of an update.
`BoundInv` shows that the object numbers of the model never run out.

**Broker link** (`BrokerLinkProofs`): `LinkSubscriptionsMatch`, over any number of
outages, restarts and calls. `SessionInv` adds where the subscriptions are
while they are being restored: done or still to do, with the lock keeping calls out.
`LinkShowsDevice` assumes `Calm`. `ShowInv` says that the mirror of retained messages
and the control are the same at every step (`MirrorInv`), and that a topic in the
mirror has the mirror's payload as the last word of what the broker holds and the
client has accepted, or its replay is still to come (`BrokerInv`); a topic outside the
mirror is empty, or one the clean-up is about to clear. `JobInv` describes what the
holder of the publisher's lock has left: a device that comes has its `/meta` first and
one that goes has it last, so that whatever a stop leaves behind can be found again
(`StopInv`). The proof attempt showed that the assumption had been too weak: with the
one outage of the run it was enough, with two it was not (section 3, `Calm`).
`LinkLateHearsSession` assumes nothing: `CacheInv` says that what the broker has on its
way, the cache and what a late callback knows were all retained in this session, and
that the cache is empty before a session begins; one that outlived its session would
break it at the next subscription.

**Bus monitor** (`BusMonitorProofs`), for any ring size and modulus.
`MonitorInCounterOrder` needs `WindowInv`: the buffer holds only counters up to
`ReorderWindow` ahead of the position, nothing stands at the position itself, so
what a step publishes lies in the stretch the position moves over; that the frames
of one step can be put in order at all is proved by ranking them by their distance.
`MonitorPicksStreamUp` is about the handler fed with a run of consecutive frames
from anywhere: `StreamInv` says that while the dropped frames land far behind, all
of them are remembered, and once they land within a ring of the position the run
must reach it before it is two rings long. `MonitorDeliversPass` is `PassIsDelivered`
of the handler behind the gateway's ring, wherever the counter starts in its cycle. It
reads the counters as the numbers of the frames (`CounterOf`, `NumberBehind`). The
invariant `RingInv` says that what is still to come of a pass lies at or ahead of the
position, save what is older than the first frame published, and is not in the buffer;
that the position is at most one past what was read; and that a valid frame that was
read and that the ring still holds is in the pass, published or in the buffer
(`ReadInv`). A step either leaves the position or moves it over held frames and over
frames the ring no longer has (`Landed`, `MovesOn`), and no frame of a pass is ever far
enough behind to count towards a resynchronisation (`NeverFarBehind`).

**Commissioning** (`CommissioningProofs`): `AddressIsFree`, for any number of devices,
addresses and stored entries, each of the three programs and any lost frames but the
answers to the presence poll; where one of those is lost the property does not
hold (section 3, "What the properties leave open"). The inductive invariant
`AddressInv` carries the property from the poll to the assignment: until the available
addresses are computed every held address is known to be present, and from then on
nobody holds an available one, through re-randomising, new passes, addresses taken
away and writes that did not arrive.

`SettledKeepsAddress`: a device that is alone with its short address and with its
random address keeps the short address in a scan, as long as no presence answer is lost,
for any number of devices and any stored configuration. `KeepInv` says why a scan only
writes to others. The answers collected stay right, because each random address is asked
about once (`PolledInv`, `AnswersInv`); a device is put aside (`ConflictInv`) or given
an address only when it shares an address with another one, has no valid one, or is
at an address recorded for somebody else (`FoundInv`, `TwinInv`). Working it out
corrected the property: it had been stated of devices that share a short address as
well, which is not what the code does (section 3).

**Level** (`LevelSyncProofs`), for any number of gears and any levels and fade times.
`GroupFollowsItsMember` (`GroupFollowsPin`): a group that follows a member shows that
member's level and setpoint and no error, through events, polls, rebuilt controls and
devices that come and go. `SwitchLastWriteWins` (`LastWriteWins`): when everything is
at rest, what was carried out on a switch is what a client wrote to it last. The
invariant `LevelInv` has three parts: the shape of the published values
(`GroupInv`, which contains the first property), what is in the lists of commands and
polls under way (`ListsInv`), and that a switch has a value to set exactly as long as
it waits in the queue, the one written last, and that what has left the queue is what
was carried out (`WriteInv`). What one command does to all of its targets is handled
without induction.

`CalmShowsActual` (`ShownIsActual` under `Calm`, section 3): when nothing is under way
and no poll is due, MQTT shows of every device the level, setpoint and switch that its
gear has, or an error. The invariant `SyncInv` adds six parts. Every light is either
covered or calm (`FollowInv`). Covered (`Covered`): the last command that moves it is
still in the line of frames, or in a task, and will schedule a poll later than the fade
that is then running, or that poll is scheduled, not before the light has come to rest.
Calm (`Calmed`): the light rests, nobody has anything to tell about it, and it will be
polled, is being polled with an answer that is the truth or lost, or is known rightly
(`Good`). The fade a command will be waited for is not the one tracked now but the one
after the frames before it, so `FadeAt` follows a fade along the line, and `OrderInv`
says that at its end tracked and real fade agree, which needs that a fade is set right
after its register (`Loaded`). What is known and what is shown differ by what waits for
the publisher: `Ends` says what a field will show once that is published, and `WireInv`
that this is the value of the control. `GearInv` and `LoopInv` are the shapes of gear and
of polls, `FreshInv` that controls that were never polled see no light change. The proof
walks along the commands of a batch with a recursive function (`ObeysAllIs`,
`BatchIs`), and along joined lists (`FlattenHolds`); where it needs an induction over
numbers it takes the least counterexample (`FirstPosition`). TLC checked `SyncInv` on all
states of two events, and on random runs of four.

Finding an invariant that is inductive corrected two assumptions:
`ControllerAssumption` had allowed two kinds of tasks to be the same set, and
`ServiceAssumption` a configuration that lists a gateway twice, which no save of
the service produces.

Only model-checked:

* Liveness (`CallsEnd`, `TasksEnd`, `MessagesServed`, `Served`,
  `Terminates`, `RequestsEnd`, `ColourConverges`, `Recovers`) is outside the prover.
* `AnswersMatch`, where the gateway is prompt and no call is cancelled; what holds
  without that is `WrongAnswerIsLate`.
* `OneReading`, because `Polling` uses recursive operators for a round of polls.
* `EveryoneAddressed`, which rests on what
  a bisection finds; `ConfiguredKeepAddress`, which is about two devices;
  `TablesAreCurrent`, `ConfirmedIsSaved`; `KnownIsHeld`,
  `SavedIsHeld`; `ShownIsLampColour`, `SceneIsHeld`: no inductive invariant has been
  worked out.

## 5. Plan

1. Proofs: `ShownIsLampColour`, along the line of `ShownIsActual`;
   `EveryoneAddressed`, from the correctness of the bisection.
2. Colour: RGBWAF and primary N, colours of groups.
3. Events of DALI-2 input devices; the broadcast device as `LevelSync` has the
   group.
4. The overheat limiter on the clock of `Polling`.

## 6. Not modelled

Frame encoding and decoding, parsing of command expressions (`send_command.py`),
JSON schemas and titles, validation of the configuration, logging, what the
Lunatone emulator says on its websocket, the vendored command classes. The device
type parameter modules are tables over one read and write protocol, which is what
`Settings` models. `PROJECT.json` lists every part with its status.

------------------------------ MODULE Polling ------------------------------
(* What the bus loop does when it has no task: the first initialisation of     *)
(* devices and the retries of failed ones, the rounds of polls with their       *)
(* command budget, the energy totalizer read in chunks over several ticks, and  *)
(* the background fetch of settings. The loop is one coroutine; a batch of      *)
(* polls is awaited, and meanwhile another master may silence the bus           *)
(* (quiescent mode) and event synchronisation may move a poll.                  *)
(*                                                                             *)
(* Moments are kept as the time left until them, in units of the longest idle   *)
(* wait of the loop (1 s), so that time needs no bound.                         *)
EXTENDS Integers, Sequences, FiniteSets, SequencesExt, FiniteSetsExt

CONSTANTS Devices,         \* the devices of the bus, in the order of the device lists
          Controls,        \* the pollables of a device, in order; a DALI-2 device has none
          Meter,           \* the pollable that is the energy totalizer of device type 51
          Settings,        \* the steps each fetched setting of a device takes
          Budget,          \* default_max_commands
          ChunkCost,       \* commands of one energy chunk
          Chunks,          \* chunks of one energy reading
          Intervals,       \* the poll interval of a control, with its jitter
          MeterInterval,   \* _REFRESH_INTERVAL_S
          FirstDelay,      \* INIT_RETRY_INITIAL_DELAY
          MaxDelay,        \* INIT_RETRY_MAX_DELAY
          Slow,            \* the longest a failing initialisation may take
          QuietTime,       \* the 15 minutes of quiescent mode
          MaxEvents        \* bound on what users and other masters do

Devs == ToSet(Devices)
Polls == UNION {ToSet(Controls[d]) : d \in Devs}
OwnerOf(p) == CHOOSE d \in Devs : p \in ToSet(Controls[d])
Polled == {d \in Devs : Controls[d] # <<>>}

ASSUME IntervalAssumption == Intervals \subseteq Nat \ {0} /\ MeterInterval \in Nat \ {0}
ASSUME BudgetAssumption == Budget \in Nat \ {0} /\ ChunkCost > Budget
(* All the devices of a bus fail within one longest delay.                     *)
ASSUME RetryAssumption == FirstDelay > Slow /\ MaxDelay >= Slow * Len(Devices)

VARIABLES listed,   \* the devices the controller knows
          up,       \* the initialised ones
          pend,     \* DeviceInitScheduler._pending, in insertion order
          sched,    \* PollScheduler: devs, idx and the poll_turn
          due,      \* next_due_at of each pollable
          round,    \* _current_round of each device
          energy,   \* Type51Parameters: _read_progress and whether the scale is known
          shown,    \* the active energy control on MQTT
          batch,    \* the polls that have been sent and not answered
          fetch,    \* SettingsFetchScheduler: entries and cursor
          quiet,    \* what is left of quiescent mode
          left      \* how many of MaxEvents may still happen

vars == <<listed, up, pend, sched, due, round, energy, shown, batch, fetch, quiet, left>>

Never   == -1                     \* next_due_at is None
NoBatch == [sent |-> FALSE, asked |-> {}, chunk |-> "none", got |-> <<>>]
Shown   == {"none", "error", "whole", "mixed"}

TypeOK ==
  /\ up \subseteq listed /\ listed \subseteq Devs
  /\ pend \in Seq([dev : Devs, delay : 0 .. MaxDelay, wait : 0 .. MaxDelay])
  /\ sched.devs \in Seq(Polled) /\ sched.idx \in 0 .. Len(sched.devs) /\ sched.turn \in BOOLEAN
  /\ due \in [Polls -> Int] /\ round \in [Devs -> Seq(Polls)]
  /\ energy.got \in Seq(BOOLEAN) /\ shown \in Shown
  /\ quiet \in 0 .. QuietTime /\ left \in 0 .. MaxEvents

(* start: every device of the configuration waits for its first attempt.       *)
Init ==
  /\ listed = Devs /\ up = {}
  /\ pend = [i \in DOMAIN Devices |-> [dev |-> Devices[i], delay |-> 0, wait |-> 0]]
  /\ sched = [devs |-> <<>>, idx |-> 0, turn |-> FALSE]
  /\ due = [p \in Polls |-> Never]
  /\ round = [d \in Devs |-> <<>>]
  /\ energy = [on |-> FALSE, got |-> <<>>, scale |-> FALSE]
  /\ shown = "none" /\ batch = NoBatch
  /\ fetch = [entries |-> <<>>, cursor |-> 0]
  /\ quiet = 0 /\ left = MaxEvents

---------------------------------------------------------------------------
(* Time                                                                        *)

Later(w, k) == IF w < k THEN (IF w = Never THEN Never ELSE 0) ELSE w - k
Aged(s, k) == [i \in DOMAIN s |-> [s[i] EXCEPT !.wait = Later(@, k)]]
Elapsed(f, k) == [p \in Polls |-> Later(f[p], k)]

IsDue(p) == due[p] <= 0

---------------------------------------------------------------------------
(* DeviceInitScheduler                                                         *)

HasFailed(e) == e.delay > 0
FirstReady == SelectSeq(pend, LAMBDA e : ~HasFailed(e) /\ e.wait = 0)
RetryReady(e) == HasFailed(e) /\ e.wait = 0
Retries == SelectSeq(pend, RetryReady)

NextDelay(delay) == Min({IF delay > 0 THEN delay * 2 ELSE FirstDelay, MaxDelay})

RecordFailure(s, ds) ==
  [i \in DOMAIN s |-> IF s[i].dev \in ds THEN LET n == NextDelay(s[i].delay) IN [s[i] EXCEPT !.delay = n, !.wait = n]
                      ELSE s[i]]
Forget(s, ds) == SelectSeq(s, LAMBDA e : e.dev \notin ds)

(* SettingsFetchScheduler.add_device, remove_device                            *)
Unfetched(entries, ds) == SelectSeq(entries, LAMBDA e : e.dev \notin ds)
Fetched(entries, ds) ==
  LET of(d) == IF d \in ds THEN [i \in DOMAIN Settings[d] |-> [dev |-> d, steps |-> Settings[d][i]]] ELSE <<>>
  IN Unfetched(entries, ds) \o FlattenSeq([i \in DOMAIN Devices |-> of(Devices[i])])

(* _ActiveEnergyControl.notify                                                 *)
ShowEnergy(read) == shown' = IF read = "failed" THEN "error" ELSE read

(* Type51Parameters.read_mandatory_info: the scale is read with the device, or   *)
(* with the reading that follows, which may fail too.                            *)
FirstReading ==
  \E known \in BOOLEAN, good \in BOOLEAN :
    /\ energy' = [on |-> FALSE, got |-> <<>>, scale |-> known]
    /\ ShowEnergy(IF known /\ good THEN "whole" ELSE "failed")

(* _do_init_device for the devices ds, of which ok answer; it takes k. A device *)
(* that answers reads its controls at once and schedules their next polls. The  *)
(* delay of one that fails counts from the beginning of the step.               *)
Attempt(ds, ok, k) ==
  /\ up' = up \cup ok
  /\ pend' = Aged(RecordFailure(Forget(pend, ok), ds \ ok), k)
  /\ fetch' = [fetch EXCEPT !.entries = Fetched(@, ok)]
  /\ \E i \in Intervals :
       due' = [p \in Polls |-> IF OwnerOf(p) \in ok THEN (IF p = Meter THEN MeterInterval ELSE i) ELSE Later(due[p], k)]
  /\ IF \E d \in ok : Meter \in ToSet(Controls[d]) THEN FirstReading ELSE UNCHANGED <<energy, shown>>

Idling == batch = NoBatch /\ quiet = 0

FirstAttempts ==
  LET ds == {e.dev : e \in ToSet(FirstReady)} IN
  /\ Idling /\ ds # {}
  /\ \E ok \in SUBSET ds, k \in 0 .. Slow : (ok = ds => k = 0) /\ Attempt(ds, ok, k)
  /\ UNCHANGED <<listed, sched, round, batch, quiet, left>>

---------------------------------------------------------------------------
(* A poll tick. The plan is made without an await: `plan' is what is known so   *)
(* far, `more' that the pollable at the head of the round is to stay there. The  *)
(* operators give the set of what may come of it, as the intervals are jittered. *)

StaysFirst(plan) == {[plan EXCEPT !.more = TRUE]}

(* SingleQueryControl.next_poll_step                                           *)
Ask(plan, p) ==
  IF plan.budget < 1 THEN StaysFirst(plan)
  ELSE {[plan EXCEPT !.budget = @ - 1, !.asked = @ \cup {p}, !.due[p] = i] : i \in Intervals}

(* Type51Parameters.next_poll_step                                             *)
Begun(plan) ==
  IF plan.energy.on THEN plan
  ELSE [plan EXCEPT !.energy.on = TRUE, !.energy.got = <<>>, !.due[Meter] = MeterInterval]
NextChunk(plan) ==
  LET scale == ~plan.energy.scale /\ plan.energy.got = <<>>
  IN [plan EXCEPT !.more = scale \/ Len(plan.energy.got) < Chunks - 1,
                  !.budget = @ - ChunkCost,
                  !.chunk = IF scale THEN "scale" ELSE "data"]
(* Seeded fault: a failed reading is started again at once.                     *)
ReadAtOnce(plan) ==
  IF plan.budget < Budget THEN StaysFirst(plan) ELSE {NextChunk(Begun(plan))}
ReadEnergy(plan) ==
  IF plan.budget < Budget THEN StaysFirst(plan)
  ELSE IF ~plan.energy.on /\ plan.due[Meter] > 0 THEN {plan}
  ELSE {NextChunk(Begun(plan))}

(* poll_controls of one device: a new round takes what is due; it goes on until  *)
(* it is over or a pollable has more to do.                                      *)
NewRound(plan, d) ==
  IF plan.round[d] # <<>> THEN plan
  ELSE [plan EXCEPT !.round[d] = SelectSeq(Controls[d], LAMBDA p : plan.due[p] <= 0 \/ (p = Meter /\ plan.energy.on))]
Popped(plan, d) == IF plan.more THEN plan ELSE [plan EXCEPT !.round[d] = Tail(@)]
PollHead(plan, d) ==
  LET p == Head(plan.round[d])
  IN {Popped(next, d) : next \in IF p = Meter THEN ReadEnergy(plan) ELSE Ask(plan, p)}
RECURSIVE PollControls(_, _)
PollControls(plan, d) ==
  IF plan.more \/ plan.round[d] = <<>> THEN {plan}
  ELSE UNION {PollControls(next, d) : next \in PollHead(plan, d)}

(* PollScheduler.poll: device after device, until the budget is spent.           *)
Visited(plan) == IF plan.more THEN plan ELSE [plan EXCEPT !.idx = @ + 1]
RECURSIVE Visit(_, _)
Visit(plan, devs) ==
  IF plan.more \/ plan.budget <= 0 \/ plan.idx >= Len(devs) THEN {plan}
  ELSE LET d == devs[plan.idx + 1]
       IN UNION {Visit(Visited(next), devs) : next \in PollControls(NewRound(plan, d), d)}
PlansFrom(devs, idx) ==
  Visit([budget |-> Budget, more |-> FALSE, idx |-> idx, due |-> due, round |-> round,
         energy |-> energy, asked |-> {}, chunk |-> "none"], devs)

IsEmpty == sched.idx >= Len(sched.devs)
UpDevices == SelectSeq(Devices, LAMBDA d : d \in up /\ d \in Polled)
NothingToPoll == IsEmpty /\ UpDevices = <<>>

(* Which turn follows a poll: a retry of an initialisation.                     *)
AfterPoll == FALSE

(* _poll_step, the poll turn: the round begins again with the devices that are  *)
(* up, the coroutines are gathered and awaited.                                 *)
PollTick ==
  /\ Idling /\ FirstReady = <<>> /\ sched.turn /\ ~NothingToPoll
  /\ LET devs == IF IsEmpty THEN UpDevices ELSE sched.devs
         idx  == IF IsEmpty THEN 0 ELSE sched.idx
     IN \E plan \in PlansFrom(devs, idx) :
          LET sent == plan.asked # {} \/ plan.chunk # "none"
          IN /\ sched' = [devs |-> devs, idx |-> plan.idx, turn |-> sent \/ AfterPoll]
             /\ due' = plan.due /\ round' = plan.round /\ energy' = plan.energy
             /\ batch' = [sent |-> sent, asked |-> plan.asked, chunk |-> plan.chunk,
                          got |-> IF plan.chunk # "none" THEN plan.energy.got ELSE <<>>]
  /\ UNCHANGED <<listed, up, pend, shown, fetch, quiet, left>>

(* The bytes a reading holds when it breaks off or the bus falls silent are old  *)
(* ones: TRUE marks them in `got'.                                              *)
Old(e) == [e EXCEPT !.got = [i \in DOMAIN @ |-> TRUE]]

(* Seeded fault: the reading is kept, and only the chunk that failed is asked    *)
(* for again.                                                                   *)
FailKeepsRead(e) == e
FailCycle(e) == [e EXCEPT !.on = FALSE, !.got = <<>>]

FinishCycle(got) == IF ~energy.scale THEN "failed" ELSE IF TRUE \in ToSet(got) THEN "mixed" ELSE "whole"

(* _do_scale_chunk and _do_chunk. A chunk goes to the reading it was sent for,  *)
(* which the device has dropped when quiescent mode began meanwhile.            *)
ChunkRead(ok) ==
  LET got == Append(batch.got, FALSE) IN
  CASE batch.chunk = "none" -> UNCHANGED <<energy, shown>>
    [] batch.chunk # "none" /\ ~ok -> energy' = Old(FailCycle(energy)) /\ ShowEnergy("failed")
    [] batch.chunk = "scale" /\ ok -> energy' = [energy EXCEPT !.scale = TRUE] /\ UNCHANGED shown
    [] batch.chunk = "data" /\ ok /\ Len(got) < Chunks ->
         energy' = (IF energy.on THEN [energy EXCEPT !.got = got] ELSE energy) /\ UNCHANGED shown
    [] OTHER -> energy' = [energy EXCEPT !.on = FALSE, !.got = <<>>] /\ ShowEnergy(FinishCycle(got))

Answered ==
  /\ batch # NoBatch
  /\ \E ok \in BOOLEAN : ChunkRead(ok)
  /\ batch' = NoBatch
  /\ sched' = [sched EXCEPT !.turn = AfterPoll]
  /\ UNCHANGED <<listed, up, pend, due, round, fetch, quiet, left>>

---------------------------------------------------------------------------
(* _poll_step, the other turn                                                  *)

NotPolling == Idling /\ FirstReady = <<>> /\ (sched.turn => NothingToPoll)
(* set_devices has been called when the turn was there.                         *)
Looked == IF sched.turn THEN [sched EXCEPT !.devs = <<>>, !.idx = 0] ELSE [sched EXCEPT !.turn = TRUE]

Retry ==
  /\ NotPolling /\ Retries # <<>>
  /\ LET d == Head(Retries).dev
     IN \E ok \in SUBSET {d}, k \in 0 .. Slow : (ok = {d} => k = 0) /\ Attempt({d}, ok, k)
  /\ sched' = [Looked EXCEPT !.turn = TRUE]
  /\ UNCHANGED <<listed, round, batch, quiet, left>>

(* PollScheduler.time_until_next_poll at the end of a round, at most the longest *)
(* idle wait.                                                                   *)
UntilNextPoll ==
  LET ps == UNION {ToSet(Controls[d]) : d \in ToSet(Looked.devs)}
  IN Min({1} \cup {Max({due[p], 0}) : p \in ps})

FetchDone(f, idx, over) ==
  IF over THEN [entries |-> RemoveAt(f.entries, idx), cursor |-> idx - 1]
  ELSE [entries |-> [f.entries EXCEPT ![idx].steps = @ - 1], cursor |-> idx]

(* fetch_step: one step of one setting; a failed one leaves the list.           *)
FetchStep ==
  LET idx == (fetch.cursor % Len(fetch.entries)) + 1
  IN \E failed \in BOOLEAN : fetch' = FetchDone(fetch, idx, failed \/ fetch.entries[idx].steps = 1)

(* The idle turn: go on with the round, fetch a setting, or wait.               *)
Idle ==
  /\ NotPolling /\ Retries = <<>>
  /\ sched' = Looked
  /\ IF Looked.idx < Len(Looked.devs) THEN UNCHANGED <<fetch, due, pend>>
     ELSE IF UntilNextPoll > 0 /\ fetch.entries # <<>> THEN FetchStep /\ UNCHANGED <<due, pend>>
     ELSE /\ due' = Elapsed(due, UntilNextPoll) /\ pend' = Aged(pend, UntilNextPoll)
          /\ fetch' = IF UntilNextPoll > 0 THEN [fetch EXCEPT !.cursor = 0] ELSE fetch
  /\ UNCHANGED <<listed, up, round, energy, shown, batch, quiet, left>>

---------------------------------------------------------------------------
(* Quiescent mode: another master asks for silence, for a while.               *)

(* Seeded fault: the reading under way is kept.                                 *)
KeepRead(e) == e
CancelPendingPoll(e) == [e EXCEPT !.on = FALSE, !.got = <<>>]

Event == left > 0 /\ left' = left - 1

(* _handle_start_quiescent_mode                                                *)
StartQuiet ==
  /\ Event
  /\ quiet' = QuietTime
  /\ round' = [d \in Devs |-> IF d \in listed THEN <<>> ELSE round[d]]
  /\ energy' = CancelPendingPoll(energy)
  /\ UNCHANGED <<listed, up, pend, sched, due, shown, batch, fetch>>
StopQuiet ==
  /\ quiet > 0 /\ Event
  /\ quiet' = 0
  /\ UNCHANGED <<listed, up, pend, sched, due, round, energy, shown, batch, fetch>>

(* The loop looks again in a second; the timer runs out at last.                *)
QuietTick ==
  /\ quiet > 0 /\ batch = NoBatch
  /\ quiet' = quiet - 1
  /\ due' = Elapsed(due, 1) /\ pend' = Aged(pend, 1)
  /\ energy' = Old(energy)
  /\ UNCHANGED <<listed, up, sched, round, shown, batch, fetch, left>>

---------------------------------------------------------------------------
(* Event synchronisation and tasks                                             *)

(* EventPollSchedule.schedule_poll_at, from a command seen on the bus.          *)
Reschedule(p) ==
  /\ p # Meter /\ OwnerOf(p) \in up /\ due[p] # Never /\ Event
  /\ \E at \in Intervals : due' = [due EXCEPT ![p] = at]
  /\ UNCHANGED <<listed, up, pend, sched, round, energy, shown, batch, fetch, quiet>>

(* rebuild_mqtt_controls after a setting was written: fresh controls, never     *)
(* polled; the totalizer keeps its schedule and loses its reading.              *)
Rebuild(d) ==
  /\ Idling /\ d \in up \cap Polled /\ Event
  /\ round' = [round EXCEPT ![d] = <<>>]
  /\ due' = [p \in Polls |-> IF OwnerOf(p) = d /\ p # Meter THEN Never ELSE due[p]]
  /\ energy' = IF Meter \in ToSet(Controls[d]) THEN CancelPendingPoll(energy) ELSE energy
  /\ UNCHANGED <<listed, up, pend, sched, shown, batch, fetch, quiet>>

(* _load_device_info_task of a device that is not initialised yet.             *)
LoadInfo(d) ==
  /\ Idling /\ d \in listed \ up /\ Event
  /\ \E ok \in SUBSET {d}, k \in 0 .. Slow : (ok = {d} => k = 0) /\ Attempt({d}, ok, k)
  /\ UNCHANGED <<listed, sched, round, batch, quiet>>

(* PollScheduler.remove_device: the index stays on the device it was on.        *)
RemoveFromRound(d) ==
  LET i == SelectInSeq(sched.devs, LAMBDA e : e = d)
  IN IF i = 0 THEN sched
     ELSE [sched EXCEPT !.devs = RemoveAt(@, i), !.idx = IF i - 1 < @ THEN @ - 1 ELSE @]

(* _remove_device                                                              *)
RemoveDevice(d) ==
  /\ Idling /\ d \in listed /\ Event
  /\ listed' = listed \ {d} /\ up' = up \ {d}
  /\ pend' = Forget(pend, {d})
  /\ fetch' = [fetch EXCEPT !.entries = Unfetched(@, {d})]
  /\ sched' = RemoveFromRound(d)
  /\ round' = [round EXCEPT ![d] = <<>>]
  /\ energy' = IF Meter \in ToSet(Controls[d]) THEN CancelPendingPoll(energy) ELSE energy
  /\ UNCHANGED <<due, shown, batch, quiet>>

(* A scan that finds the devices that had been removed: they are new, wait for  *)
(* their first attempt, and the round of polls begins again.                    *)
Scan ==
  /\ Idling /\ Event
  /\ listed' = Devs
  /\ pend' = pend \o SelectSeq([i \in DOMAIN Devices |-> [dev |-> Devices[i], delay |-> 0, wait |-> 0]],
                               LAMBDA e : e.dev \notin listed)
  /\ due' = [p \in Polls |-> IF OwnerOf(p) \in listed THEN due[p] ELSE Never]
  /\ sched' = [sched EXCEPT !.devs = <<>>, !.idx = 0]
  /\ UNCHANGED <<up, round, energy, shown, batch, fetch, quiet>>

---------------------------------------------------------------------------
Loop == FirstAttempts \/ PollTick \/ Answered \/ Retry \/ Idle \/ QuietTick
Others ==
  \/ StartQuiet \/ StopQuiet \/ Scan
  \/ \E p \in Polls : Reschedule(p)
  \/ \E d \in Devs : Rebuild(d) \/ LoadInfo(d) \/ RemoveDevice(d)
Next == Loop \/ Others

Spec == Init /\ [][Next]_vars /\ WF_vars(Loop)

---------------------------------------------------------------------------
(* A published energy reading is made of the bytes of one reading: no byte of   *)
(* it was read before a chunk that failed, or before the silence of quiescent   *)
(* mode, with the others read after it, whatever was in flight at that moment   *)
(* (Type51Parameters._do_chunk, _fail_cycle, cancel_pending_poll).              *)
OneReading == shown # "mixed"

(* Every control of an initialised device is polled again and again, and every  *)
(* device that failed to initialise is tried again and again, whatever fails:   *)
(* devices that never answer their initialisation, an energy reading that       *)
(* breaks off every time, other masters (_poll_step, poll_turn, poll_controls,  *)
(* DeviceInitScheduler).                                                        *)
Served ==
  /\ \A p \in Polls : []<>(OwnerOf(p) \notin up \/ ~IsDue(p))
  /\ \A d \in Devs : []<>~(\E e \in ToSet(pend) : e.dev = d /\ RetryReady(e))

=============================================================================

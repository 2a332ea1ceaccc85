----------------------------- MODULE ColourSync -----------------------------
(* The colour of one lamp of device type 8 and what the service shows of it. A  *)
(* colour is set by several frames: bytes go to the registers DTR0 and DTR1,    *)
(* SET TEMPORARY takes them over for one component, ACTIVATE starts the fade.   *)
(* The service mirrors the frames it sees, its own and those of other masters   *)
(* (DtrSnapshot, ColourSequenceTracker), predicts the colour from them and      *)
(* reads the lamp after the fade, one component per tick (Type8Parameters).     *)
(*                                                                             *)
(* A byte is one bit, so that a word is 0 .. 3 and its MASK is 3. How values    *)
(* are published, in which order, is the subject of LevelSync.                  *)
EXTENDS Integers, Sequences, FiniteSets, SequencesExt

CONSTANTS Lamps,      \* sorts of lamp: components, limits, the colour at first
          Values,     \* words that somebody asks for
          ForeignPlans(_),  \* the frames another master may send to a sort of lamp
          SceneColours(_),  \* the colours a client may save for the scene
          Fade,       \* ticks of a fade
          Budgets(_), \* bounds: how many plans, writes, saves and quiescent modes,
                      \* and with how many frames missed and readings failed
          MaxBacklog  \* bound on event tasks not yet run when the bus goes on

ASSUME BoundAssumption == MaxBacklog \in Nat
ASSUME FadeAssumption  == Fade \in Nat \ {0}

Byte  == 0 .. 1
Mask  == 1
Word(high, low) == 2 * high + low
Unset == Word(Mask, Mask)
UiCoolest == 1                \* the range shown when a lamp names no limits
UiWarmest == 2
Failed == -1                  \* a component carried empty: the read failed
Resync == -1                  \* the periodic reading, minutes away
Registers == {"dtr0", "dtr1"}

VARIABLES lamp,     \* the sort of lamp, fixed at first
          gear,     \* the lamp: registers, temporary colour, colour, fade, scene
          plan,     \* frames the other master has still to send
          frames,   \* frames seen on the bus whose event task has not run
          dtr,      \* DtrSnapshot
          tracker,  \* ColourSequenceTracker: registers seen, the pending capture
          late,     \* event tasks of ACTIVATE that wait for their publishing
          handler,  \* Type8Parameters: the picture, when it is due, the cycle
          ctl,      \* the controls: what is read, its error, the setpoint
          scene,    \* SceneSettings.value, and whether it has been read
          loop,     \* the bus loop
          quiet,    \* quiescent mode
          sure,     \* history: nothing was missed, no cycle dropped
          held,     \* history: nobody but the service has stored the scene since
          left,     \* events left
          faults    \* faults left

vars == <<lamp, gear, plan, frames, dtr, tracker, late, handler, ctl, scene, loop, quiet, sure, held, left, faults>>

C     == Range(lamp.components)
Blank == [c \in C |-> Unset]
Idle  == [at |-> "idle"]
Happens == left > 0 /\ left' = left - 1
Fault   == faults > 0 /\ faults' = faults - 1

(* is_unset_component_value: a Tc of 0 is not a temperature either.             *)
IsUnset(c, v) == v = Unset \/ (c = "tc" /\ v = 0)

(* SettleClock.settle_for, of a colour: the fade and a margin.                  *)
Settle == Fade + 1

---------------------------------------------------------------------------
(* The lamp.                                                                    *)

Between(v, low, high) == IF v < low THEN low ELSE IF v > high THEN high ELSE v
Reaches(c, v) == IF lamp.coolest = Unset \/ c # "tc" THEN v ELSE Between(v, lamp.coolest, lamp.warmest)
(* Components that are MASK stay as they are.                                   *)
FadeTo(g, colour) ==
  [g EXCEPT !.to = [c \in C |-> IF IsUnset(c, colour[c]) THEN @[c] ELSE Reaches(c, colour[c])], !.ramp = Fade]

NoScene == [level |-> Mask, colour |-> Blank, masked |-> TRUE]

Obeys(g, f) ==
  CASE f.op \in Registers -> [g EXCEPT ![f.op] = f.v]
    [] f.op = "set"       -> [g EXCEPT !.temp[f.c] = Word(g.dtr1, g.dtr0)]
    [] f.op = "activate"  -> [FadeTo(g, g.temp) EXCEPT !.temp = Blank]
    [] f.op = "step"      -> FadeTo(g, [Blank EXCEPT ![f.c] = IF g.to[f.c] = Unset THEN Unset ELSE Between(g.to[f.c] + 1, 1, 2)])
    [] f.op = "scene"     -> IF g.scene.masked THEN g ELSE FadeTo(g, g.scene.colour)
    [] f.op = "store"     -> [g EXCEPT !.scene = [level |-> g.dtr0, colour |-> g.temp, masked |-> g.temp = Blank],
                                       !.temp = Blank]
    [] f.op = "remove"    -> [g EXCEPT !.scene = NoScene]
    [] OTHER              -> g

(* QUERY COLOUR VALUE answers the high byte and leaves the low one in DTR0.     *)
Tag(c) == IF c = "y" THEN 1 ELSE 0
Queried(g, c) == [g EXCEPT !.dtr0 = g.now[c] % 2]

---------------------------------------------------------------------------
(* What is seen of a colour sequence.                                           *)

NoCapture == [set |-> [c \in {} |-> Unset], predictable |-> TRUE]

(* ColourSequenceTracker.note_dtr                                               *)
NoteDtr(t, r) == [fresh |-> t.fresh \cup {r}, pending |-> IF t.fresh = {} THEN NoCapture ELSE t.pending]
(* ColourSequenceTracker.record                                                 *)
RecordSet(t, c) ==
  IF Registers \subseteq t.fresh
  THEN [t EXCEPT !.pending.set = [k \in DOMAIN @ \cup {c} |-> IF k = c THEN Word(dtr.dtr1, dtr.dtr0) ELSE @[k]]]
  ELSE [t EXCEPT !.pending.predictable = FALSE]
RecordControl(t) == [t EXCEPT !.pending.predictable = FALSE]

---------------------------------------------------------------------------
(* The controls and the handler.                                                *)

(* Seeded fault: an error stays when the lamp answers again.                    *)
NotifyReadKeepsError(r, c, e) ==
  IF c \notin DOMAIN e.values \/ r.error THEN r
  ELSE IF e.values[c] = Failed \/ IsUnset(c, e.values[c]) THEN [r EXCEPT !.error = TRUE]
  ELSE [value |-> e.values[c], error |-> FALSE]
(* ColourComponentControl.notify: a prediction does not cover a read error; the *)
(* setpoint takes any value, the reading the failures too.                      *)
NotifyRead(r, c, e) ==
  IF c \notin DOMAIN e.values \/ (~e.read /\ r.error) THEN r
  ELSE IF e.values[c] = Failed \/ IsUnset(c, e.values[c]) THEN [r EXCEPT !.error = TRUE]
  ELSE [value |-> e.values[c], error |-> FALSE]
NotifySet(v, c, e) ==
  IF c \notin DOMAIN e.values \/ e.values[c] = Failed \/ IsUnset(c, e.values[c]) THEN v ELSE e.values[c]
Notify(k, e) == [read |-> [c \in C |-> NotifyRead(k.read[c], c, e)],
                 set  |-> [c \in C |-> NotifySet(k.set[c], c, e)]]

(* Type8Parameters._clamp_tc                                                    *)
ClampTc(c, v) ==
  IF c # "tc" \/ IsUnset(c, v) THEN v
  ELSE Between(v, IF lamp.coolest = Unset THEN UiCoolest ELSE lamp.coolest,
                  IF lamp.warmest = Unset THEN UiWarmest ELSE lamp.warmest)
(* filter_valid_components, apply_observed_colour: the picture and what of it   *)
(* is known.                                                                    *)
Overlay(set) == [c \in C |-> ClampTc(c, IF c \in DOMAIN set /\ ~IsUnset(c, set[c]) THEN set[c] ELSE handler.colour[c])]
Known(colour) == {c \in C : ~IsUnset(c, colour[c])}
Observed(colour) == [read |-> FALSE, values |-> [c \in Known(colour) |-> colour[c]]]
(* EventPollSchedule.schedule_poll_at, once the lamp has been polled.           *)
PollAt(h) == [h EXCEPT !.due = Settle]
(* _build_error_results                                                         *)
AllFailed == [read |-> TRUE, values |-> [c \in C |-> Failed]]

NoCycle == [open |-> FALSE, typed |-> FALSE, todo |-> <<>>, done |-> <<>>]

---------------------------------------------------------------------------
(* The service has just read the lamp for the first time, or failed to; a lamp  *)
(* that fades is read again (_startup_reconfirm_moment).                        *)
Init ==
  /\ lamp \in Lamps
  /\ gear = [dtr0 |-> 0, dtr1 |-> 0, temp |-> Blank, now |-> lamp.first, to |-> lamp.first, ramp |-> 0,
             scene |-> NoScene]
  /\ plan = <<>> /\ frames = <<>> /\ late = 0
  /\ dtr = [r \in Registers |-> 0]
  /\ tracker = [fresh |-> {}, pending |-> NoCapture]
  /\ \E ok \in BOOLEAN :
       LET e == IF ok THEN [read |-> TRUE, values |-> lamp.first] ELSE AllFailed
       IN /\ handler = [colour |-> IF ok THEN lamp.first ELSE Blank, due |-> Settle, cycle |-> NoCycle]
          /\ ctl = Notify([read |-> [c \in C |-> [value |-> 0, error |-> FALSE]], set |-> [c \in C |-> 0]], e)
  /\ scene = [read |-> FALSE, value |-> NoScene]
  /\ loop = Idle /\ quiet = FALSE /\ sure = TRUE /\ held = TRUE
  /\ \E b \in Budgets(lamp) : left = b.events /\ faults = b.faults

(* A tick passes; it is long against what the event loop has ready to do.       *)
Tick ==
  /\ frames = <<>> /\ late = 0 /\ loop = Idle
  /\ gear.ramp > 0 \/ handler.due > 0
  /\ gear' = [gear EXCEPT !.ramp = Between(@ - 1, 0, Fade), !.now = IF gear.ramp <= 1 THEN gear.to ELSE @]
  /\ handler' = [handler EXCEPT !.due = IF @ > 0 THEN @ - 1 ELSE @]
  /\ UNCHANGED <<lamp, plan, frames, dtr, tracker, late, ctl, scene, loop, quiet, sure, held, left, faults>>

---------------------------------------------------------------------------
(* Frames on the bus. Either side may miss one.                                 *)

ObeysAll(fs, missed) == FoldLeft(LAMBDA g, i : IF i = missed THEN g ELSE Obeys(g, fs[i]), gear, [i \in DOMAIN fs |-> i])
Missing(fs) == \/ gear' = ObeysAll(fs, 0) /\ UNCHANGED faults
               \/ Fault /\ \E i \in DOMAIN fs : gear' = ObeysAll(fs, i)

BusGoesOn == Len(frames) <= MaxBacklog

(* Another master begins something.                                             *)
ForeignBegins ==
  /\ plan = <<>> /\ Happens
  /\ plan' \in ForeignPlans(lamp)
  /\ UNCHANGED <<lamp, gear, frames, dtr, tracker, late, handler, ctl, scene, loop, quiet, sure, held, faults>>
(* It sends one frame; the bus monitor of the service may lose it.              *)
ForeignSends ==
  /\ plan # <<>> /\ BusGoesOn
  /\ plan' = Tail(plan)
  /\ gear' = Obeys(gear, Head(plan))
  /\ \/ frames' = Append(frames, Head(plan)) /\ UNCHANGED <<sure, faults>>
     \/ frames' = frames /\ Fault /\ sure' = FALSE
  /\ held' = (held /\ Head(plan).op \notin {"store", "remove"})
  /\ UNCHANGED <<lamp, dtr, tracker, late, handler, ctl, scene, loop, quiet, left>>

---------------------------------------------------------------------------
(* EventSyncCoordinator: a task per frame, run in order up to its first await.  *)

(* DtrSnapshot.record, note_dtr                                                 *)
HearRegister(f) ==
  /\ f.op \in Registers
  /\ dtr' = [dtr EXCEPT ![f.op] = f.v]
  /\ tracker' = NoteDtr(tracker, f.op)
  /\ UNCHANGED <<late, handler, ctl>>
HearSet(f) ==
  /\ f.op \in {"set", "control"}
  /\ tracker' = IF f.op = "set" THEN RecordSet(tracker, f.c) ELSE RecordControl(tracker)
  /\ UNCHANGED <<dtr, late, handler, ctl>>
(* _COLOUR_STEP: nothing is predicted, the lamp is only read.                   *)
HearStep(f) ==
  /\ f.op = "step"
  /\ handler' = PollAt(handler)
  /\ UNCHANGED <<dtr, tracker, late, ctl>>
(* _apply_activate: what was captured is predicted and published; the reading   *)
(* is scheduled and the registers are forgotten only after that await.          *)
HearActivate(f) ==
  /\ f.op = "activate"
  /\ LET p == tracker.pending
         o == Overlay(p.set)
     IN IF p.predictable /\ DOMAIN p.set # {}
        THEN /\ handler' = IF Known(o) = {} THEN PollAt([handler EXCEPT !.colour = o]) ELSE [handler EXCEPT !.colour = o]
             /\ ctl' = Notify(ctl, Observed(o))
             /\ late' = IF Known(o) = {} THEN late ELSE late + 1
             /\ tracker' = [fresh |-> IF Known(o) = {} THEN {} ELSE tracker.fresh, pending |-> NoCapture]
        ELSE /\ handler' = PollAt(handler)
             /\ tracker' = [fresh |-> {}, pending |-> NoCapture]
             /\ UNCHANGED <<ctl, late>>
  /\ UNCHANGED dtr
(* ACTIVATE of another lamp ends the transaction for the registers only.        *)
HearOther(f) ==
  /\ f.op = "other"
  /\ tracker' = [tracker EXCEPT !.fresh = {}]
  /\ UNCHANGED <<dtr, late, handler, ctl>>
(* scene_colour_components: what the stored scene sets.                         *)
SceneColour ==
  LET s == scene.value
  IN [c \in {k \in C : scene.read /\ s.level # Mask /\ s.colour[k] # Unset} |-> s.colour[c]]
(* _apply_scene_colour                                                          *)
HearScene(f) ==
  /\ f.op = "scene"
  /\ IF DOMAIN SceneColour = {} THEN handler' = PollAt(handler) /\ UNCHANGED ctl
     ELSE /\ handler' = PollAt([handler EXCEPT !.colour = Overlay(SceneColour)])
          /\ ctl' = Notify(ctl, Observed(Overlay(SceneColour)))
  /\ UNCHANGED <<dtr, tracker, late>>
(* SET SCENE and REMOVE FROM SCENE tell the event sync nothing.                 *)
HearNothing(f) == f.op \in {"store", "remove"} /\ UNCHANGED <<dtr, tracker, late, handler, ctl>>

Hear ==
  /\ frames # <<>>
  /\ frames' = Tail(frames)
  /\ LET f == Head(frames)
     IN \/ HearRegister(f) \/ HearSet(f) \/ HearStep(f) \/ HearActivate(f) \/ HearOther(f) \/ HearScene(f) \/ HearNothing(f)
  /\ UNCHANGED <<lamp, gear, plan, scene, loop, quiet, sure, held, left, faults>>

(* The rest of _apply_activate, when its event has been published.              *)
ActivateEnds ==
  /\ late > 0 /\ late' = late - 1
  /\ handler' = PollAt(handler)
  /\ tracker' = [tracker EXCEPT !.fresh = {}]
  /\ UNCHANGED <<lamp, gear, plan, frames, dtr, ctl, scene, loop, quiet, sure, held, left, faults>>

---------------------------------------------------------------------------
(* Polling.                                                                     *)

(* The periodic reading comes round.                                            *)
ComesRound ==
  /\ handler.due = Resync /\ loop = Idle /\ frames = <<>> /\ late = 0
  /\ handler' = [handler EXCEPT !.due = 0]
  /\ UNCHANGED <<lamp, gear, plan, frames, dtr, tracker, late, ctl, scene, loop, quiet, sure, held, left, faults>>

IsPollDue == handler.cycle.open \/ handler.due = 0

(* next_poll_step: a cycle asks for the type of the colour, then for one        *)
(* component per tick. The frames of one question stay together on the bus; the *)
(* next poll is the periodic one from the start of the cycle on.                *)
PollAsk ==
  /\ loop = Idle /\ BusGoesOn /\ ~quiet /\ IsPollDue
  /\ LET y == IF handler.cycle.open THEN handler.cycle ELSE [NoCycle EXCEPT !.open = TRUE]
         c == Head(y.todo)
     IN /\ handler' = IF handler.cycle.open THEN handler ELSE [handler EXCEPT !.cycle = y, !.due = Resync]
        /\ frames' = Append(frames, [op |-> "dtr0", v |-> IF y.typed THEN Tag(c) ELSE 0])
        /\ gear' = IF y.typed THEN Queried(gear, c) ELSE [gear EXCEPT !.dtr0 = 0]
        /\ \/ loop' = [at |-> "answered", cycle |-> y, got |-> IF y.typed THEN gear.now[c] ELSE 0] /\ UNCHANGED faults
           \/ loop' = [at |-> "answered", cycle |-> y, got |-> Failed] /\ Fault
  /\ UNCHANGED <<lamp, plan, dtr, tracker, late, ctl, scene, quiet, sure, held, left>>

(* The cycle goes on from what it has, even if the handler has dropped it.      *)
GoOn(y) == handler' = [handler EXCEPT !.cycle = IF @.open THEN y ELSE @]
Tells(e) == loop' = [at |-> "telling", event |-> e]

(* _do_first_subbatch, _do_component_subbatch: a failure ends the cycle for all *)
(* components; the picture changes when the last one has come.                  *)
Fails == loop.got = Failed /\ handler' = [handler EXCEPT !.cycle = NoCycle] /\ Tells(AllFailed)
LearnsType ==
  /\ loop.got # Failed /\ ~loop.cycle.typed
  /\ GoOn([loop.cycle EXCEPT !.typed = TRUE, !.todo = lamp.components])
  /\ loop' = Idle
(* Seeded fault: the next poll is counted from the end of the cycle.            *)
LearnsComponentReschedules ==
  /\ loop.got # Failed /\ loop.cycle.typed
  /\ LET y == [loop.cycle EXCEPT !.todo = Tail(@), !.done = Append(@, loop.got)]
         seen == [c \in C |-> y.done[SelectInSeq(lamp.components, LAMBDA k : k = c)]]
     IN IF y.todo # <<>> THEN GoOn(y) /\ loop' = Idle
        ELSE /\ handler' = [handler EXCEPT !.cycle = NoCycle, !.colour = seen, !.due = Resync]
             /\ Tells([read |-> TRUE, values |-> seen])
LearnsComponent ==
  /\ loop.got # Failed /\ loop.cycle.typed
  /\ LET y == [loop.cycle EXCEPT !.todo = Tail(@), !.done = Append(@, loop.got)]
         seen == [c \in C |-> y.done[SelectInSeq(lamp.components, LAMBDA k : k = c)]]
     IN IF y.todo # <<>> THEN GoOn(y) /\ loop' = Idle
        ELSE /\ handler' = [handler EXCEPT !.cycle = NoCycle, !.colour = seen]
             /\ Tells([read |-> TRUE, values |-> seen])
PollTake ==
  /\ loop.at = "answered"
  /\ Fails \/ LearnsType \/ LearnsComponent
  /\ UNCHANGED <<lamp, gear, plan, frames, dtr, tracker, late, ctl, scene, quiet, sure, held, left, faults>>

(* _poll_devices: the event is dispatched when all devices have answered.       *)
PollTell ==
  /\ loop.at = "telling"
  /\ ctl' = Notify(ctl, loop.event)
  /\ loop' = Idle
  /\ UNCHANGED <<lamp, gear, plan, frames, dtr, tracker, late, handler, scene, quiet, sure, held, left, faults>>

(* Quiescent mode: reset_polling_state, cancel_pending_poll. A cycle dropped    *)
(* half way is not caught up before the periodic one.                           *)
QuiescentStarts ==
  /\ ~quiet /\ Happens
  /\ quiet' = TRUE
  /\ handler' = [handler EXCEPT !.cycle = NoCycle]
  /\ sure' = (sure /\ ~handler.cycle.open)
  /\ UNCHANGED <<lamp, gear, plan, frames, dtr, tracker, late, ctl, scene, loop, held, faults>>
QuiescentStops ==
  /\ quiet /\ quiet' = FALSE
  /\ UNCHANGED <<lamp, gear, plan, frames, dtr, tracker, late, handler, ctl, scene, loop, sure, held, left, faults>>

---------------------------------------------------------------------------
(* What clients write.                                                          *)

(* set_x_coordinate_commands_builder and the like                               *)
SetCommands(c, v) == <<[op |-> "dtr0", v |-> v % 2], [op |-> "dtr1", v |-> v \div 2], [op |-> "set", c |-> c]>>

(* EXECUTE_CONTROL of a setpoint; the batch stays together on the bus.          *)
WriteControl ==
  /\ loop = Idle /\ BusGoesOn /\ ~quiet /\ Happens
  /\ \E c \in C, v \in Values :
       LET fs == Append(SetCommands(c, v), [op |-> "activate"])
       IN /\ Missing(fs) /\ frames' = frames \o fs
          /\ loop' = [at |-> "written", c |-> c, v |-> v]
  /\ UNCHANGED <<lamp, plan, dtr, tracker, late, handler, ctl, scene, quiet, sure, held>>
(* The setpoint keeps the text of the client.                                   *)
WriteConfirmed ==
  /\ loop.at = "written"
  /\ ctl' = [ctl EXCEPT !.set[loop.c] = loop.v]
  /\ loop' = Idle
  /\ UNCHANGED <<lamp, gear, plan, frames, dtr, tracker, late, handler, scene, quiet, sure, held, left, faults>>

(* query_colour_with_level of the scene: read at one go, or failed.             *)
ReadScene(known) ==
  /\ frames' = Append(frames, [op |-> "dtr0", v |-> IF gear.scene.masked THEN 0 ELSE Tag(Last(lamp.components))])
  /\ gear' = [gear EXCEPT !.dtr0 = IF gear.scene.masked THEN 0 ELSE gear.scene.colour[Last(lamp.components)] % 2]
  /\ \/ scene' = [read |-> TRUE, value |-> gear.scene] /\ held' = TRUE /\ UNCHANGED faults
     \/ Fault /\ UNCHANGED scene /\ held' = (held /\ known)
(* ScenesSettings.fetch, in an idle moment of the loop.                         *)
FetchScene ==
  /\ loop = Idle /\ BusGoesOn /\ ~quiet /\ ~IsPollDue /\ ~scene.read
  /\ ReadScene(TRUE)
  /\ UNCHANGED <<lamp, plan, dtr, tracker, late, handler, ctl, loop, quiet, sure, left>>

(* ColourState.write, SceneSettings.write: what is the same is not written.     *)
Wanted(colour, level) == [level |-> level, colour |-> colour, masked |-> scene.value.masked]
SaveCommands(s) ==
  FlattenSeq([i \in DOMAIN lamp.components |-> SetCommands(lamp.components[i], s.colour[lamp.components[i]])])
    \o <<[op |-> "dtr0", v |-> s.level], [op |-> "store"]>>
SaveScene ==
  /\ loop = Idle /\ BusGoesOn /\ ~quiet /\ scene.read /\ Happens
  /\ \E fs \in {SaveCommands(s) : s \in {Wanted(x, l) : x \in SceneColours(lamp), l \in Byte} \ {scene.value}}
                 \cup {<<[op |-> "remove"]>>} :
       Missing(fs) /\ frames' = frames \o fs
  /\ loop' = [at |-> "stored"]
  /\ UNCHANGED <<lamp, plan, dtr, tracker, late, handler, ctl, scene, quiet, sure, held>>
(* Seeded fault: the scene is taken as asked for, not as read back.             *)
SceneStoredUnread ==
  /\ loop.at = "stored" /\ BusGoesOn
  /\ scene' = [scene EXCEPT !.value.level = dtr.dtr0]
  /\ held' = TRUE /\ loop' = Idle
  /\ UNCHANGED <<lamp, gear, plan, frames, dtr, tracker, late, handler, ctl, quiet, sure, left, faults>>
(* ColourState._read_impl: the scene is read back; if that fails the client is  *)
(* told so.                                                                     *)
SceneStored ==
  /\ loop.at = "stored" /\ BusGoesOn
  /\ ReadScene(FALSE)
  /\ loop' = Idle
  /\ UNCHANGED <<lamp, plan, dtr, tracker, late, handler, ctl, quiet, sure, left>>

Service == Hear \/ ActivateEnds \/ PollAsk \/ PollTake \/ PollTell \/ WriteConfirmed \/ FetchScene \/ SceneStored
Next == Tick \/ ComesRound \/ ForeignBegins \/ ForeignSends \/ Service \/ QuiescentStarts \/ QuiescentStops
        \/ WriteControl \/ SaveScene

(* The event loop runs what is ready, time passes, quiescent mode ends by its   *)
(* timer, the periodic reading comes round.                                     *)
Fairness == WF_vars(Service \/ Tick \/ ComesRound \/ QuiescentStops)

Spec == Init /\ [][Next]_vars /\ Fairness

---------------------------------------------------------------------------
Settled == /\ frames = <<>> /\ late = 0 /\ loop = Idle /\ gear.ramp = 0
           /\ handler.due = Resync /\ ~handler.cycle.open

(* The controls tell the colour of the lamp.                                    *)
Right(c) == IF IsUnset(c, gear.now[c]) THEN ctl.read[c].error
            ELSE ctl.read[c] = [value |-> gear.now[c], error |-> FALSE] /\ ctl.set[c] = gear.now[c]

(* The shape of the state.                                                      *)
TypeOK ==
  /\ gear.temp \in [C -> 0 .. Unset] /\ gear.now \in [C -> 0 .. Unset] /\ gear.ramp \in 0 .. Fade
  /\ tracker.fresh \subseteq Registers /\ handler.due \in {Resync} \cup 0 .. Settle
  /\ \A c \in C : ctl.read[c].error \in BOOLEAN

(* When no reading is owed, what the controls show is the colour of the lamp,   *)
(* or an error: whatever order sequences of two masters, predictions, cycles of *)
(* several ticks and their late events came in, the reading after the last      *)
(* command has the last word (schedule_poll_at, next_poll_step).                *)
ShownIsLampColour == Settled /\ sure => \A c \in C : ctl.read[c].error \/ Right(c)

(* Frames the monitor missed, readings that failed and cycles dropped in        *)
(* quiescent mode only delay it: in the end the controls tell the colour.       *)
ColourConverges == <>[](\A c \in C : Right(c))

(* The scene the service predicts from is the one the lamp holds, unless another*)
(* master has stored it or a reading back failed and was reported: frames the   *)
(* lamp missed while it was stored are noticed.                                 *)
SceneIsHeld == (scene.read /\ held /\ loop.at # "stored") => scene.value = gear.scene
=============================================================================

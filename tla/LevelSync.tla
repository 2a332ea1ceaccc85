------------------------------ MODULE LevelSync ------------------------------
(* How the brightness that MQTT shows follows the gear: commands of the service *)
(* itself and of other masters are seen on the bus and turned into events, each *)
(* in a task of its own (EventSyncCoordinator); the events move the controls of *)
(* a device and of its group, schedule a confirming poll for the moment the     *)
(* gear has settled, and are published one after another; the bus loop polls    *)
(* what is due and carries out what clients write to the on/off control.        *)
(*                                                                             *)
(* One control of each sort per device: the measured level, the setpoint, the   *)
(* switch. Time is counted in ticks: a fade, the wait for a confirming poll.    *)
EXTENDS Integers, Sequences, FiniteSets, SequencesExt, TLC

CONSTANTS Devices,     \* the gear, a sequence: the order of the registry
          MaxLevel,    \* the levels are 0 .. MaxLevel, the lowest lit one is 1
          SceneLevel,  \* the level of the scene in use
          SceneKnown,  \* the devices whose scene has been read
          StartGear,   \* the states gear may be found in
          OnFade,      \* the fade of the switch's action, or NoFade
          MaxEvents,   \* bound on commands, writes, failures and rebuilds, together
          Calm         \* light and settings do not change at the same moment

ASSUME LevelAssumption == MaxLevel \in Nat \ {0} /\ SceneLevel \in 0 .. MaxLevel
ASSUME BoundAssumption == MaxEvents \in Nat
ASSUME StartAssumption ==
  \A g \in StartGear : /\ g \in [level : 0 .. MaxLevel, target : 0 .. MaxLevel, ramp : Nat, fade : {0, 1}]
                       /\ (g.ramp = 0) = (g.level = g.target) /\ g.ramp \in 0 .. 2 * g.fade

VARIABLES gear,     \* what the gear does: level, target, ticks left, fade
          fade,     \* FadeTimeFadeRateParam.fade_time, as tracked
          dtr,      \* DtrSnapshot.dtr0
          ctl,      \* the controls of each device, and when its level is due
          grp,      \* the group device of all members
          frames,   \* commands seen on the bus whose task has not started
          tasks,    \* event tasks that have devices left
          outbox,   \* what waits for the lock of the publisher
          wire,     \* what MQTT shows
          loop,     \* the bus loop: a poll or a write under way
          want,     \* value_to_set of each switch
          queue,    \* EXECUTE_CONTROL tasks
          asked,    \* what a client wrote last, what was carried out last
          left      \* how many of MaxEvents may still happen

vars == <<gear, fade, dtr, ctl, grp, frames, tasks, outbox, wire, loop, want, queue, asked, left>>

D       == Range(Devices)
Group   == "group"
Shown   == D \cup {Group}
NoOne   == "noone"
NoFade  == -1
Unknown == -1                 \* a level nobody can tell
First   == -1                 \* next_due_at is None: never polled
Resync  == -2                 \* the periodic poll, minutes away
NoTime  == -3
Idle    == [at |-> "idle", asked |-> <<>>, got |-> <<>>]
NoWrite == "none"

ASSUME DevicesAssumption == Devices \in Seq(D) \ {<<>>} /\ Group \notin D /\ NoOne \notin D
ASSUME FadeAssumption    == OnFade \in Nat \cup {NoFade}

(* The devices of a set in the order of the registry.                           *)
InOrder(s) == FlattenSeq([i \in DOMAIN Devices |-> IF Devices[i] \in s THEN <<Devices[i]>> ELSE <<>>])

LevelF == {"level", "lerr"}
OnF    == {"on", "onerr"}

---------------------------------------------------------------------------
(* Time.                                                                        *)

(* The fade codes, in ticks; the ramp of UP and DOWN.                           *)
FadeTicks(f) == 2 * f
StepTicks == 1
Margin    == 1

(* _level_settle_basis                                                          *)
Basis(op) == CASE op = "up" -> "step"
               [] op \in {"dapc", "scene"} -> "fade"
               [] OTHER -> "immediate"

(* Seeded fault: the fade of the gear is not waited for.                        *)
SettleIgnoresFade(basis, f) == IF basis = "step" THEN StepTicks + Margin ELSE Margin
(* SettleClock.settle_for                                                       *)
SettleFor(basis, f) ==
  CASE basis = "immediate" -> Margin
    [] basis = "step"      -> StepTicks + Margin
    [] OTHER               -> FadeTicks(f) + Margin

---------------------------------------------------------------------------
(* The gear.                                                                    *)

Goes(g, to, ticks) == IF ticks = 0 THEN [g EXCEPT !.level = to, !.target = to, !.ramp = 0]
                      ELSE [g EXCEPT !.target = to, !.ramp = ticks]
Obeys(g, c) ==
  CASE c.op = "dapc"   -> Goes(g, c.v, FadeTicks(g.fade))
    [] c.op = "off"    -> Goes(g, 0, 0)
    [] c.op = "stepUp" -> Goes(g, IF g.level = 0 THEN 0 ELSE Min({g.level + 1, MaxLevel}), 0)
    [] c.op = "up"     -> Goes(g, IF g.level = 0 THEN 0 ELSE Min({g.level + 1, MaxLevel}), StepTicks)
    [] c.op = "scene"  -> Goes(g, SceneLevel, FadeTicks(g.fade))
    [] c.op = "fade"   -> [g EXCEPT !.fade = c.v]
    [] OTHER           -> g
ObeysAll(cs) ==
  LET after[i \in 0 .. Len(cs)] ==
        IF i = 0 THEN gear
        ELSE [d \in D |-> IF d \in Range(cs[i].to) THEN Obeys(after[i - 1][d], cs[i]) ELSE after[i - 1][d]]
  IN after[Len(cs)]

---------------------------------------------------------------------------
(* The controls of a device.                                                    *)

ReadEvent(l)     == [read |-> TRUE, failed |-> l = Unknown, raw |-> l, settle |-> NoTime]
ObservedEvent(l, s) == [read |-> FALSE, failed |-> FALSE, raw |-> l, settle |-> s]

(* A prediction does not cover an error of the control's own read.              *)
Takes(e, err) == e.failed \/ e.read \/ ~err
(* EventPollSchedule.schedule_poll_at                                           *)
PollAt(c, at) == IF c.due = First THEN c ELSE [c EXCEPT !.due = at]
(* The controls that ask to be published.                                       *)
Changed(c, e) == (IF Takes(e, c.lerr) THEN LevelF ELSE {}) \cup (IF Takes(e, c.onerr) THEN OnF ELSE {})
                 \cup (IF e.failed THEN {} ELSE {"wanted"})
(* ActualLevelControl.notify: the poll is scheduled whether or not the value is *)
(* taken.                                                                       *)
NotifyLevel(c, e) ==
  LET s == IF e.settle = NoTime THEN c ELSE PollAt(c, e.settle)
  IN IF ~Takes(e, s.lerr) THEN s
     ELSE IF e.failed THEN [s EXCEPT !.lerr = TRUE]
     ELSE [s EXCEPT !.level = e.raw, !.last = e.raw, !.lerr = FALSE]
(* WantedLevelControl.notify                                                    *)
NotifyWanted(c, e) == IF e.failed THEN c ELSE [c EXCEPT !.wanted = e.raw]
(* OnOffControl.notify, of a device and of a group.                             *)
NotifyOnOff(c, e) ==
  IF ~Takes(e, c.onerr) THEN c
  ELSE IF e.failed THEN [c EXCEPT !.onerr = TRUE]
  ELSE [c EXCEPT !.on = e.raw # 0, !.onerr = FALSE]
(* notify_controls                                                              *)
Notify(c, e) == NotifyWanted(NotifyOnOff(NotifyLevel(c, e), e), e)

(* ActualLevelControl.predict_level: a step needs the level before it.          *)
Predict(c, d, x) ==
  CASE x.op = "dapc"   -> x.v
    [] x.op = "off"    -> 0
    [] x.op = "stepUp" -> IF c.last = Unknown THEN Unknown
                          ELSE IF c.last = 0 THEN 0 ELSE Min({c.last + 1, MaxLevel})
    [] x.op = "scene"  -> IF d \in SceneKnown THEN SceneLevel ELSE Unknown
    [] OTHER           -> Unknown

---------------------------------------------------------------------------
(* The group device.                                                            *)

Candidates(g) == {d \in D : g.status[d] # "no"}
(* GroupStateSource._all_errored                                                *)
AllErrored(g) == Candidates(g) # {} /\ \A d \in Candidates(g) : g.status[d] = "bad"

(* Seeded fault: the member that leads the group keeps leading when it fails.   *)
RecordKeepsPin(g, d, ok) ==
  LET s == [g EXCEPT !.status[d] = IF ok THEN "ok" ELSE "bad"]
  IN IF g.status[d] = "no" THEN [g |-> g, answer |-> "hold"]
     ELSE IF g.pin \notin {NoOne, d} THEN [g |-> s, answer |-> "hold"]
     ELSE IF ok THEN [g |-> [s EXCEPT !.pin = d, !.told = FALSE], answer |-> "take"]
     ELSE IF AllErrored(s) /\ ~s.told THEN [g |-> [s EXCEPT !.told = TRUE], answer |-> "show"]
     ELSE [g |-> s, answer |-> "hold"]
(* GroupStateSource.record_answer                                               *)
RecordAnswer(g, d, ok) ==
  LET s == [g EXCEPT !.status[d] = IF ok THEN "ok" ELSE "bad"]
      u == [s EXCEPT !.pin = NoOne]
  IN IF g.status[d] = "no" THEN [g |-> g, answer |-> "hold"]
     ELSE IF g.pin \notin {NoOne, d} THEN [g |-> s, answer |-> "hold"]
     ELSE IF ok THEN [g |-> [s EXCEPT !.pin = d, !.told = FALSE], answer |-> "take"]
     ELSE IF AllErrored(u) /\ ~u.told THEN [g |-> [u EXCEPT !.told = TRUE], answer |-> "show"]
     ELSE [g |-> u, answer |-> "hold"]

(* Whose setpoint the group mirrors.                                            *)
Leads(g, d) == g.pin = d
(* GroupVirtualDevice._take_state, _take_on_off: what the member's level control *)
(* has just shown, if it is the one the group follows.                          *)
TakeState(g, d, c, e) ==
  LET r == RecordAnswer(g, d, ~c.lerr)
  IN [answer |-> r.answer,
      g |-> CASE r.answer = "take" -> NotifyOnOff([r.g EXCEPT !.level = c.level, !.lerr = FALSE], e)
              [] r.answer = "show" -> NotifyOnOff([r.g EXCEPT !.lerr = TRUE], e)
              [] OTHER             -> r.g]
(* _take_setpoint                                                               *)
TakeSetpoint(g, d, c) == IF Leads(g, d) THEN [g EXCEPT !.wanted = c.wanted] ELSE g
(* GroupVirtualDevice.notify_all: the level, then the setpoint that follows its *)
(* source; c is the member's controls, f what they have changed.                *)
GroupNotify(g, d, c, e, f) ==
  LET l == IF LevelF \subseteq f THEN TakeState(g, d, c, e) ELSE [answer |-> "hold", g |-> g]
      w == "wanted" \in f /\ Leads(l.g, d)
  IN [g |-> IF w THEN TakeSetpoint(l.g, d, c) ELSE l.g,
      changed |-> (IF l.answer = "hold" THEN {} ELSE LevelF \cup (IF Takes(e, g.onerr) THEN OnF ELSE {}))
                  \cup (IF w THEN {"wanted"} ELSE {})]

(* _seed_source: the first member whose level is known.                         *)
SeedSource(members) == InOrder({d \in members : ~ctl[d].lerr})
(* GroupVirtualDevice, a new one: it takes its state from one member.           *)
FreshGroup(members) ==
  LET bare  == [level |-> 0, lerr |-> TRUE, wanted |-> 0, on |-> FALSE, onerr |-> TRUE, pin |-> NoOne,
                status |-> [d \in D |-> IF d \in members THEN "new" ELSE "no"], told |-> FALSE]
  IN IF SeedSource(members) = <<>> THEN bare
     ELSE LET d == Head(SeedSource(members))
              c == ctl[d]
          IN [bare EXCEPT !.level = c.level, !.lerr = FALSE, !.wanted = c.wanted, !.on = c.level # 0,
                          !.onerr = FALSE]
(* GroupStateSource.update_candidates                                           *)
UpdateCandidates(g, members) ==
  [g EXCEPT !.status = [d \in D |-> IF d \notin members THEN "no" ELSE IF @[d] = "no" THEN "new" ELSE @[d]],
            !.pin = IF @ \in members THEN @ ELSE NoOne]

---------------------------------------------------------------------------
(* The service has just initialised its devices, perhaps in the middle of a     *)
(* fade: _read_initial_control_state reads the level, or fails to, and a gear   *)
(* with a fade is read again (_startup_reconfirm_moment).                       *)
Fields(c) == [f \in LevelF \cup OnF \cup {"wanted"} |-> c[f]]
StartControls(g, ok) ==
  [level |-> IF ok THEN g.level ELSE 0, lerr |-> ~ok, last |-> IF ok THEN g.level ELSE Unknown,
   wanted |-> IF ok THEN g.level ELSE 0, on |-> ok /\ g.level # 0, onerr |-> ~ok,
   due |-> IF g.fade = 0 THEN Resync ELSE SettleFor("fade", g.fade)]

Init ==
  /\ gear \in [D -> StartGear]
  /\ \E ok \in [D -> BOOLEAN] : ctl = [d \in D |-> StartControls(gear[d], ok[d])]
  /\ fade = [d \in D |-> gear[d].fade]
  /\ dtr = 0
  /\ grp = FreshGroup(D)
  /\ frames = <<>> /\ tasks = <<>> /\ outbox = <<>>
  /\ wire = [x \in Shown |-> Fields(IF x = Group THEN grp ELSE ctl[x])]
  /\ loop = Idle
  /\ want = [x \in Shown |-> NoWrite] /\ queue = <<>>
  /\ asked = [x \in Shown |-> [wrote |-> NoWrite, done |-> NoWrite]]
  /\ left = MaxEvents

Happens == left > 0 /\ left' = left - 1

(* A tick passes; it is long against what the event loop has ready to do.       *)
Tick ==
  /\ frames = <<>> /\ tasks = <<>> /\ outbox = <<>>
  /\ \E d \in D : gear[d].ramp > 0 \/ ctl[d].due > 0
  /\ gear' = [d \in D |-> LET g == gear[d] IN IF g.ramp <= 1 THEN Goes(g, g.target, 0) ELSE [g EXCEPT !.ramp = @ - 1]]
  /\ ctl' = [d \in D |-> IF ctl[d].due > 0 THEN [ctl[d] EXCEPT !.due = @ - 1] ELSE ctl[d]]
  /\ UNCHANGED <<fade, dtr, grp, frames, tasks, outbox, wire, loop, want, queue, asked, left>>

---------------------------------------------------------------------------
(* Commands on the bus.                                                         *)

(* With Calm, a command about several devices is published before the next      *)
(* command comes (so nobody writes to the group and a device at once), no light *)
(* changes before the first poll of new controls, and no setting while a change *)
(* of light is still on its way.                                                *)
Steady == frames = <<>> /\ tasks = <<>> /\ \A d \in D : gear[d].ramp = 0
Fresh  == \E d \in D : ctl[d].due = First
Spread == tasks = <<>> /\ \A i \in DOMAIN frames : Len(frames[i].to) < 2

(* _handle_bus_traffic_frame: a command that expects no answer gets a task of   *)
(* the event sync; queries, of the poll too, are only shown to the bus monitor. *)
(* Nobody asks and commands in one go.                                          *)
Synced(cs) == IF \E i \in DOMAIN cs : cs[i].op = "query" THEN <<>> ELSE cs

Send(cs) == gear' = ObeysAll(cs) /\ frames' = frames \o Synced(cs) /\ (Calm => Spread)

(* Another master, or the Lunatone emulator.                                    *)
Foreign ==
  /\ Happens
  /\ \E to \in {<<d>> : d \in D} \cup {Devices} :
       \/ /\ Calm => ~Fresh
          /\ \E op \in {"off", "stepUp", "up", "scene", "query"} : Send(<<[op |-> op, to |-> to]>>)
       \/ /\ Calm => ~Fresh
          /\ \E v \in 0 .. MaxLevel : Send(<<[op |-> "dapc", v |-> v, to |-> to]>>)
       \/ /\ Calm => Steady
          /\ \E f \in {0, 1} : Send(<<[op |-> "dtr0", v |-> f, to |-> <<>>], [op |-> "fade", v |-> f, to |-> to]>>)
  /\ UNCHANGED <<fade, dtr, ctl, grp, tasks, outbox, wire, loop, want, queue, asked>>

---------------------------------------------------------------------------
(* Events.                                                                      *)

(* EventSyncCoordinator._dispatch, up to the await: the controls of the device  *)
(* and of its group take the event, and what has changed is put in the line for *)
(* the publisher with the values it has now.                                    *)
Dispatch(all, d, e, by) ==
  LET f == Changed(all[d], e)
      c == Notify(all[d], e)
      r == GroupNotify(grp, d, c, e, f)
      put(x, who, fields) == [k \in fields |-> who[k]]
  IN /\ ctl' = [all EXCEPT ![d] = c]
     /\ IF f = {} THEN UNCHANGED <<grp, outbox>>
        ELSE /\ grp' = r.g
             /\ outbox' = Append(outbox, [by |-> by, device |-> d, puts |-> put(d, c, f),
                                          group |-> put(Group, r.g, r.changed)])

(* What is shown once the fields of p are published over it.                    *)
Over(p, shown) == [k \in DOMAIN p \cup DOMAIN shown |-> IF k \in DOMAIN p THEN p[k] ELSE shown[k]]
(* DevicePublisher.publish_control_state, in turn.                              *)
Publish ==
  /\ outbox # <<>>
  /\ LET o == Head(outbox)
     IN wire' = [wire EXCEPT ![Group] = Over(o.group, @), ![o.device] = Over(o.puts, @)]
  /\ outbox' = Tail(outbox)
  /\ UNCHANGED <<gear, fade, dtr, ctl, grp, frames, tasks, loop, want, queue, asked, left>>

Ready(by) == \A i \in DOMAIN outbox : outbox[i].by # by

(* _apply_level: the devices get their event in turn; one whose level cannot be *)
(* told is only polled, and the task goes straight on to the next.              *)
Told(x, d) == Predict(ctl[d], d, x) # Unknown
Upto(x, to) == IF \E i \in DOMAIN to : Told(x, to[i]) THEN SelectInSeq(to, LAMBDA d : Told(x, d)) ELSE Len(to)
ApplyLevel(x, to, by) ==
  LET n     == Upto(x, to)
      d     == to[n]
      at(e) == SettleFor(Basis(x.op), fade[e])
      past  == [e \in D |-> IF e \in Range(SubSeq(to, 1, n)) /\ ~Told(x, e) THEN PollAt(ctl[e], at(e)) ELSE ctl[e]]
  IN IF Told(x, d) THEN Dispatch(past, d, ObservedEvent(Predict(ctl[d], d, x), at(d)), by)
     ELSE ctl' = past /\ UNCHANGED <<grp, outbox>>
Rest(x, to) == SubSeq(to, Upto(x, to) + 1, Len(to))

(* The task of a frame starts, in the order of the frames, and runs to its      *)
(* first await; one about several devices goes on when it has been published.   *)
StartTask ==
  /\ frames # <<>>
  /\ frames' = Tail(frames)
  /\ LET x  == Head(frames)
         id == Min((1 .. MaxEvents + 1) \ {tasks[i].id : i \in DOMAIN tasks})
     IN CASE x.op = "dtr0" -> dtr' = x.v /\ UNCHANGED <<fade, ctl, grp, tasks, outbox>>
          [] x.op = "fade" -> fade' = [d \in D |-> IF d \in Range(x.to) THEN dtr ELSE fade[d]]
                              /\ UNCHANGED <<dtr, ctl, grp, tasks, outbox>>
          [] OTHER         -> /\ ApplyLevel(x, x.to, id)
                              /\ tasks' = IF Rest(x, x.to) = <<>> THEN tasks
                                          ELSE Append(tasks, [id |-> id, cmd |-> x, todo |-> Rest(x, x.to)])
                              /\ UNCHANGED <<fade, dtr>>
  /\ UNCHANGED <<gear, wire, loop, want, queue, asked, left>>

StepTask ==
  /\ \E i \in DOMAIN tasks :
       LET k == tasks[i]
       IN /\ Ready(k.id)
          /\ ApplyLevel(k.cmd, k.todo, k.id)
          /\ tasks' = IF Rest(k.cmd, k.todo) = <<>> THEN RemoveAt(tasks, i)
                      ELSE [tasks EXCEPT ![i].todo = Rest(k.cmd, @)]
  /\ UNCHANGED <<gear, fade, dtr, frames, wire, loop, want, queue, asked, left>>

---------------------------------------------------------------------------
(* The bus loop.                                                                *)

(* The periodic poll comes round.                                               *)
ComesRound ==
  /\ loop = Idle
  /\ \E d \in D : ctl[d].due = Resync /\ ctl' = [ctl EXCEPT ![d].due = 0]
  /\ Happens
  /\ UNCHANGED <<gear, fade, dtr, grp, frames, tasks, outbox, wire, loop, want, queue, asked>>

(* PollScheduler.poll, DaliDeviceBase.poll_controls, SingleQueryControl: what   *)
(* is due is asked; its next poll is the periodic one from here on.             *)
Due(d) == ctl[d].due \in {First, 0}
PollStart ==
  /\ loop = Idle /\ queue = <<>> /\ \E d \in D : Due(d)
  /\ loop' = [at |-> "asking", asked |-> InOrder({d \in D : Due(d)}), got |-> <<>>]
  /\ ctl' = [d \in D |-> IF Due(d) THEN [ctl[d] EXCEPT !.due = Resync] ELSE ctl[d]]
  /\ UNCHANGED <<gear, fade, dtr, grp, frames, tasks, outbox, wire, want, queue, asked, left>>
(* The gear answers, or does not; one in a fade tells where it stands.          *)
PollAnswer ==
  /\ loop.at = "asking"
  /\ LET d == loop.asked[Len(loop.got) + 1]
         l == Append(loop.got, gear[d].level)
         n == Append(loop.got, Unknown)
         at(got) == IF Len(got) = Len(loop.asked) THEN "telling" ELSE "asking"
     IN \/ loop' = [loop EXCEPT !.got = l, !.at = at(l)] /\ UNCHANGED left
        \/ loop' = [loop EXCEPT !.got = n, !.at = at(n)] /\ Happens
  /\ UNCHANGED <<gear, fade, dtr, ctl, grp, frames, tasks, outbox, wire, want, queue, asked>>
(* _poll_devices: the answers are dispatched one by one.                        *)
PollTell ==
  /\ loop.at = "telling" /\ Ready(0)
  /\ IF loop.asked = <<>> THEN loop' = Idle /\ UNCHANGED <<ctl, grp, outbox>>
     ELSE /\ Dispatch(ctl, Head(loop.asked), ReadEvent(Head(loop.got)), 0)
          /\ loop' = [loop EXCEPT !.asked = Tail(@), !.got = Tail(@)]
  /\ UNCHANGED <<gear, fade, dtr, frames, tasks, wire, want, queue, asked, left>>

(* _handle_on_topic: a client writes to a switch; a write that has not been     *)
(* taken yet is replaced.                                                       *)
Write ==
  /\ Happens
  /\ Calm => ~Fresh
  /\ \E x \in Shown, v \in {"1", "0"} :
       /\ Calm /\ Group \in {x} \cup Range(queue) => Range(queue) \subseteq {x}
       /\ want' = [want EXCEPT ![x] = v]
       /\ queue' = IF want[x] = NoWrite THEN Append(queue, x) ELSE queue
       /\ asked' = [asked EXCEPT ![x].wrote = v]
  /\ UNCHANGED <<gear, fade, dtr, ctl, grp, frames, tasks, outbox, wire, loop>>

(* OnOffControl._with_fade_time: a device gets its own fade back afterwards, a  *)
(* group does not.                                                              *)
WithFade(x, to, cmd) ==
  LET prior == IF x = Group THEN NoFade ELSE fade[x]
      set(f) == <<[op |-> "dtr0", v |-> f, to |-> <<>>], [op |-> "fade", v |-> f, to |-> to]>>
  IN IF OnFade = NoFade THEN <<cmd>>
     ELSE (IF prior # OnFade THEN set(OnFade) ELSE <<>>) \o <<cmd>>
          \o (IF prior \notin {NoFade, OnFade} THEN set(prior) ELSE <<>>)
(* OnOffControl._on_commands, _off_commands                                     *)
SwitchCommands(x, to, v) ==
  IF v = "1" THEN WithFade(x, to, [op |-> "dapc", v |-> MaxLevel, to |-> to]) ELSE <<[op |-> "off", to |-> to]>>
(* OnOffControl.get_setup_commands: what the switch shows is not sent again.    *)
SetupCommands(x, v) ==
  LET s  == IF x = Group THEN grp ELSE ctl[x]
      to == IF x = Group THEN InOrder(Candidates(grp)) ELSE <<x>>
  IN IF (~s.onerr /\ s.on = (v = "1")) \/ to = <<>> THEN <<>> ELSE SwitchCommands(x, to, v)

(* Seeded fault: value_to_set is not cleared when it is taken.                  *)
ExecuteKeepsValue ==
  /\ loop = Idle /\ queue # <<>>
  /\ LET vs == [i \in DOMAIN queue |-> want[queue[i]]]
     IN /\ Send(FlattenSeq([i \in DOMAIN queue |-> SetupCommands(queue[i], vs[i])]))
        /\ loop' = [at |-> "writing", asked |-> queue, got |-> vs]
        /\ asked' = [x \in Shown |-> IF x \in Range(queue) THEN [asked[x] EXCEPT !.done = want[x]] ELSE asked[x]]
  /\ queue' = <<>>
  /\ UNCHANGED <<fade, dtr, ctl, grp, tasks, outbox, wire, want, left>>
(* The EXECUTE_CONTROL branch of _polling_loop: every write that waits is taken *)
(* and their commands go out one batch after another; one of them may fail.     *)
Execute ==
  /\ loop = Idle /\ queue # <<>>
  /\ \E lost \in {0} \cup DOMAIN queue :
       LET vs == [i \in DOMAIN queue |-> want[queue[i]]]
       IN /\ IF lost = 0 THEN UNCHANGED left ELSE Happens
          /\ Send(FlattenSeq([i \in DOMAIN queue |-> IF i = lost THEN <<>> ELSE SetupCommands(queue[i], vs[i])]))
          /\ loop' = [at |-> "writing", asked |-> queue, got |-> [i \in DOMAIN queue |-> IF i = lost THEN NoWrite ELSE vs[i]]]
  /\ asked' = [x \in Shown |-> IF x \in Range(queue) THEN [asked[x] EXCEPT !.done = want[x]] ELSE asked[x]]
  /\ want' = [x \in Shown |-> IF x \in Range(queue) THEN NoWrite ELSE want[x]]
  /\ queue' = <<>>
  /\ UNCHANGED <<fade, dtr, ctl, grp, tasks, outbox, wire>>
(* The switch keeps what was written and its error leaves the topic, or a write *)
(* error is shown.                                                              *)
Executed ==
  /\ loop.at = "writing"
  /\ LET v(x)    == loop.got[SelectInSeq(loop.asked, LAMBDA y : y = x)]
         kept(x)  == x \in Range(loop.asked) /\ v(x) # NoWrite
         told(x)  == [onerr |-> v(x) = NoWrite]
     IN /\ ctl' = [d \in D |-> IF kept(d) THEN [ctl[d] EXCEPT !.on = v(d) = "1"] ELSE ctl[d]]
        /\ grp' = IF kept(Group) THEN [grp EXCEPT !.on = v(Group) = "1"] ELSE grp
        /\ outbox' = outbox \o [i \in DOMAIN loop.asked |->
                                  LET x == loop.asked[i]
                                  IN [by |-> MaxEvents + 2, device |-> x, puts |-> told(x),
                                      group |-> IF x = Group THEN told(x) ELSE <<>>]]
  /\ loop' = Idle
  /\ UNCHANGED <<gear, fade, dtr, frames, tasks, wire, want, queue, asked, left>>

---------------------------------------------------------------------------
(* Settings.                                                                    *)

(* _carry_state_across_rebuild: the value and the error go over to the new      *)
(* controls, what is known of the last level and of the schedule does not.      *)
Carried(c) == [c EXCEPT !.due = First, !.last = Unknown]
(* DaliDeviceBase.rebuild_mqtt_controls, and the device published again.        *)
Rebuild ==
  /\ Happens /\ loop = Idle /\ outbox = <<>>
  /\ Calm => Steady /\ queue = <<>> /\ \A d \in D : ctl[d].due \in {Resync, First}
  /\ \E d \in D :
       /\ ctl' = [ctl EXCEPT ![d] = Carried(@)]
       /\ wire' = [wire EXCEPT ![d] = Fields(ctl[d])]
  /\ UNCHANGED <<gear, fade, dtr, grp, frames, tasks, outbox, loop, want, queue, asked>>

(* The members of the group change: update_in_place, or a group device built    *)
(* anew and published.                                                          *)
Regroup ==
  /\ Happens /\ outbox = <<>>
  /\ \E members \in SUBSET D \ {{}} :
       \/ grp' = UpdateCandidates(grp, members) /\ UNCHANGED wire
       \/ grp' = FreshGroup(members) /\ wire' = [wire EXCEPT ![Group] = Fields(FreshGroup(members))]
  /\ UNCHANGED <<gear, fade, dtr, ctl, frames, tasks, outbox, loop, want, queue, asked>>

Next ==
  \/ Tick \/ Foreign \/ Publish \/ StartTask \/ StepTask
  \/ ComesRound \/ PollStart \/ PollAnswer \/ PollTell
  \/ Write \/ Execute \/ Executed \/ Rebuild \/ Regroup

Spec == Init /\ [][Next]_vars

---------------------------------------------------------------------------
Quiet ==
  /\ frames = <<>> /\ tasks = <<>> /\ outbox = <<>> /\ queue = <<>> /\ loop = Idle
  /\ \A d \in D : gear[d].ramp = 0 /\ ctl[d].due = Resync

(* The shape of the state.                                                      *)
TypeOK ==
  /\ \A d \in D : ctl[d].level \in 0 .. MaxLevel /\ ctl[d].due \in Nat \cup {First, Resync}
  /\ grp.pin \in D \cup {NoOne} /\ grp.status \in [D -> {"no", "new", "ok", "bad"}]
  /\ want \in [Shown -> {NoWrite, "0", "1"}]
  /\ \A x \in Shown : DOMAIN wire[x] = LevelF \cup OnF \cup {"wanted"}

(* When every event is handled and no confirming poll is due, MQTT shows what   *)
(* the gear does, or an error: no order in which tasks, answers and publishing  *)
(* interleave leaves an old level, setpoint or switch behind, and the switch    *)
(* decides on the true state whether a write needs to be sent.                  *)
ShownIsActual ==
  Quiet => \A d \in D :
    /\ ~wire[d].lerr => wire[d].level = gear[d].level /\ wire[d].wanted = gear[d].level
    /\ ~wire[d].onerr => wire[d].on = (gear[d].level # 0)
    /\ ~ctl[d].onerr => ctl[d].on = (gear[d].level # 0)

(* A group that follows a member shows that member's level and setpoint, and no *)
(* error, at every moment.                                                      *)
GroupFollowsPin ==
  grp.pin # NoOne => /\ grp.status[grp.pin] = "ok" /\ ~grp.lerr
                     /\ grp.level = ctl[grp.pin].level /\ grp.wanted = ctl[grp.pin].wanted

(* What a client wrote last to a switch is what was carried out last, whatever  *)
(* was written while an earlier write was under way.                            *)
LastWriteWins == Quiet => \A x \in Shown : asked[x].done = asked[x].wrote

=============================================================================

---------------------------- MODULE DeviceTable ----------------------------
(* The devices of one bus as wb-mqtt-dali keeps them: the device lists of the   *)
(* application controller, the short-address registry, the map of MQTT ids, the *)
(* devices the publisher has on MQTT, the group and broadcast devices built     *)
(* from the members, the initialisation retries, and the configuration file.    *)
(* They are changed by the bus loop, one task at a time, and by what an Editor  *)
(* RPC still has to do once its task is done; the two interleave wherever the   *)
(* code awaits.                                                                 *)
(*                                                                             *)
(* A process is the list of the operations it has left, its agenda: `busy'      *)
(* names the process that has not reached an await yet, and only that one       *)
(* runs. An operation that awaits (the bus, the publisher, the config lock)     *)
(* starts when nobody is busy; what follows it without an await runs on.        *)
EXTENDS Integers, Sequences, FiniteSets, SequencesExt

CONSTANTS Gears,         \* the devices on the bus, by random address
          Shorts,        \* short addresses, numbers
          Names,         \* MQTT ids a user may type, numbers from 1
          Groups,        \* group numbers
          Clients,       \* Editor RPCs in flight
          MaxGen,        \* bound on the objects made for one device
          MaxEvents,     \* bound on requests, failures on the bus and restarts, together
          StartKinds,    \* what the devices may be: gear or DALI-2 control devices
          Prompt,        \* MQTT round trips end before a bus exchange does
          Careful,       \* two requests in flight are about different devices and values
          MayCancel      \* a scan may be stopped while it reads the devices it found

ASSUME BoundsAssumption == {MaxGen, MaxEvents} \subseteq Nat
ASSUME TypedIdsAssumption == 0 \notin Names /\ Names \subseteq Nat

VARIABLES t,        \* the table, see LoadTable
          bus,      \* what the gear itself holds: short address and groups
          file,     \* the configuration file
          queue,    \* _tasks_queue
          agenda,   \* what each process has left to do
          busy,     \* the process that runs without having awaited
          told,     \* the configuration a client was last told its device has
          left      \* how many of MaxEvents may still happen

vars == <<t, bus, file, queue, agenda, busy, told, left>>
rest == <<bus, file, queue, told, left>>

Kinds   == {"gear", "dali2"}
Objects == Gears \X (0 .. MaxGen)
Unset   == -1                       \* MASK: no short address
None    == "none"
NoObject == <<"none", 0>>
Virtual == <<"virtual", 0>>         \* a group or broadcast device, in the map of ids
NoGroup == [there |-> FALSE, onOff |-> FALSE, layout |-> {}]
NoConfig == [gear |-> "none", short |-> Unset, own |-> 0]
Nobody  == "nobody"
Procs   == Clients \cup {"loop", "saver"}

(* MQTT ids: a default one made of the short address, one typed by the user,    *)
(* the one of a group, the one of the broadcast device.                         *)
Broadcast == <<"broadcast", 0>>
Ids == (Kinds \X Shorts) \cup ({"typed"} \X Names) \cup ({"group"} \X Groups) \cup {Broadcast}

KindOf(o) == t.kind[o[1]]
(* DaliDeviceBase.mqtt_id                                                      *)
MqttId(d, kind) == IF d.own # 0 THEN <<"typed", d.own>> ELSE <<kind, d.short>>
Id(o) == MqttId(t.obj[o], KindOf(o))

Sync == {"forget", "map", "groups", "dropGroup", "newGroup", "checkGroup", "setGroup", "broadcast",
         "setBroadcast", "index", "unlist", "tryInit", "doInit", "initOk", "relist", "popAll",
         "initFailed", "catch", "done", "completed", "publishNew", "rebuildGroup", "reply"}
Publisher == {"remove", "removeAll", "add", "serve"}

(* What the table shows to others: the configuration of a device, of the bus.   *)
ConfigOf(o) == [gear |-> o[1], short |-> t.obj[o].short, own |-> t.obj[o].own]
Config == [devices |-> {ConfigOf(o) : o \in t.listed},
           groups  |-> {g \in Groups : t.grp[g].onOff}]

---------------------------------------------------------------------------
(* DaliDeviceBase.__init__: a device of the file or of a scan, not initialised. *)
Blank(e) == [short |-> e.short, own |-> e.own, up |-> FALSE, loaded |-> FALSE, groups |-> {}]

(* ApplicationController.__init__ and start: the table a configuration gives.   *)
(* The broadcast device and the groups that have an on/off block are published, *)
(* every device waits for its first initialisation.                             *)
LoadTable(cfg, kind) ==
  LET entry(g) == CHOOSE e \in cfg.devices : e.gear = g
      known    == {e.gear : e \in cfg.devices}
      first(g) == IF g \in known THEN Blank(entry(g)) ELSE Blank([short |-> Unset, own |-> 0])
      objs     == [o \in Objects |-> IF o[2] = 0 THEN first(o[1]) ELSE Blank([short |-> Unset, own |-> 0])]
      idOf(g)  == MqttId(objs[<<g, 0>>], kind[g])
      holder(i) == {g \in known : idOf(g) = i}
  IN [kind   |-> kind,
      obj    |-> objs,
      gen    |-> [g \in Gears |-> 0],
      listed |-> {<<g, 0>> : g \in known},
      index  |-> [ks \in Kinds \X Shorts |->
                    LET at == {g \in known : kind[g] = ks[1] /\ entry(g).short = ks[2]}
                    IN IF at = {} THEN NoObject ELSE <<CHOOSE g \in at : TRUE, 0>>],
      inst   |-> {},
      byId   |-> [i \in Ids |-> IF holder(i) # {} THEN <<CHOOSE g \in holder(i) : TRUE, 0>>
                                ELSE IF i = Broadcast \/ (i[1] = "group" /\ i[2] \in cfg.groups) THEN Virtual
                                ELSE NoObject],
      pub    |-> [i \in Ids |-> IF i = Broadcast \/ (i[1] = "group" /\ i[2] \in cfg.groups)
                                THEN "served" ELSE "no"],
      grp    |-> [g \in Groups |-> [NoGroup EXCEPT !.there = g \in cfg.groups, !.onOff = g \in cfg.groups]],
      cast   |-> {},
      pend   |-> [i \in Ids |-> IF holder(i) # {} THEN "new" ELSE "no"],
      answer |-> [c \in Clients |-> None],
      scan   |-> "idle",
      dead   |-> FALSE]

(* The same table once every device has been initialised and read.              *)
Settled(tab, of) ==
  LET objs == [o \in Objects |-> IF o \in tab.listed THEN [tab.obj[o] EXCEPT !.up = TRUE, !.loaded = TRUE, !.groups = of[o[1]]]
                                 ELSE tab.obj[o]]
      gear == {o \in tab.listed : tab.kind[o[1]] = "gear"}
      in(g) == {o[1] : o \in {x \in gear : g \in of[x[1]]}}
      shown(i) == i[1] = "group" /\ in(i[2]) # {}
  IN [tab EXCEPT !.obj = objs,
        !.inst = {objs[o].short : o \in tab.listed \ gear},
        !.byId = [i \in Ids |-> IF shown(i) THEN Virtual ELSE @[i]],
        !.pub = [i \in Ids |-> IF shown(i) \/ tab.byId[i] # NoObject THEN "served" ELSE "no"],
        !.grp = [g \in Groups |-> [NoGroup EXCEPT !.there = in(g) # {}, !.layout = in(g)]],
        !.cast = {o[1] : o \in gear},
        !.pend = [i \in Ids |-> "no"]]

(* The service has been up for a while, on a bus with any devices, some of them *)
(* in the file; which short addresses they have does not matter.                *)
Init ==
  \E kind \in StartKinds, known \in SUBSET Gears, of \in [Gears -> SUBSET Groups] :
   LET shorts == CHOOSE f \in [Gears -> Shorts] : \A g, h \in Gears : g # h => f[g] # f[h] IN
    /\ \A g \in Gears : kind[g] = "dali2" => of[g] = {}
    /\ bus = [g \in Gears |-> [short |-> shorts[g], groups |-> of[g]]]
    /\ file = [devices |-> {[gear |-> g, short |-> shorts[g], own |-> 0] : g \in known}, groups |-> {}]
    /\ t = Settled(LoadTable(file, kind), of)
    /\ queue = <<>>
    /\ agenda = [p \in Procs |-> <<>>]
    /\ busy = Nobody
    /\ told = [g \in Gears |-> NoConfig]
    /\ left = MaxEvents

---------------------------------------------------------------------------
(* Running an agenda.                                                           *)

Runs(todo) == todo # <<>> /\ (Head(todo).op \in Sync \/ (Prompt /\ Head(todo).op \in Publisher))

(* The first operation of p is done and is replaced by `more'.                  *)
Go(p, more, nt) ==
  LET todo == more \o Tail(agenda[p])
  IN /\ t' = nt
     /\ agenda' = [agenda EXCEPT ![p] = todo]
     /\ busy' = IF Runs(todo) THEN p ELSE Nobody

(* An exception leaves everything up to the handler around it: a try block of   *)
(* the code, or the end of the task or of the RPC, which reports it.            *)
Raise(p) ==
  LET ends == {i \in DOMAIN agenda[p] : agenda[p][i].op \in {"catch", "done", "reply", "poll"}}
      i    == CHOOSE k \in ends : \A j \in ends : k <= j
      end  == agenda[p][i]
      todo == (CASE end.op = "catch" -> end.then
                 [] end.op = "poll"  -> <<>>
                 [] OTHER            -> <<[end EXCEPT !.ok = FALSE]>>)
              \o SubSeq(agenda[p], i + 1, Len(agenda[p]))
  IN /\ t' = [t EXCEPT !.dead = @ \/ end.op = "poll"]
     /\ agenda' = [agenda EXCEPT ![p] = todo]
     /\ busy' = IF Runs(todo) THEN p ELSE Nobody

Mishap == left > 0 /\ left' = left - 1

(* Op, the operation p is at. An exchange with the bus lasts longer than what   *)
(* an answered RPC has left to do, when Prompt.                                 *)
Op(p) == Head(agenda[p])
Awaits(p, name) == agenda[p] # <<>> /\ Op(p).op = name /\ busy \in {Nobody, p}
Instant(p, name) == agenda[p] # <<>> /\ Op(p).op = name /\ busy = p
OnBus(p, name) ==
  /\ agenda[p] # <<>> /\ Op(p).op = name /\ busy = Nobody
  /\ Prompt => \A c \in Clients : t.answer[c] = None

---------------------------------------------------------------------------
(* The publisher: one operation at a time, under its lock.                      *)

ThingId(x) == IF x \in Objects THEN Id(x) ELSE x

(* DevicePublisher.remove_device, rebuild: unknown ids are passed over; the     *)
(* handler of the device's controls goes with it.                               *)
Removed(pub, ids) == [i \in Ids |-> IF i \in ids THEN "no" ELSE pub[i]]
Unpublish(p) ==
  /\ Awaits(p, "remove")
  /\ Go(p, <<>>, [t EXCEPT !.pub = Removed(@, {Op(p).id})])
  /\ UNCHANGED rest
RemoveAll(p) ==
  /\ Awaits(p, "removeAll")
  /\ Go(p, <<>>, [t EXCEPT !.pub = Removed(@, Op(p).ids)])
  /\ UNCHANGED rest

(* DevicePublisher.add_device: a second device with the id is an error.         *)
Add(p) ==
  /\ Awaits(p, "add")
  /\ LET i == ThingId(Op(p).x)
     IN IF t.pub[i] # "no" THEN Raise(p) ELSE Go(p, <<>>, [t EXCEPT !.pub[i] = "bare"])
  /\ UNCHANGED rest

(* register_control_handler for all controls of the device: once only.          *)
Serve(p) ==
  /\ Awaits(p, "serve")
  /\ LET i == ThingId(Op(p).x)
     IN IF t.pub[i] = "served" THEN Raise(p)
        ELSE Go(p, <<>>, [t EXCEPT !.pub[i] = IF @ = "bare" THEN "served" ELSE @])
  /\ UNCHANGED rest

(* publish_device, _publish_virtual_device                                      *)
Publish(x) == <<[op |-> "add", x |-> x], [op |-> "serve", x |-> x]>>
MapTo(x)   == <<[op |-> "map", x |-> x]>>
Drop(i)    == <<[op |-> "remove", id |-> i], [op |-> "forget", id |-> i]>>
Republish(old, o) == Drop(old) \o Publish(o) \o MapTo(o)

(* self._devices_by_mqtt_id.pop(id, None)                                       *)
Forget(p) ==
  /\ Instant(p, "forget")
  /\ Go(p, <<>>, [t EXCEPT !.byId[Op(p).id] = NoObject])
  /\ UNCHANGED rest
(* self._devices_by_mqtt_id[device.mqtt_id] = device                            *)
Map(p) ==
  /\ Instant(p, "map")
  /\ LET x == Op(p).x
     IN Go(p, <<>>, [t EXCEPT !.byId[ThingId(x)] = IF x \in Objects THEN x ELSE Virtual])
  /\ UNCHANGED rest

---------------------------------------------------------------------------
(* Group and broadcast devices.                                                 *)

ListedGear   == {o \in t.listed : KindOf(o) = "gear"}
Indexed(kind) == {t.index[ks] : ks \in {k \in Kinds \X Shorts : k[1] = kind}} \ {NoObject}
(* _get_active_group_numbers                                                    *)
ActiveGroups == UNION {t.obj[o].groups : o \in ListedGear}
(* DeviceRegistry.resolve(GearGroup): the members as the registry knows them.   *)
Members(g)   == {o \in Indexed("gear") : g \in t.obj[o].groups}
(* aggregate_capabilities, collect_group_state_controls: what the controls of a *)
(* group or broadcast device depend on; here, which devices are initialised.    *)
Capabilities(os) == {o[1] : o \in {x \in os : t.obj[x].up}}
GroupId(g) == <<"group", g>>
BuildGroup(g, onOff) ==
  Publish(GroupId(g)) \o MapTo(GroupId(g))
    \o <<[op |-> "setGroup", g |-> g, to |-> [there |-> TRUE, onOff |-> onOff, layout |-> Capabilities(Members(g))]]>>
(* _rebuild_group_virtual_device                                                *)
RebuiltGroup(g) == Drop(GroupId(g)) \o BuildGroup(g, t.grp[g].onOff)

Each(op, s) == [i \in 1 .. Cardinality(s) |-> [op |-> op, g |-> SetToSortSeq(s, <)[i]]]

(* _refresh_group_virtual_devices: what is active and what exists is read once; *)
(* the awaits of the publisher come after.                                      *)
RefreshGroups(p) ==
  /\ Instant(p, "groups")
  /\ LET old == {g \in Groups : t.grp[g].there}
     IN Go(p, Each("dropGroup", old \ ActiveGroups) \o Each("newGroup", ActiveGroups \ old)
                \o Each("checkGroup", ActiveGroups \cap old), t)
  /\ UNCHANGED rest

(* An on/off setting keeps its group; a group gone meanwhile is a KeyError.     *)
DropGroup(p) ==
  /\ Instant(p, "dropGroup")
  /\ LET g == Op(p).g
     IN IF ~t.grp[g].there THEN Raise(p)
        ELSE IF t.grp[g].onOff THEN Go(p, <<>>, t)
        ELSE Go(p, Drop(GroupId(g)), [t EXCEPT !.grp[g] = NoGroup])
  /\ UNCHANGED rest
NewGroup(p) ==
  /\ Instant(p, "newGroup")
  /\ Go(p, BuildGroup(Op(p).g, FALSE), t)
  /\ UNCHANGED rest
(* GroupVirtualDevice.update_in_place, or a rebuild                             *)
CheckGroup(p) ==
  /\ Instant(p, "checkGroup")
  /\ LET g == Op(p).g
     IN IF ~t.grp[g].there THEN Raise(p)
        ELSE IF t.grp[g].layout = Capabilities(Members(g)) THEN Go(p, <<>>, t)
        ELSE Go(p, RebuiltGroup(g), t)
  /\ UNCHANGED rest
SetGroup(p) ==
  /\ Instant(p, "setGroup")
  /\ Go(p, <<>>, [t EXCEPT !.grp[Op(p).g] = Op(p).to])
  /\ UNCHANGED rest

(* _refresh_broadcast_device                                                    *)
RefreshBroadcast(p) ==
  /\ Instant(p, "broadcast")
  /\ LET caps == Capabilities(ListedGear)
     IN IF t.cast = caps THEN Go(p, <<>>, t)
        ELSE Go(p, Drop(Broadcast) \o <<[op |-> "setBroadcast", to |-> caps]>>
                     \o Publish(Broadcast) \o MapTo(Broadcast), t)
  /\ UNCHANGED rest
SetBroadcast(p) ==
  /\ Instant(p, "setBroadcast")
  /\ Go(p, <<>>, [t EXCEPT !.cast = Op(p).to])
  /\ UNCHANGED rest

RefreshVirtual(kind) == IF kind = "gear" THEN <<[op |-> "groups"], [op |-> "broadcast"]>> ELSE <<>>

---------------------------------------------------------------------------
(* Initialisation.                                                              *)

(* _try_init_new_device                                                         *)
TryInit(p) ==
  /\ Instant(p, "tryInit")
  /\ LET o == Op(p).x
     IN Go(p, <<[op |-> "doInit", id |-> Id(o)]>>,
           [t EXCEPT !.byId[Id(o)] = o, !.pend[Id(o)] = IF @ = "no" THEN "new" ELSE @])
  /\ UNCHANGED rest

(* _do_init_device: an id that no device has, or an initialised one, is done.   *)
DoInit(p) ==
  /\ Instant(p, "doInit")
  /\ LET i == Op(p).id
         o == t.byId[i]
     IN IF o \notin Objects \/ (o \in Objects /\ t.obj[o].up)
        THEN Go(p, <<>>, [t EXCEPT !.pend[i] = "no"])
        ELSE Go(p, <<[op |-> "init", x |-> o, id |-> i]>>, t)
  /\ UNCHANGED rest

Attempted(i) == [t EXCEPT !.pend[i] = IF @ = "no" THEN @ ELSE "failed"]
Present(i)   == t.pub[i] # "no"

(* try_initialize_device: what is on MQTT under the id is taken off first.      *)
Replace(i) == IF Present(i) THEN <<[op |-> "remove", id |-> i]>> ELSE <<>>

(* try_initialize_device: the device answers at its short address, its own      *)
(* controls replace the common ones, the retry is cleared; or it does not, the  *)
(* common controls are published with an error unless they are there already,   *)
(* and a retry stays. A gear silent about QUERY GROUPS shows no group. One that *)
(* was silent may stay so.                                                      *)
InitDevice(p) ==
  /\ OnBus(p, "init")
  /\ LET o == Op(p).x  i == Op(p).id  g == o[1]
         failed == [op |-> "initFailed", x |-> o, id |-> i]
         publish == Replace(i) \o Publish(o) \o
                    <<[op |-> "initOk", x |-> o, id |-> i],
                      [op |-> "catch", fine |-> RefreshVirtual(KindOf(o)), then |-> <<failed>>]>>
     IN \/ /\ t.obj[o].short = bus[g].short
           /\ \/ Go(p, publish, [t EXCEPT !.obj[o].up = TRUE, !.obj[o].groups = bus[g].groups])
                 /\ UNCHANGED left
              \/ Go(p, publish, [t EXCEPT !.obj[o].up = TRUE]) /\ bus[g].groups # {} /\ Mishap
        \/ /\ IF t.obj[o].short = bus[g].short /\ t.pend[i] # "failed" THEN Mishap ELSE UNCHANGED left
           /\ Go(p, <<failed>>, t)
  /\ UNCHANGED <<bus, file, queue, told>>

(* record_success; the instances of a control device become known.              *)
InitOk(p) ==
  /\ Instant(p, "initOk")
  /\ LET o == Op(p).x
     IN Go(p, <<>>, [t EXCEPT !.pend[Op(p).id] = "no",
                              !.inst = IF KindOf(o) = "dali2" THEN @ \cup {t.obj[o].short} ELSE @])
  /\ UNCHANGED rest
(* record_failure, which asks for a retry unless the id is no longer pending.   *)
InitFailed(p) ==
  /\ Instant(p, "initFailed")
  /\ LET i == Op(p).id
     IN Go(p, IF Present(i) THEN <<>> ELSE Publish(Op(p).x), Attempted(i))
  /\ UNCHANGED rest
(* The end of a try block that no exception has left.                           *)
Catch(p) ==
  /\ Instant(p, "catch")
  /\ Go(p, Op(p).fine, t)
  /\ UNCHANGED rest

(* _poll_step with nothing to poll: all first attempts, or one retry.           *)
PollInit ==
  /\ agenda["loop"] = <<>> /\ queue = <<>> /\ busy = Nobody /\ ~t.dead
  /\ LET new == {i \in Ids : t.pend[i] = "new"}
         try(s) == [k \in 1 .. Len(s) |-> [op |-> "doInit", id |-> s[k]]]
     IN \E ids \in IF new # {} THEN {SetToSeq(new)} ELSE {<<i>> : i \in {j \in Ids : t.pend[j] = "failed"}} :
          agenda' = [agenda EXCEPT !["loop"] = try(ids) \o <<[op |-> "poll"]>>]
  /\ busy' = "loop"
  /\ UNCHANGED <<t, bus, file, queue, told, left>>
PollEnd ==
  /\ Awaits("loop", "poll")
  /\ Go("loop", <<>>, t)
  /\ UNCHANGED rest

---------------------------------------------------------------------------
(* The tasks of the loop.                                                       *)

(* DaliDeviceBase.apply_parameters, the parameter handlers: an uninitialised or *)
(* unread device is refused; a write may fail half way.                         *)
ApplyParams ==
  /\ OnBus("loop", "applyParams")
  /\ LET o == Op("loop").x  ch == Op("loop").change
     IN IF ~t.obj[o].up \/ ~t.obj[o].loaded THEN Raise("loop") /\ UNCHANGED <<bus, left>>
        ELSE \/ /\ IF ch.what = "groups"
                   THEN /\ Go("loop", <<>>, [t EXCEPT !.obj[o].groups = ch.groups])
                        /\ bus' = [bus EXCEPT ![o[1]].groups = ch.groups]
                   ELSE Go("loop", <<>>, t) /\ UNCHANGED bus
                /\ UNCHANGED left
             \/ Mishap /\ Raise("loop") /\ UNCHANGED bus
  /\ UNCHANGED <<file, queue, told>>

(* _apply_common_parameters: the new address only when the device reports it;   *)
(* a default id follows the address, a typed one stays.                         *)
Common(o, ch, short) == [t.obj[o] EXCEPT !.short = short,
                                         !.own = IF ch.what = "name" THEN ch.name ELSE @]
(* set_short_address_sequence: the address the gear has afterwards, and what    *)
(* came of it: its report, none that is usable, or an error. The gear is        *)
(* selected at the address the table has for it.                                *)
Readdress(at, has, new) ==
  IF at # has THEN {[has |-> has, says |-> "nothing"]}
  ELSE {[has |-> new, says |-> "new"]} \cup [has : {has, new}, says : {"nothing", "error"}]
ApplyCommon ==
  /\ OnBus("loop", "applyCommon")
  /\ LET o == Op("loop").x  ch == Op("loop").change  at == t.obj[o].short  has == bus[o[1]].short
         do(short) == Go("loop", <<>>, [t EXCEPT !.obj[o] = Common(o, ch, short)])
     IN \/ ~(ch.what = "short" /\ ch.short # at) /\ do(at) /\ UNCHANGED <<bus, left>>
        \/ /\ ch.what = "short" /\ ch.short # at
           /\ \E r \in Readdress(at, has, ch.short) :
                /\ bus' = [bus EXCEPT ![o[1]].short = r.has]
                /\ IF r.says = "new" \/ at # has THEN UNCHANGED left ELSE Mishap
                /\ CASE r.says = "new"     -> do(ch.short)
                     [] r.says = "nothing" -> do(at)
                     [] r.says = "error"   -> Raise("loop")
  /\ UNCHANGED <<file, queue, told>>

(* RESET to the gear, and clearing its short address, which it may not confirm; *)
(* the sequence that clears it may also raise.                                  *)
Reset ==
  /\ OnBus("loop", "reset")
  /\ LET g == Op("loop").x[1]
     IN \E short \in {Unset, bus[g].short} \cap (IF Op("loop").clears THEN {Unset, bus[g].short} ELSE {bus[g].short}) :
          bus' = [bus EXCEPT ![g] = [short |-> short, groups |-> {}]]
  /\ \/ Go("loop", <<>>, t) /\ UNCHANGED left
     \/ Op("loop").clears /\ Raise("loop") /\ Mishap
  /\ UNCHANGED <<file, queue, told>>

(* DeviceRegistry.remove                                                        *)
Unindexed(index, o) == LET ks == <<KindOf(o), t.obj[o].short>>
                       IN IF index[ks] = o THEN [index EXCEPT ![ks] = NoObject] ELSE index
(* _remove_device                                                               *)
Unlist ==
  /\ Instant("loop", "unlist")
  /\ LET o == Op("loop").x
     IN Go("loop", <<[op |-> "remove", id |-> Id(o)]>> \o RefreshVirtual(KindOf(o)),
           [t EXCEPT !.listed = @ \ {o}, !.index = Unindexed(@, o), !.byId[Id(o)] = NoObject, !.pend[Id(o)] = "no",
                     !.inst = IF KindOf(o) = "dali2" THEN @ \ {t.obj[o].short} ELSE @])
  /\ UNCHANGED rest

(* _reset_device_settings_task: a fresh object with the addresses and the id of *)
(* the old one, listed, registered and initialised.                             *)
PublishNew ==
  /\ Instant("loop", "publishNew")
  /\ LET o == Op("loop").x
         n == <<o[1], t.gen[o[1]] + 1>>
     IN Go("loop", <<[op |-> "tryInit", x |-> n]>>,
           [t EXCEPT !.gen[o[1]] = @ + 1, !.listed = @ \cup {n}, !.obj[n] = Blank(t.obj[o]),
                     !.index[<<KindOf(o), t.obj[o].short>>] = n])
  /\ UNCHANGED rest

(* _load_device_info_task, DaliDeviceBase.load_info                             *)
LoadInfo ==
  /\ OnBus("loop", "load")
  /\ LET o == Op("loop").x  g == o[1]
         refresh == IF KindOf(o) = "gear" THEN <<[op |-> "groups"]>> ELSE <<>>
     IN IF t.obj[o].loaded /\ ~Op("loop").force THEN Go("loop", refresh, t) /\ UNCHANGED left
        ELSE IF ~t.obj[o].up THEN Raise("loop") /\ UNCHANGED left
        ELSE \/ /\ t.obj[o].short = bus[g].short
                /\ Go("loop", refresh, [t EXCEPT !.obj[o].loaded = TRUE, !.obj[o].groups = bus[g].groups])
                /\ UNCHANGED left
             \/ /\ Raise("loop")
                /\ IF t.obj[o].short = bus[g].short THEN Mishap ELSE UNCHANGED left
  /\ UNCHANGED <<bus, file, queue, told>>

SyncAll(s) == [k \in 1 .. Cardinality(s) |-> [op |-> "sync", x |-> SetToSeq(s)[k]]]
(* _apply_group_parameters_task: the members' parameters, then the on/off block *)
(* of the group; members that are up read again what was written.               *)
ApplyGroup ==
  /\ OnBus("loop", "applyGroup")
  /\ LET g == Op("loop").g
         members == {o \in ListedGear : g \in t.obj[o].groups /\ t.obj[o].up}
     IN IF ~t.grp[g].there THEN Raise("loop") /\ UNCHANGED left
        ELSE \/ /\ Go("loop", (IF Op("loop").params THEN SyncAll(members) ELSE <<>>)
                           \o <<[op |-> "groups"], [op |-> "rebuildGroup", g |-> g, changed |-> t.grp[g].onOff # Op("loop").onOff]>>,
                     [t EXCEPT !.grp[g].onOff = Op("loop").onOff])
                /\ UNCHANGED left
             \/ Mishap /\ Raise("loop")
  /\ UNCHANGED <<bus, file, queue, told>>
RebuildGroup ==
  /\ Instant("loop", "rebuildGroup")
  /\ LET g == Op("loop").g
     IN Go("loop", IF t.grp[g].there /\ Op("loop").changed THEN RebuiltGroup(g) ELSE <<>>, t)
  /\ UNCHANGED rest
(* _apply_bus_parameters_task: a write that fails leaves nobody synchronised.   *)
ApplyBus ==
  /\ OnBus("loop", "applyBus")
  /\ \/ Go("loop", SyncAll({o \in ListedGear : t.obj[o].up}), t) /\ UNCHANGED left
     \/ Raise("loop") /\ Mishap
  /\ UNCHANGED <<bus, file, queue, told>>
(* sync_controls_after_broadcast: what was read is dropped, the device is       *)
(* published again with its new controls when it could be read.                 *)
SyncMember ==
  /\ OnBus("loop", "sync")
  /\ LET o == Op("loop").x
     IN \/ Go("loop", <<[op |-> "remove", id |-> Id(o)]>> \o Publish(o) \o MapTo(o)
                        \o <<[op |-> "catch", fine |-> <<>>, then |-> <<>>]>>,
              [t EXCEPT !.obj[o].loaded = FALSE]) /\ UNCHANGED left
        \/ Go("loop", <<>>, [t EXCEPT !.obj[o].loaded = FALSE]) /\ Mishap
  /\ UNCHANGED <<bus, file, queue, told>>

(* The future of the task: the RPC that waits for it may go on.                 *)
Done ==
  /\ Instant("loop", "done")
  /\ LET c == Op("loop").client
     IN Go("loop", <<>>, IF c \notin Clients THEN t
                         ELSE [t EXCEPT !.answer[c] = IF Op("loop").ok THEN "ok" ELSE "error"])
  /\ UNCHANGED rest

---------------------------------------------------------------------------
(* A scan.                                                                      *)

(* _update_dali_devices, _update_dali2_devices: what kept its addresses stays,  *)
(* the rest leaves MQTT and the maps, what was found anew gets an object that   *)
(* is initialised, and only then the list and the registry are replaced.        *)
Update(kind, found, short) ==
  LET mine    == {o \in t.listed : KindOf(o) = kind}
      same    == {o \in mine : o[1] \in found /\ short[o[1]] = t.obj[o].short}
      fresh   == {<<g, t.gen[g] + 1>> : g \in {x \in found : t.kind[x] = kind /\ \A o \in same : o[1] # x}}
      gone    == {Id(o) : o \in mine \ same}
      new     == SetToSeq(fresh)
  IN <<[op |-> "removeAll", ids |-> gone], [op |-> "popAll", ids |-> gone]>>
     \o [k \in 1 .. Len(new) |-> [op |-> "tryInit", x |-> new[k]]]
     \o <<[op |-> "relist", kind |-> kind, to |-> same \cup fresh]>> \o RefreshVirtual(kind)

(* _commissioning_task: the addresses the search leaves (module Commissioning), *)
(* with nothing found of a device that is silent; a failed one changes nothing  *)
(* here. _read_devices_info passes over what the update raises.                 *)
Scan ==
  /\ OnBus("loop", "scan")
  /\ \/ \E found \in SUBSET Gears, short \in [Gears -> Shorts] :
          LET new == {g \in found : \A o \in t.listed : o[1] = g => short[g] # t.obj[o].short}
              gens == [g \in Gears |-> IF g \in new THEN t.gen[g] + 1 ELSE t.gen[g]]
          IN /\ \A g, h \in Gears : g # h /\ t.kind[g] = t.kind[h] => short[g] # short[h]
             /\ \A g \in Gears \ found : short[g] = bus[g].short
             /\ \A g \in Gears : gens[g] <= MaxGen
             /\ bus' = [g \in Gears |-> [bus[g] EXCEPT !.short = short[g]]]
             /\ Go("loop", Update("gear", found, short) \o Update("dali2", found, short)
                             \o <<[op |-> "catch", fine |-> <<>>, then |-> <<>>]>>,
                   [t EXCEPT !.gen = gens, !.scan = "reading",
                             !.obj = [o \in Objects |-> IF o[1] \in new /\ o[2] = gens[o[1]]
                                                        THEN Blank([short |-> short[o[1]], own |-> 0]) ELSE @[o]]])
          /\ UNCHANGED left
     \/ Mishap /\ UNCHANGED bus /\ t' = [t EXCEPT !.scan = "failed"] /\ busy' = "loop"
        /\ agenda' = [agenda EXCEPT !["loop"] = <<Last(@)>>]
  /\ UNCHANGED <<file, queue, told>>

(* The ids that are gone leave the map, the fetches and the retries.            *)
Pop(ids) == [t EXCEPT !.byId = [i \in Ids |-> IF i \in ids THEN NoObject ELSE @[i]],
                      !.pend = [i \in Ids |-> IF i \in ids THEN "no" ELSE @[i]]]
PopAll ==
  /\ Instant("loop", "popAll")
  /\ Go("loop", <<>>, Pop(Op("loop").ids))
  /\ UNCHANGED rest
(* DeviceRegistry.set_gear_devices, set_dali2_devices                           *)
Relist ==
  /\ Instant("loop", "relist")
  /\ LET kind == Op("loop").kind  os == Op("loop").to
         at(ks) == {o \in os : t.obj[o].short = ks[2]}
     IN Go("loop", <<>>, [t EXCEPT !.listed = {o \in @ : KindOf(o) # kind} \cup os,
             !.index = [ks \in Kinds \X Shorts |-> IF ks[1] # kind THEN @[ks]
                          ELSE IF at(ks) = {} THEN NoObject ELSE CHOOSE o \in at(ks) : TRUE]])
  /\ UNCHANGED rest

(* mark_completed; the callback saves the configuration in a task of its own.   *)
Completed ==
  /\ Instant("loop", "completed")
  /\ t' = [t EXCEPT !.scan = "completed"]
  /\ agenda' = [agenda EXCEPT !["loop"] = Tail(@), !["saver"] = Append(@, [op |-> "save"])]
  /\ busy' = "loop"
  /\ UNCHANGED rest

(* Gear as a search that was broken off may have left it.                       *)
Searched ==
  {[g \in Gears |-> [bus[g] EXCEPT !.short = short[g]]] : short \in
     {s \in [Gears -> Shorts] : \A g, h \in Gears : g # h /\ t.kind[g] = t.kind[h] => s[g] # s[h]}}

(* StopScanBus: a scan that waits leaves the queue, one that runs ends where it *)
(* awaits, in the search or, if it may, while it reads what was found.          *)
StopScan ==
  /\ busy = Nobody /\ ~t.dead
  /\ \/ /\ t.scan = "queued"
        /\ queue' = SelectSeq(queue, LAMBDA k : k.task # "scan")
        /\ UNCHANGED <<bus, agenda, busy>>
     \/ /\ t.scan = "running" \/ (t.scan = "reading" /\ MayCancel)
        /\ agenda["loop"] # <<>>
        /\ bus' \in IF t.scan = "running" THEN Searched ELSE {bus}
        /\ agenda' = [agenda EXCEPT !["loop"] = <<Last(@)>>]
        /\ busy' = "loop"
        /\ UNCHANGED queue
  /\ t' = [t EXCEPT !.scan = "cancelled"]
  /\ UNCHANGED <<file, left, told>>

---------------------------------------------------------------------------
(* The Editor RPCs.                                                             *)

(* DaliDevice.identify and the like change nothing here and are left out.       *)
Program(k) ==
  LET o == k.x
  IN CASE k.task = "set"   -> <<[op |-> "applyParams", x |-> o, change |-> k.change],
                                [op |-> "applyCommon", x |-> o, change |-> k.change]>>
       [] k.task = "reset" -> <<[op |-> "reset", x |-> o, clears |-> TRUE], [op |-> "unlist", x |-> o]>>
       [] k.task = "fresh" -> <<[op |-> "reset", x |-> o, clears |-> FALSE], [op |-> "unlist", x |-> o],
                                [op |-> "publishNew", x |-> o]>>
       [] k.task = "load"  -> (IF t.obj[o].up THEN <<>> ELSE <<[op |-> "doInit", id |-> Id(o)]>>)
                              \o <<[op |-> "load", x |-> o, force |-> k.change.force]>>
       [] k.task = "group" -> <<[op |-> "applyGroup", g |-> k.x[2], onOff |-> k.change.onOff, params |-> k.change.params]>>
       [] k.task = "bus"   -> <<[op |-> "applyBus"]>>
       [] k.task = "scan"  -> <<[op |-> "scan"], [op |-> "completed"]>>

(* _polling_loop takes the next task.                                           *)
LoopTake ==
  /\ agenda["loop"] = <<>> /\ queue # <<>> /\ busy = Nobody /\ ~t.dead
  /\ LET k == Head(queue)
         todo == Program(k) \o <<[op |-> "done", client |-> k.client, ok |-> TRUE]>>
     IN /\ agenda' = [agenda EXCEPT !["loop"] = todo]
        /\ busy' = IF Runs(todo) THEN "loop" ELSE Nobody
        /\ told' = [g \in Gears |-> IF k.task = "scan" \/ (k.task \in {"set", "reset"} /\ k.x[1] = g) THEN NoConfig ELSE told[g]]
        /\ t' = IF k.task = "scan" THEN [t EXCEPT !.scan = "running"] ELSE t
  /\ queue' = Tail(queue)
  /\ UNCHANGED <<bus, file, left>>

InFlight == {c \in Clients : agenda[c] # <<>>}
Wish(c) == Last(agenda[c])
SameWish(m, n) == m.what \in {"short", "name"} /\ m = n
(* With Careful, nobody else is at work on the device, or wants what is wanted, *)
(* and no scan is on its way.                                                   *)
Alone(x, ch) ==
  Careful => /\ \A c \in InFlight : Wish(c).x # x /\ ~SameWish(Wish(c).change, ch)
             /\ t.scan \notin {"queued", "running", "reading"} /\ agenda["saver"] = <<>>

(* The RPC queues its task and waits; then what it does afterwards is left.     *)
Request(c, task, x, ch, after) ==
  /\ agenda[c] = <<>> /\ busy = Nobody /\ left > 0 /\ ~t.dead
  /\ Alone(x, ch)
  /\ queue' = Append(queue, [task |-> task, client |-> c, x |-> x, change |-> ch])
  /\ agenda' = [agenda EXCEPT ![c] = after \o <<[op |-> "reply", ok |-> TRUE, task |-> task, x |-> x, change |-> ch]>>]
  /\ left' = left - 1
  /\ UNCHANGED <<t, bus, file, busy, told>>

Waits == <<[op |-> "await", then |-> "end"]>>
(* Seeded fault: the RPC answers without saving.                                *)
SavesNothing == <<>>
Saves == <<[op |-> "save"]>>

(* check_short_address_conflict, check_mqtt_id_conflict                         *)
Conflict(o, ch) ==
  \/ ch.what = "short" /\ \E d \in t.listed \ {o} : KindOf(d) = KindOf(o) /\ t.obj[d].short = ch.short
  \/ ch.what = "name" /\ ch.name # 0 /\ \E d \in t.listed \ {o} : Id(d) = <<"typed", ch.name>>
Changes(o) == [what : {"short"}, short : Shorts] \cup [what : {"name"}, name : Names \cup {0}]
              \cup [what : {"refresh"}]
              \cup (IF KindOf(o) = "gear" THEN [what : {"groups"}, groups : SUBSET Groups] ELSE {})

(* set_device_rpc_handler, with what apply_parameters remembers of the device.  *)
SetDevice(c) ==
  \E o \in t.listed : \E ch \in Changes(o) :
    /\ ~Conflict(o, ch)
    /\ Request(c, "set", o, ch,
               <<[op |-> "await", then |-> "set", x |-> o, id |-> Id(o), short |-> t.obj[o].short,
                  refresh |-> ch.what = "refresh"]>> \o Saves)
GetDevice(c) == \E o \in t.listed, force \in BOOLEAN : Request(c, "load", o, [what |-> "load", force |-> force], Waits)
ResetDevice(c) == \E o \in t.listed : Request(c, "reset", o, [what |-> "reset"], Waits \o Saves)
ResetSettings(c) ==
  \E o \in t.listed : t.gen[o[1]] < MaxGen /\ Request(c, "fresh", o, [what |-> "fresh"], Waits)
SetGroupConfig(c) ==
  \E g \in Groups, onOff, params \in BOOLEAN :
    t.grp[g].there /\ Request(c, "group", GroupId(g), [what |-> "group", onOff |-> onOff, params |-> params], Waits \o Saves)
SetBus(c) == Request(c, "bus", Broadcast, [what |-> "bus"], Waits \o Saves)
(* start_commissioning: the RPC is answered once the scan is queued.            *)
ScanBus ==
  /\ t.scan \notin {"queued", "running", "reading"} /\ left > 0 /\ busy = Nobody /\ ~t.dead
  /\ Careful => InFlight = {}
  /\ t' = [t EXCEPT !.scan = "queued"]
  /\ queue' = Append(queue, [task |-> "scan", client |-> None, x |-> Broadcast, change |-> None])
  /\ left' = left - 1
  /\ UNCHANGED <<bus, file, agenda, busy, told>>

(* Seeded fault: what is on MQTT under the old id is not taken off.             *)
MovedAddsOnly(old, o) == Publish(o) \o MapTo(o)
(* _republish_device                                                            *)
Moved(old, o) == Republish(old, o)

(* The answer of the task. apply_parameters goes on with MQTT, the registry and *)
(* the virtual devices; the others have only the configuration left to save.    *)
Resume(c) ==
  /\ Awaits(c, "await") /\ busy = Nobody /\ t.answer[c] # None
  /\ IF t.answer[c] = "error"
     THEN /\ agenda' = [agenda EXCEPT ![c] = <<[Last(@) EXCEPT !.ok = FALSE]>>]
          /\ busy' = c
          /\ t' = [t EXCEPT !.answer[c] = None]
     ELSE Go(c, IF Op(c).then = "set"
                THEN (IF Op(c).refresh \/ Op(c).id # Id(Op(c).x) THEN Moved(Op(c).id, Op(c).x) ELSE <<>>)
                     \o <<[op |-> "index", x |-> Op(c).x, old |-> Op(c).short]>> \o RefreshVirtual(KindOf(Op(c).x))
                ELSE <<>>,
             [t EXCEPT !.answer[c] = None])
  /\ UNCHANGED rest

(* Seeded fault: the entry at the old address is left.                          *)
ReindexKeepsOld(o, old) == [t.index EXCEPT ![<<KindOf(o), t.obj[o].short>>] = o]
(* DeviceRegistry.update_short_address                                          *)
Reindexed(o, old) ==
  [ks \in Kinds \X Shorts |-> IF ks = <<KindOf(o), t.obj[o].short>> THEN o
                              ELSE IF ks = <<KindOf(o), old>> /\ t.index[ks] = o THEN NoObject ELSE t.index[ks]]
Index(c) ==
  /\ Instant(c, "index")
  /\ LET o == Op(c).x  old == Op(c).old
     IN Go(c, <<>>, IF old = t.obj[o].short THEN t
                    ELSE [t EXCEPT !.index = Reindexed(o, old),
                                   !.inst = IF KindOf(o) = "dali2" THEN (@ \ {old}) \cup {t.obj[o].short} ELSE @])
  /\ UNCHANGED rest

(* _save_configuration: the file is replaced at once.                           *)
Save(p) ==
  /\ Awaits(p, "save") /\ busy \in {Nobody, p}
  /\ file' = Config
  /\ Go(p, <<>>, t)
  /\ UNCHANGED <<bus, queue, told, left>>

Reply(c) ==
  /\ Instant(c, "reply")
  /\ told' = IF Op(c).task = "set" /\ Op(c).ok THEN [told EXCEPT ![Op(c).x[1]] = ConfigOf(Op(c).x)] ELSE told
  /\ Go(c, <<>>, t)
  /\ UNCHANGED <<bus, file, queue, left>>

(* The service goes down, by itself when a poll step has raised, and starts     *)
(* with what the file says. systemd restarts it.                                *)
Restart ==
  /\ \/ t.dead /\ UNCHANGED left
     \/ ~t.dead /\ Mishap
  /\ t' = LoadTable(file, t.kind)
  /\ queue' = <<>> /\ agenda' = [p \in Procs |-> <<>>] /\ busy' = Nobody
  /\ UNCHANGED <<bus, file, told>>

---------------------------------------------------------------------------
Shared(p) ==
  \/ Unpublish(p) \/ RemoveAll(p) \/ Add(p) \/ Serve(p) \/ Forget(p) \/ Map(p)
  \/ RefreshGroups(p) \/ DropGroup(p) \/ NewGroup(p) \/ CheckGroup(p) \/ SetGroup(p)
  \/ RefreshBroadcast(p) \/ SetBroadcast(p) \/ Catch(p)
LoopStep ==
  \/ Shared("loop") \/ TryInit("loop") \/ DoInit("loop") \/ InitDevice("loop") \/ InitOk("loop") \/ InitFailed("loop")
  \/ PollEnd \/ ApplyParams \/ ApplyCommon \/ Reset \/ Unlist \/ PublishNew \/ LoadInfo
  \/ ApplyGroup \/ RebuildGroup \/ ApplyBus \/ SyncMember \/ Scan \/ PopAll \/ Relist \/ Completed \/ Done \/ LoopTake
ClientStep(c) == Shared(c) \/ Resume(c) \/ Index(c) \/ Save(c) \/ Reply(c)
Requests(c) == SetDevice(c) \/ GetDevice(c) \/ ResetDevice(c) \/ ResetSettings(c) \/ SetGroupConfig(c) \/ SetBus(c)

Next ==
  \/ LoopStep \/ PollInit
  \/ \E c \in Clients : ClientStep(c) \/ Requests(c)
  \/ Save("saver")
  \/ ScanBus \/ StopScan \/ Restart

Spec == Init /\ [][Next]_vars

---------------------------------------------------------------------------
Quiet == /\ \A p \in Procs : agenda[p] = <<>>
         /\ queue = <<>> /\ \A i \in Ids : t.pend[i] # "new"

(* The shape of the state.                                                      *)
TypeOK ==
  /\ t.listed \subseteq Objects /\ t.inst \subseteq Shorts
  /\ t.index \in [Kinds \X Shorts -> Objects \cup {NoObject}]
  /\ t.byId \in [Ids -> Objects \cup {NoObject, Virtual}]
  /\ t.pub \in [Ids -> {"no", "bare", "served"}]
  /\ busy \in Procs \cup {Nobody}
  /\ \A o \in t.listed : t.obj[o].short \in Shorts

(* Once everything at work has ended, MQTT shows exactly the devices the bus    *)
(* has, each under its present id, with its control handler, and the map of ids *)
(* leads to that very object: an /on message reaches the device it names. And   *)
(* no poll step ends in an exception of the publisher or of a group that is     *)
(* gone, which would stop the whole service.                                    *)
PublishedIsListed ==
  /\ ~t.dead
  /\ Quiet => \A i \in Ids :
       LET owner == {o \in t.listed : Id(o) = i}
           virtual == i = Broadcast \/ (i[1] = "group" /\ t.grp[i[2]].there)
       IN /\ (t.pub[i] = "served") = (owner # {} \/ virtual)
          /\ (t.pub[i] = "no") = (owner = {} /\ ~virtual)
          /\ owner # {} => owner = {t.byId[i]}
          /\ t.pend[i] # "no" => owner # {} /\ \E o \in owner : ~t.obj[o].up

(* Once everything at work has ended, the registry holds the devices at their   *)
(* present short addresses and nothing else, and the instance map knows every   *)
(* control device that is up: a frame seen on the bus is decoded and attributed *)
(* to the device that holds its address.                                        *)
RegistryIsListed ==
  Quiet => /\ \A ks \in Kinds \X Shorts :
                LET at == {o \in t.listed : KindOf(o) = ks[1] /\ t.obj[o].short = ks[2]}
                IN IF at = {} THEN t.index[ks] = NoObject ELSE at = {t.index[ks]}
           /\ {t.obj[o].short : o \in {x \in t.listed : KindOf(x) = "dali2" /\ t.obj[x].up}} \subseteq t.inst

(* Once everything at work has ended, there is a group device for every group   *)
(* with a member and for every group with an on/off block, no other, and each   *)
(* one, and the broadcast device, is built for the members there are.           *)
VirtualIsCurrent ==
  Quiet => /\ \A g \in Groups :
                /\ t.grp[g].there = (g \in ActiveGroups \/ t.grp[g].onOff)
                /\ g \in ActiveGroups => t.grp[g].layout = Capabilities(Members(g))
           /\ t.cast = Capabilities(ListedGear)

(* Once everything at work has ended, what MQTT shows, the registry, the        *)
(* instance map and the virtual devices are those of the devices listed, and no *)
(* poll step has failed on the way.                                             *)
TablesAreCurrent == PublishedIsListed /\ RegistryIsListed /\ VirtualIsCurrent

(* What a client was told of its device is in the file, so that a restart at    *)
(* any time afterwards brings the device back as it was confirmed.              *)
ConfirmedIsSaved == \A g \in Gears : told[g] # NoConfig => told[g] \in file.devices

(* A scan that was stopped has not changed the table: "CANCELLED means scan did *)
(* not happen" (tests/test_gateway_commissioning.py). The code does not keep    *)
(* this: README, section 3.                                                     *)
CancelledScanDidNotHappen ==
  Quiet /\ t.scan = "cancelled" => \A o \in t.listed : t.pub[Id(o)] = "served"

=============================================================================

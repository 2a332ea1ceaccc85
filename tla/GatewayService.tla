--------------------------- MODULE GatewayService ---------------------------
(* The service above the buses: Gateway keeps the list of DALI gateways that    *)
(* wb-mqtt-serial knows, starts and stops them as that configuration changes,   *)
(* runs the Lunatone websocket of each, and saves their settings. The Editor    *)
(* RPCs GetList and SetGateway run concurrently, and await the serial service,  *)
(* the configuration lock, the gateways and the websockets.                     *)
(*                                                                             *)
(* A gateway object is a pair of its id and a number: one that comes back after *)
(* it was removed is a new object. Its buses are one flag; what they do is in   *)
(* the other modules.                                                           *)
EXTENDS Integers, Sequences, FiniteSets, SequencesExt

CONSTANTS Uids,        \* gateways wb-mqtt-serial may know
          Ports,       \* websocket ports, numbers
          DefaultPort, \* DEFAULT_WEBSOCKET_PORT
          Clients,     \* RPCs in flight
          Configs,     \* configurations the service may find at its start
          MaxGen,      \* bound on how often one gateway comes back
          MaxEvents    \* bound on requests and on what others do, together

VARIABLES serial,   \* the gateways enabled in wb-mqtt-serial
          foreign,  \* ports taken by other programs
          list,     \* wb_dali_gateways
          obj,      \* the WbDaliGateway objects
          gen,      \* the last object made for each id
          lock,     \* who holds _config_lock
          proc,     \* where each handler, and run, is
          file,     \* the configuration file
          told,     \* what a client was last told the settings of a gateway are
          phase,    \* of the service: starting, endpoints, serving, stopping, stopped
          topics,   \* gateways whose commissioning topics are on the broker
          left      \* how many of MaxEvents may still happen

vars == <<serial, foreign, list, obj, gen, lock, proc, file, told, phase, topics, left>>

Objects == Uids \X (0 .. MaxGen)
Procs   == Clients \cup {"run"}
Nobody  == "nobody"
Settings == [enabled : BOOLEAN, port : Ports]
NotTold == [enabled |-> FALSE, port |-> -1]
Default == [enabled |-> FALSE, port |-> DefaultPort]
Rest    == [at |-> "rest", ids |-> {}, keep |-> <<>>, todo |-> <<>>, uid |-> "none", cfg |-> Default]

(* A configuration was written by the service, which lists a gateway once; the  *)
(* bounds let a gateway that is not in it be added.                             *)
ASSUME ServiceAssumption ==
  /\ Ports \subseteq Nat /\ DefaultPort \in Ports
  /\ IsFiniteSet(Clients) /\ {"run", Nobody} \cap Clients = {}
  /\ MaxGen \in Nat \ {0} /\ MaxEvents \in Nat
  /\ \A c \in Configs : /\ IsFiniteSet(c) /\ c \subseteq [uid : Uids, cfg : Settings]
                         /\ \A e, f \in c : e.uid = f.uid => e = f

Fresh(cfg) == [on |-> FALSE, cfg |-> cfg, task |-> "none"]

TypeOK ==
  /\ serial \subseteq Uids /\ foreign \subseteq Ports /\ list \in Seq(Objects)
  /\ obj \in [Objects -> [on : BOOLEAN, cfg : Settings, task : {"none", "starting", "serving", "failed"}]]
  /\ gen \in [Uids -> 0 .. MaxGen] /\ lock \in Procs \cup {Nobody}
  /\ phase \in {"starting", "updating", "endpoints", "serving", "stopping", "stopped"}
  /\ file \subseteq [uid : Uids, cfg : Settings] /\ topics \subseteq Uids /\ left \in 0 .. MaxEvents

Listed == ToSet(list)
(* save_configuration: the gateways of the list with their settings.            *)
Saved(l) == {[uid |-> o[1], cfg |-> obj[o].cfg] : o \in ToSet(l)}

(* Gateway.__init__: the gateways of the file.                                  *)
Init ==
  /\ serial = Uids /\ foreign = {}
  /\ file \in Configs
  /\ list = SetToSeq({<<e.uid, 0>> : e \in file})
  /\ obj = [o \in Objects |-> Fresh(IF \E e \in file : <<e.uid, 0>> = o
                                    THEN (CHOOSE e \in file : e.uid = o[1]).cfg ELSE Default)]
  /\ gen = [u \in Uids |-> 0]
  /\ lock = Nobody /\ proc = [p \in Procs |-> Rest]
  /\ told = [u \in Uids |-> NotTold]
  /\ phase = "starting" /\ topics = {} /\ left = MaxEvents

Event == left > 0 /\ left' = left - 1

---------------------------------------------------------------------------
(* WbDaliGateway                                                               *)

(* start: the buses, then the websocket if there is to be one.                  *)
Started(g) == [g EXCEPT !.on = TRUE, !.task = IF g.cfg.enabled THEN "starting" ELSE @]

(* _stop_websocket_locked: the task is cancelled and awaited. The error of one  *)
(* that has failed on its own is raised here, and the task is kept.             *)
StopRaises(g) == g.task = "failed"
Stopped(g) == [g EXCEPT !.on = FALSE, !.task = "none"]

(* run_websocket: listens until it is cancelled; a port in use ends it.         *)
Bind(o) ==
  /\ obj[o].task = "starting"
  /\ LET p == obj[o].cfg.port
         taken == p \in foreign \/ \E x \in Objects : obj[x].task = "serving" /\ obj[x].cfg.port = p
     IN obj' = [obj EXCEPT ![o].task = IF taken THEN "failed" ELSE "serving"]
  /\ UNCHANGED <<serial, foreign, list, gen, lock, proc, file, told, phase, topics, left>>

---------------------------------------------------------------------------
(* _update_gateways, from GetList and once from run                            *)

To(p, r) == proc' = [proc EXCEPT ![p] = r]
(* The RPC server: a result, a refusal and any exception of a handler are all   *)
(* answered, and the handler is over.                                           *)
Answer(c) == To(c, Rest)

(* The serial configuration is asked for before the lock is taken.              *)
Load(p) ==
  /\ proc[p].at = "load"
  /\ \/ To(p, [proc[p] EXCEPT !.at = "want", !.ids = serial])
     \/ To(p, [proc[p] EXCEPT !.at = "list"])
  /\ UNCHANGED <<serial, foreign, list, obj, gen, lock, file, told, phase, topics, left>>

(* Seeded fault: the list is updated without the lock.                          *)
HoldNothing(p) == UNCHANGED lock
Acquire(p) == lock = Nobody /\ lock' = p
(* Seeded fault: the lock is not given back by a handler that raises.           *)
KeepLock == UNCHANGED lock
ReleaseOnError == lock' = Nobody

TakeLock(p) ==
  /\ proc[p].at = "want"
  /\ Acquire(p)
  /\ To(p, [proc[p] EXCEPT !.at = "sweep", !.todo = list, !.keep = <<>>])
  /\ UNCHANGED <<serial, foreign, list, obj, gen, file, told, phase, topics, left>>

(* The next gateway of the list is kept, or stopped; an error ends the update   *)
(* and leaves the list as it was.                                               *)
Sweep(p) ==
  /\ proc[p].at = "sweep" /\ proc[p].todo # <<>>
  /\ LET o == Head(proc[p].todo)
         on == [proc[p] EXCEPT !.todo = Tail(@)]
     IN \/ /\ o[1] \in proc[p].ids
           /\ To(p, [on EXCEPT !.keep = Append(@, o), !.ids = @ \ {o[1]}])
           /\ UNCHANGED <<obj, lock, told>>
        \/ /\ o[1] \notin proc[p].ids /\ ~StopRaises(obj[o])
           /\ obj' = [obj EXCEPT ![o] = Stopped(@)]
           /\ told' = [told EXCEPT ![o[1]] = NotTold]
           /\ To(p, on) /\ UNCHANGED lock
        \/ /\ o[1] \notin proc[p].ids /\ StopRaises(obj[o])
           /\ To(p, [Rest EXCEPT !.at = IF p = "run" THEN "broken" ELSE "rest"]) /\ ReleaseOnError
           /\ UNCHANGED <<obj, told>>
  /\ UNCHANGED <<serial, foreign, list, gen, file, phase, topics, left>>

(* A gateway that is new: three buses, the default settings.                    *)
Grow(p) ==
  /\ proc[p].at = "sweep" /\ proc[p].todo = <<>>
  /\ \E u \in proc[p].ids :
       /\ gen' = [gen EXCEPT ![u] = @ + 1]
       /\ obj' = [obj EXCEPT ![<<u, gen[u] + 1>>] = Started(Fresh(Default))]
       /\ To(p, [proc[p] EXCEPT !.ids = @ \ {u}, !.keep = Append(@, <<u, gen[u] + 1>>)])
  /\ UNCHANGED <<serial, foreign, list, lock, file, told, phase, topics, left>>

Replace(p) ==
  /\ proc[p].at = "sweep" /\ proc[p].todo = <<>> /\ proc[p].ids = {}
  /\ list' = proc[p].keep
  /\ lock' = Nobody
  /\ To(p, [proc[p] EXCEPT !.at = "save"])
  /\ UNCHANGED <<serial, foreign, obj, gen, file, told, phase, topics, left>>

(* _save_configuration                                                         *)
Save(p) ==
  /\ proc[p].at = "save" /\ lock = Nobody
  /\ file' = Saved(list)
  /\ To(p, [proc[p] EXCEPT !.at = "list"])
  /\ UNCHANGED <<serial, foreign, list, obj, gen, lock, told, phase, topics, left>>

(* GetList answers with the list, under the lock.                               *)
AnswerList(c) ==
  /\ proc[c].at = "list" /\ lock = Nobody /\ c # "run"
  /\ Answer(c)
  /\ UNCHANGED <<serial, foreign, list, obj, gen, lock, file, told, phase, topics, left>>

GetList(c) ==
  /\ proc[c] = Rest /\ phase \in {"endpoints", "serving"} /\ Event
  /\ \A u \in Uids : gen[u] + Cardinality({p \in Procs : proc[p].at \in {"load", "want", "sweep"}}) < MaxGen
  /\ To(c, [Rest EXCEPT !.at = "load"])
  /\ UNCHANGED <<serial, foreign, list, obj, gen, lock, file, told, phase, topics>>

---------------------------------------------------------------------------
(* SetGateway                                                                  *)

SetGateway(c) ==
  /\ proc[c] = Rest /\ phase = "serving" /\ Event
  /\ \E u \in Uids, cfg \in Settings : To(c, [Rest EXCEPT !.at = "set", !.uid = u, !.cfg = cfg])
  /\ UNCHANGED <<serial, foreign, list, obj, gen, lock, file, told, phase, topics>>

Target(c) == {o \in Listed : o[1] = proc[c].uid}
(* _is_gateway_websocket_port_in_use                                           *)
PortInUse(port, u) == \E o \in Listed : o[1] # u /\ obj[o].cfg.enabled /\ obj[o].cfg.port = port

(* apply_websocket_config, whether the old websocket has to go.                 *)
MustClose(g, cfg) ==
  /\ g.cfg # cfg /\ g.task # "none"
  /\ ~cfg.enabled \/ (g.cfg.enabled /\ g.cfg.port # cfg.port)

(* ... and what follows: the settings, and a websocket if there is none.        *)
Applied(g, cfg) ==
  IF g.cfg = cfg THEN g
  ELSE [g EXCEPT !.cfg = cfg, !.task = IF cfg.enabled /\ @ = "none" THEN "starting" ELSE @]

(* Seeded fault: the answer is given before the file is written.                *)
SaveLater(o, g) == file
SavedWith(o, g) == {[uid |-> x[1], cfg |-> IF x = o THEN g.cfg ELSE obj[x].cfg] : x \in Listed}

Confirm(c, o, g) ==
  /\ obj' = [obj EXCEPT ![o] = Applied(g, proc[c].cfg)]
  /\ file' = SavedWith(o, Applied(g, proc[c].cfg))
  /\ told' = [told EXCEPT ![o[1]] = proc[c].cfg]
  /\ Answer(c)

(* The handler with the lock: refused, applied at once, or held up by the old   *)
(* websocket. The error of a websocket that had failed ends it.                 *)
ApplySet(c) ==
  /\ proc[c].at = "set" /\ lock = Nobody
  /\ LET cfg == proc[c].cfg IN
     \/ /\ Target(c) = {} \/ (cfg.enabled /\ PortInUse(cfg.port, proc[c].uid))
        /\ Answer(c)
        /\ UNCHANGED <<obj, lock, file, told>>
     \/ /\ ~(cfg.enabled /\ PortInUse(cfg.port, proc[c].uid))
        /\ \E o \in Target(c) :
             \/ ~MustClose(obj[o], cfg) /\ Confirm(c, o, obj[o]) /\ UNCHANGED lock
             \/ /\ MustClose(obj[o], cfg) /\ StopRaises(obj[o])
                /\ Answer(c) /\ UNCHANGED <<obj, lock, file, told>>
             \/ /\ MustClose(obj[o], cfg) /\ ~StopRaises(obj[o])
                /\ lock' = c /\ To(c, [proc[c] EXCEPT !.at = "closing"])
                /\ UNCHANGED <<obj, file, told>>
  /\ UNCHANGED <<serial, foreign, list, gen, phase, topics, left>>

(* The websocket has closed its port.                                           *)
Closed(c) ==
  /\ proc[c].at = "closing"
  /\ \E o \in Target(c) :
       \/ ~StopRaises(obj[o]) /\ Confirm(c, o, [obj[o] EXCEPT !.task = "none"])
       \/ StopRaises(obj[o]) /\ Answer(c) /\ UNCHANGED <<obj, file, told>>
  /\ lock' = Nobody
  /\ UNCHANGED <<serial, foreign, list, gen, phase, topics, left>>

---------------------------------------------------------------------------
(* Gateway.run and stop                                                        *)

(* Every gateway of the file is started, then the list is brought up to date.   *)
StartAll ==
  /\ phase = "starting"
  /\ obj' = [o \in Objects |-> IF o \in Listed THEN Started(obj[o]) ELSE obj[o]]
  /\ phase' = "updating"
  /\ To("run", [Rest EXCEPT !.at = "load"])
  /\ UNCHANGED <<serial, foreign, list, gen, lock, file, told, topics, left>>

(* _publish_idle_commissioning_state_for_all_buses, _clear_...: of the gateways  *)
(* that are listed at that moment.                                              *)
PublishIdle == topics' = topics \cup {o[1] : o \in Listed}
ClearTopics == topics' = topics \ {o[1] : o \in Listed}

(* MQTTRPCServer.start and add_endpoint: requests are taken from the first       *)
(* endpoint on, GetList; SetGateway comes later.                                *)
AddEndpoint(now, next) == phase = now /\ phase' = next

(* The idle commissioning states, the RPC server, its first endpoint.           *)
ServeFirst ==
  /\ AddEndpoint("updating", "endpoints") /\ proc["run"].at = "list"
  /\ PublishIdle /\ To("run", Rest)
  /\ UNCHANGED <<serial, foreign, list, obj, gen, lock, file, told, left>>
ServeAll ==
  /\ AddEndpoint("endpoints", "serving")
  /\ UNCHANGED <<serial, foreign, list, obj, gen, lock, proc, file, told, topics, left>>

(* Gateway.stop: the endpoints go, the handlers are cancelled. One that waits   *)
(* for a websocket to end takes its cancellation for the websocket's and goes on. *)
StopServing ==
  /\ phase \in {"endpoints", "serving"} /\ Event
  /\ phase' = "stopping"
  /\ proc' = [p \in Procs |-> IF proc[p].at = "closing" THEN proc[p] ELSE Rest]
  /\ lock' = IF lock \in Procs /\ proc[lock].at = "closing" THEN lock ELSE Nobody
  /\ UNCHANGED <<serial, foreign, list, obj, gen, file, told, topics>>
(* A run that could not even update its list is stopped by the session.         *)
Broken ==
  /\ phase = "updating" /\ proc["run"].at = "broken"
  /\ phase' = "stopping" /\ To("run", Rest)
  /\ UNCHANGED <<serial, foreign, list, obj, gen, lock, file, told, topics, left>>
(* The topics of the listed gateways are cleared; every gateway is stopped, and *)
(* one whose websocket had failed raises before its buses are.                  *)
StopGateways ==
  /\ phase = "stopping" /\ \A p \in Procs : proc[p] = Rest
  /\ ClearTopics
  /\ obj' = [o \in Objects |-> IF o \in Listed /\ ~StopRaises(obj[o]) THEN Stopped(obj[o]) ELSE obj[o]]
  /\ phase' = "stopped"
  /\ UNCHANGED <<serial, foreign, list, gen, lock, proc, file, told, left>>

---------------------------------------------------------------------------
(* Others: the serial configuration is edited, a program takes or leaves a port. *)
EditSerial ==
  /\ phase # "stopped" /\ Event
  /\ \E u \in Uids : serial' = (serial \ {u}) \cup ({u} \ serial)
  /\ UNCHANGED <<foreign, list, obj, gen, lock, proc, file, told, phase, topics>>
TakePort ==
  /\ phase # "stopped" /\ Event
  /\ \E p \in Ports : /\ \A o \in Objects : obj[o].task = "serving" => obj[o].cfg.port # p
                      /\ foreign' = (foreign \ {p}) \cup ({p} \ foreign)
  /\ UNCHANGED <<serial, list, obj, gen, lock, proc, file, told, phase, topics>>

Handler(p) == Load(p) \/ TakeLock(p) \/ Sweep(p) \/ Grow(p) \/ Replace(p) \/ Save(p)
Client(c) == AnswerList(c) \/ ApplySet(c) \/ Closed(c)
(* What the event loop has to run; it runs something as long as there is any.   *)
Work ==
  \/ \E p \in Procs : Handler(p)
  \/ \E c \in Clients : Client(c)
  \/ \E o \in Objects : Bind(o)
  \/ StartAll \/ ServeFirst \/ ServeAll \/ Broken \/ StopGateways
Others == (\E c \in Clients : GetList(c) \/ SetGateway(c)) \/ StopServing \/ EditSerial \/ TakePort
Next == Work \/ Others

Spec == Init /\ [][Next]_vars /\ WF_vars(Work)

---------------------------------------------------------------------------
(* Settings a client was told are those of the gateway and of the file, for as  *)
(* long as the gateway stays, whatever other requests change or are refused and *)
(* whatever websockets fail, the file itself taken to be writable; and when     *)
(* no save is due the file names the gateways that are listed                   *)
(* (set_gateway_rpc_handler, _update_gateways, save_configuration).             *)
SavedAsConfirmed ==
  /\ \A o \in Listed : told[o[1]] # NotTold =>
       obj[o].cfg = told[o[1]] /\ ((\A p \in Procs : proc[p].at # "save") => [uid |-> o[1], cfg |-> told[o[1]]] \in file)
  /\ (phase = "serving" /\ \A p \in Procs : proc[p].at \in {"rest", "load", "set"}) => file = Saved(list)

(* A gateway that runs, its buses or its websocket, is in the list, or in the   *)
(* hands of the update that is about to list it: no bus is driven by an object  *)
(* the service has forgotten (_update_gateways, WbDaliGateway.stop).            *)
NoStray ==
  phase \notin {"stopping", "stopped"} =>
    \A o \in Objects : obj[o].on \/ obj[o].task # "none" =>
      o \in Listed \/ \E p \in Procs : o \in ToSet(proc[p].keep)

(* Every request ends: no handler keeps the lock or waits for ever.             *)
RequestsEnd == \A c \in Clients : proc[c] # Rest ~> proc[c] = Rest

=============================================================================

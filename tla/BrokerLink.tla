------------------------------ MODULE BrokerLink ------------------------------
(* The service across broker sessions: the session loop (BrokerSessions), the   *)
(* dispatcher with its mirror of retained messages, its subscriptions and the   *)
(* cache of what it has received, one Wiren Board device with one control, and  *)
(* an RPC client. The link may go down between any two steps; what the MQTT     *)
(* client has accepted but not delivered is sent again or lost.                 *)
EXTENDS Integers, Sequences, FiniteSets, SequencesExt

CONSTANTS Values,      \* the values of the control, without an empty one
          FirstValue,  \* the one a new control has
          MaxDrops,    \* how often the link goes down
          MaxUpdates,  \* how often something is asked of the publisher
          MaxCalls,    \* how many RPC calls are made
          MaxRuns,     \* how often the service is started
          SecondSubscriber, \* whether the peer's topic gets a second callback
          Calm         \* no outage while old topics are collected, no stop or crash before a
                       \* session has settled, no stop that leaves topics without their meta

ASSUME BoundAssumption == FirstValue \in Values /\ {MaxDrops, MaxUpdates, MaxCalls} \subseteq Nat /\ MaxRuns \in Nat \ {0}
                          /\ SecondSubscriber \in BOOLEAN

VARIABLES link,      \* whether the connection works
          phase,     \* BrokerSessions.run
          connected, \* MQTTDispatcher._connected
          broker,    \* the retained messages of the broker
          mirror,    \* _retained_mirror, in the order of the dict
          pipe,      \* what the client has accepted and the broker not yet received
          replay,    \* the topics replay_retained has left
          todo,      \* the subscriptions connection_restored has left
          known,     \* _subscriptions
          subs,      \* the subscriptions of the broker's session
          cache,     \* _retained_cache of the peer's topic
          late,      \* what a second subscriber of that topic knows of it
          seen,      \* history: what was retained there in this session
          inbox,     \* what the broker sends about the peer's topic
          lock,      \* the dispatcher's lock
          ctl,       \* wbmqtt.Device: is it there, its published title, value, error
          job,       \* what the holder of the publisher's lock has left to publish
          run,       \* Gateway.run: cleaning the broker, or serving
          call,      \* the RPC call under way
          left       \* how much of each bound is left

vars == <<link, phase, connected, broker, mirror, pipe, replay, todo, known, subs, cache, late, seen, inbox, lock, ctl, job,
          run, call, left>>
sessionVars == <<phase, connected, replay, todo>>
deviceVars == <<ctl, job, run>>
peerVars == <<known, subs, cache, late, seen, inbox, lock, call>>

None   == "none"
Unheard == "unheard"
Own    == {"meta", "value", "error"}
Peer   == "peer"
Topics == Own \cup {Peer}
Gone   == [there |-> FALSE, title |-> None, value |-> None, error |-> None]
RpcReply == "reply"

Use(what) == left[what] > 0 /\ left' = [left EXCEPT ![what] = @ - 1]

---------------------------------------------------------------------------
(* Publishing.                                                                  *)

At(m, t) == SelectInSeq(m, LAMBDA e : e.topic = t)
Held(m, t) == IF At(m, t) = 0 THEN None ELSE m[At(m, t)].payload
(* Seeded fault: a message that clears a topic is not remembered.               *)
MirrorForgetsClear(m, t, p) ==
  LET i == At(m, t)
  IN IF p = None THEN (IF i = 0 THEN m ELSE RemoveAt(m, i))
     ELSE IF i = 0 THEN Append(m, [topic |-> t, payload |-> p]) ELSE [m EXCEPT ![i].payload = p]
(* MQTTDispatcher._mirror_retained: a topic that appears again goes to the end. *)
MirrorRetained(m, t, p) ==
  LET i == At(m, t)
  IN IF i = 0 THEN Append(m, [topic |-> t, payload |-> p])
     ELSE IF p # None /\ m[i].payload = None THEN Append(RemoveAt(m, i), [topic |-> t, payload |-> p])
     ELSE [m EXCEPT ![i].payload = p]
(* client.publish: accepted, to be sent when there is a link again, or lost.    *)
Accept(t, p) ==
  \/ pipe' = Append(pipe, [topic |-> t, payload |-> p])
  \/ ~link /\ UNCHANGED pipe
(* MQTTDispatcher.publish of a retained message: a failure is left to the       *)
(* replay.                                                                      *)
PublishRetained(t, p) ==
  /\ mirror' = MirrorRetained(mirror, t, p)
  /\ IF connected THEN Accept(t, p) ELSE UNCHANGED pipe

(* What comes out of the pipe.                                                  *)
Deliver ==
  /\ link /\ pipe # <<>>
  /\ broker' = [broker EXCEPT ![Head(pipe).topic] = Head(pipe).payload]
  /\ pipe' = Tail(pipe)
  /\ UNCHANGED <<link, mirror, left>> /\ UNCHANGED sessionVars /\ UNCHANGED deviceVars /\ UNCHANGED peerVars

---------------------------------------------------------------------------
(* The device. Each holder of DevicePublisher's lock publishes in turn; a step  *)
(* says which field of the control is set when the message is out.              *)

Put(f, t, p) == [field |-> f, topic |-> t, payload |-> p]
(* Device.set_control_state: a cleared error first, a new one last.             *)
SetState(v, e) ==
  (IF ctl.error # e /\ e = None THEN <<Put("error", "error", None)>> ELSE <<>>)
  \o (IF ctl.value # v THEN <<Put("value", "value", v)>> ELSE <<>>)
  \o (IF ctl.error # e /\ e # None THEN <<Put("error", "error", e)>> ELSE <<>>)
(* Device.set_control_error                                                     *)
SetError(e) == IF ctl.error # e THEN <<Put("error", "error", e)>> ELSE <<>>
(* Device.set_control_title                                                     *)
SetTitle(t) == IF ctl.title # t THEN <<Put("title", "meta", t)>> ELSE <<>>
(* Device.initialize, create_control and _add_control.                          *)
CreateDevice(t, v, e) == <<Put("title", "meta", t), Put("value", "value", v)>> \o (IF e = None THEN <<>> ELSE <<Put("error", "error", e)>>)
(* Device.remove_device, remove_control.                                        *)
RemoveDevice == <<Put("value", "value", None), Put("error", "error", None), Put("title", "meta", None)>>

(* The bus loop, an event, a client or the editor asks for something; the gear  *)
(* does not change while the service is being stopped.                          *)
Update ==
  /\ run = "serving" /\ job = <<>> /\ phase # "stopping"
  /\ Use("updates")
  /\ IF ctl.there
     THEN \/ \E v \in Values, e \in {None, "r"} : job' = SetState(v, e) /\ UNCHANGED ctl
          \/ job' = SetError("r") /\ UNCHANGED ctl
          \/ job' = SetTitle("t2") /\ UNCHANGED ctl
          \/ job' = RemoveDevice /\ ctl' = [ctl EXCEPT !.there = FALSE]
     ELSE \E e \in {None, "r"} :
            job' = CreateDevice("t1", FirstValue, e) /\ ctl' = [Gone EXCEPT !.there = TRUE]
  /\ UNCHANGED <<link, broker, mirror, pipe, run>> /\ UNCHANGED sessionVars /\ UNCHANGED peerVars
(* Device._publish                                                              *)
PublishStep ==
  /\ job # <<>>
  /\ LET s == Head(job)
     IN PublishRetained(s.topic, s.payload) /\ ctl' = [ctl EXCEPT ![s.field] = s.payload]
  /\ job' = Tail(job)
  /\ UNCHANGED <<link, broker, run, left>> /\ UNCHANGED sessionVars /\ UNCHANGED peerVars

(* remove_topics_by_driver, at the start of Gateway.run: it learns what is      *)
(* retained and publishes nothing for each topic of this driver; if the message *)
(* that ends the collection cannot be sent, nothing is removed.                 *)
Clean ==
  /\ run = "cleaning"
  /\ \/ /\ link /\ connected
        /\ job' = IF broker["meta"] = None THEN <<>>
                  ELSE [i \in 1 .. Cardinality({t \in Own : broker[t] # None}) |->
                          Put("clear", SetToSeq({t \in Own : broker[t] # None})[i], None)]
     \/ /\ ~Calm /\ ~(link /\ connected)
        /\ job' = <<>>
  /\ run' = "removing"
  /\ UNCHANGED <<link, broker, mirror, pipe, ctl, left>> /\ UNCHANGED sessionVars /\ UNCHANGED peerVars
CleanStep ==
  /\ run = "removing"
  /\ IF job = <<>> THEN run' = "serving" /\ UNCHANGED <<mirror, pipe, job>>
     ELSE PublishRetained(Head(job).topic, None) /\ job' = Tail(job) /\ UNCHANGED run
  /\ UNCHANGED <<link, broker, ctl, left>> /\ UNCHANGED sessionVars /\ UNCHANGED peerVars

---------------------------------------------------------------------------
(* The sessions.                                                                *)

(* The connection fails; nobody has noticed yet. What was accepted is kept and  *)
(* sent again, or lost. The broker forgets the subscriptions.                   *)
Drop ==
  /\ link /\ Use("drops")
  /\ Calm => run # "cleaning"
  /\ link' = FALSE
  /\ pipe' \in {pipe, <<>>}
  /\ subs' = {} /\ inbox' = <<>>
  /\ UNCHANGED <<broker, mirror, known, cache, late, seen, lock, call>> /\ UNCHANGED sessionVars /\ UNCHANGED deviceVars

(* _serve_connection: the client connects, and connection_restored takes the    *)
(* lock.                                                                        *)
Connect ==
  /\ phase = "off" /\ lock = "free"
  /\ link' = TRUE /\ phase' = "joining" /\ todo' = known /\ lock' = "restore"
  /\ UNCHANGED <<connected, broker, mirror, pipe, replay, known, subs, cache, late, seen, inbox, call, left>> /\ UNCHANGED deviceVars

(* What the broker sends on a subscription to the peer's topic: only this       *)
(* carries the retain flag.                                                     *)
Greeting == IF broker[Peer] = None THEN <<>> ELSE <<[payload |-> broker[Peer], retain |-> TRUE]>>
(* connection_restored, one subscription after another.                         *)
Restore ==
  /\ phase = "joining" /\ link /\ todo # {}
  /\ \E t \in todo : /\ todo' = todo \ {t} /\ subs' = subs \cup {t}
                     /\ inbox' = IF t = Peer THEN Greeting ELSE inbox
                     /\ seen'  = IF t = Peer THEN {broker[Peer]} ELSE seen
  /\ UNCHANGED <<link, phase, connected, broker, mirror, pipe, replay, known, cache, late, lock, call, left>> /\ UNCHANGED deviceVars
(* Connected again; the replay starts beside the message loop. What was heard    *)
(* in an older session counts no more (WBDALIDriver, /meta/error).              *)
Restored ==
  /\ phase = "joining" /\ link /\ todo = {}
  /\ phase' = "on" /\ connected' = TRUE /\ lock' = "free"
  /\ replay' = [i \in DOMAIN mirror |-> mirror[i].topic]
  /\ late' = IF late = Unheard THEN Unheard ELSE None
  /\ UNCHANGED <<link, broker, mirror, pipe, todo, known, subs, cache, seen, inbox, call, left>> /\ UNCHANGED deviceVars
(* replay_retained                                                              *)
Replay ==
  /\ phase = "on" /\ replay # <<>> /\ connected
  /\ Accept(Head(replay), Held(mirror, Head(replay)))
  /\ replay' = Tail(replay)
  /\ UNCHANGED <<link, phase, connected, broker, mirror, todo, left>> /\ UNCHANGED deviceVars /\ UNCHANGED peerVars

(* Seeded fault: the cache outlives the session.                                *)
LostKeepsCache ==
  /\ ~link /\ phase = "on"
  /\ connected' = FALSE /\ replay' = <<>> /\ phase' = "off"
  /\ UNCHANGED <<link, broker, mirror, pipe, todo, known, subs, cache, late, seen, inbox, lock, call, left>> /\ UNCHANGED deviceVars
(* The session ends with the link: its tasks are cancelled, connection_lost.    *)
Lost ==
  /\ ~link /\ phase = "on"
  /\ connected' = FALSE /\ replay' = <<>> /\ phase' = "off" /\ cache' = None
  /\ UNCHANGED <<link, broker, mirror, pipe, todo, known, subs, late, seen, inbox, lock, call, left>> /\ UNCHANGED deviceVars
(* Seeded fault: the lock is not given back.                                    *)
NotJoinedKeepsLock ==
  /\ ~link /\ phase = "joining"
  /\ phase' = "off" /\ todo' = {}
  /\ UNCHANGED <<link, connected, broker, mirror, pipe, replay, known, subs, cache, late, seen, inbox, lock, call, left>> /\ UNCHANGED deviceVars
(* The link fails before the session has begun: the dispatcher stays as it was. *)
NotJoined ==
  /\ ~link /\ phase = "joining"
  /\ phase' = "off" /\ todo' = {} /\ lock' = "free"
  /\ UNCHANGED <<link, connected, broker, mirror, pipe, replay, known, subs, cache, late, seen, inbox, call, left>> /\ UNCHANGED deviceVars

(* What an earlier life left is found by its meta.                              *)
Findable == broker["meta"] = None => \A t \in Own : broker[t] = None
(* A stop request: with a link the device is removed, without one the topics    *)
(* stay; the next start cleans the broker. Or the process dies.                 *)
Stop ==
  /\ left["runs"] > 0 /\ run = "serving" /\ job = <<>>
  /\ \/ /\ phase = "on" /\ (Calm => link /\ replay = <<>> /\ pipe = <<>>)
        /\ phase' = "stopping" /\ job' = IF ctl.there THEN RemoveDevice ELSE <<>>
     \/ /\ phase = "off" /\ (Calm => Findable)
        /\ phase' = "ended" /\ UNCHANGED job
  /\ replay' = <<>>
  /\ UNCHANGED <<link, connected, broker, mirror, pipe, todo, ctl, run, left>> /\ UNCHANGED peerVars
Stopped ==
  /\ phase = "stopping" /\ job = <<>> /\ (link => pipe = <<>>)
  /\ phase' = "ended"
  /\ UNCHANGED <<link, connected, broker, mirror, pipe, replay, todo, left>> /\ UNCHANGED deviceVars /\ UNCHANGED peerVars
Crash ==
  /\ left["runs"] > 0 /\ phase \notin {"ended", "stopping"}
  /\ Calm => phase = "on" /\ link /\ replay = <<>> /\ pipe = <<>> /\ run = "serving"
  /\ phase' = "ended"
  /\ UNCHANGED <<link, connected, broker, mirror, pipe, replay, todo, left>> /\ UNCHANGED deviceVars /\ UNCHANGED peerVars
(* systemd starts the service again.                                            *)
Start ==
  /\ phase = "ended" /\ Use("runs")
  /\ phase' = "off" /\ link' = FALSE /\ connected' = TRUE
  /\ mirror' = <<>> /\ pipe' = <<>> /\ replay' = <<>> /\ todo' = {}
  /\ known' = {Peer} /\ subs' = {} /\ cache' = None /\ late' = Unheard /\ seen' = {} /\ inbox' = <<>> /\ lock' = "free"
  /\ ctl' = Gone /\ job' = <<>> /\ run' = "waiting" /\ call' = "idle"
  /\ UNCHANGED broker
(* Gateway.run begins in the first session.                                     *)
RunGateway ==
  /\ phase = "on" /\ run = "waiting" /\ run' = "cleaning"
  /\ UNCHANGED <<link, broker, mirror, pipe, ctl, job, left>> /\ UNCHANGED sessionVars /\ UNCHANGED peerVars

---------------------------------------------------------------------------
(* Subscriptions.                                                               *)

(* The peer announces or withdraws its endpoint.                                *)
PeerPublish ==
  /\ Use("calls")
  /\ \E p \in {None, "here"} :
       /\ broker' = [broker EXCEPT ![Peer] = p]
       /\ seen' = seen \cup {p}
       /\ inbox' = IF Peer \in subs THEN Append(inbox, [payload |-> p, retain |-> FALSE]) ELSE inbox
  /\ UNCHANGED <<link, mirror, pipe, known, subs, cache, late, lock, call>> /\ UNCHANGED sessionVars /\ UNCHANGED deviceVars
(* _dispatch_message: every callback of the topic is called, but only what comes *)
(* with a subscription is kept.                                                 *)
Receive ==
  /\ phase = "on" /\ inbox # <<>>
  /\ cache' = (IF Head(inbox).retain THEN Head(inbox).payload ELSE cache) /\ inbox' = Tail(inbox)
  /\ late' = IF late = Unheard THEN Unheard ELSE Head(inbox).payload
  /\ UNCHANGED <<link, broker, mirror, pipe, known, subs, seen, lock, call, left>> /\ UNCHANGED sessionVars /\ UNCHANGED deviceVars

(* MQTTDispatcher.subscribe: while the broker is away it is left to             *)
(* connection_restored.                                                         *)
Subscribe(t) ==
  /\ known' = known \cup {t}
  /\ subs' = IF connected /\ link THEN subs \cup {t} ELSE subs
(* A second callback for a topic that is subscribed to: the broker is not asked, *)
(* the callback is given what the cache holds.                                  *)
SubscribeAgain ==
  /\ SecondSubscriber /\ late = Unheard /\ run = "serving" /\ phase \in {"on", "off"} /\ lock = "free"
  /\ late' = cache
  /\ UNCHANGED <<link, broker, mirror, pipe, known, subs, cache, seen, inbox, lock, call, left>> /\ UNCHANGED sessionVars /\ UNCHANGED deviceVars
(* MQTTDispatcher.unsubscribe                                                   *)
Unsubscribe(t) ==
  /\ known' = known \ {t}
  /\ subs' = IF connected /\ link THEN subs \ {t} ELSE subs
(* rpc_call: the reply is subscribed to, then the request is published.         *)
CallStart ==
  /\ call = "idle" /\ lock = "free" /\ run = "serving" /\ phase \in {"on", "off"} /\ Use("calls")
  /\ Subscribe(RpcReply) /\ lock' = "call" /\ call' = "subscribed"
  /\ UNCHANGED <<link, broker, mirror, pipe, cache, late, seen, inbox>> /\ UNCHANGED sessionVars /\ UNCHANGED deviceVars
CallRelease ==
  /\ lock = "call" /\ lock' = "free"
  /\ UNCHANGED <<link, broker, mirror, pipe, known, subs, cache, late, seen, inbox, call, left>> /\ UNCHANGED sessionVars /\ UNCHANGED deviceVars
(* A request that cannot be sent fails at once, one that can be is answered or  *)
(* times out.                                                                   *)
CallRequest ==
  /\ call = "subscribed" /\ lock = "free"
  /\ call' = "ending"
  /\ UNCHANGED <<link, broker, mirror, pipe, known, subs, cache, late, seen, inbox, lock, left>> /\ UNCHANGED sessionVars /\ UNCHANGED deviceVars
(* Seeded fault: a call that failed does not give its subscription up.          *)
CallEndLeaks ==
  /\ call = "ending" /\ lock = "free"
  /\ IF connected THEN Unsubscribe(RpcReply) ELSE UNCHANGED <<known, subs>>
  /\ lock' = "call" /\ call' = "idle"
  /\ UNCHANGED <<link, broker, mirror, pipe, cache, late, seen, inbox, left>> /\ UNCHANGED sessionVars /\ UNCHANGED deviceVars
CallEnd ==
  /\ call = "ending" /\ lock = "free"
  /\ Unsubscribe(RpcReply) /\ lock' = "call" /\ call' = "idle"
  /\ UNCHANGED <<link, broker, mirror, pipe, cache, late, seen, inbox, left>> /\ UNCHANGED sessionVars /\ UNCHANGED deviceVars

---------------------------------------------------------------------------
Init ==
  /\ link = FALSE /\ phase = "off" /\ connected = TRUE
  /\ broker = [t \in Topics |-> IF t = Peer THEN "here" ELSE None]
  /\ mirror = <<>> /\ pipe = <<>> /\ replay = <<>> /\ todo = {}
  /\ known = {Peer} /\ subs = {} /\ cache = None /\ late = Unheard /\ seen = {} /\ inbox = <<>> /\ lock = "free"
  /\ ctl = Gone /\ job = <<>> /\ run = "waiting" /\ call = "idle"
  /\ left = [drops |-> MaxDrops, updates |-> MaxUpdates, calls |-> MaxCalls, runs |-> MaxRuns - 1]

Session == Connect \/ Restore \/ Restored \/ Replay \/ Lost \/ NotJoined \/ RunGateway \/ Stopped
Service == Deliver \/ PublishStep \/ Clean \/ CleanStep \/ Receive \/ CallRelease \/ CallRequest \/ CallEnd
World   == Update \/ Drop \/ Stop \/ Crash \/ PeerPublish \/ CallStart \/ SubscribeAgain
Next == Start \/ (phase # "ended" /\ (Session \/ Service \/ World))

Spec == Init /\ [][Next]_vars /\ WF_vars(Start) /\ WF_vars(phase # "ended" /\ Session) /\ WF_vars(phase # "ended" /\ Service)

---------------------------------------------------------------------------
(* The shape of the state.                                                      *)
TypeOK ==
  /\ phase \in {"off", "joining", "on", "stopping", "ended"} /\ run \in {"waiting", "cleaning", "removing", "serving"}
  /\ todo \subseteq known /\ subs \subseteq {Peer, RpcReply} /\ known \subseteq {Peer, RpcReply}
  /\ \A t \in Topics : Cardinality({i \in DOMAIN mirror : mirror[i].topic = t}) <= 1

Settled == phase = "on" /\ link /\ replay = <<>> /\ pipe = <<>> /\ job = <<>> /\ run = "serving"

(* When a session has settled, the broker shows the device as it is, or nothing *)
(* of it: whatever was published, cleared or created during an outage, beside   *)
(* the replay, or left behind by a service that died or stopped without a link. *)
BrokerShowsDevice ==
  Settled => /\ broker["meta"] = ctl.title /\ broker["value"] = ctl.value /\ broker["error"] = ctl.error
             /\ ~ctl.there => \A t \in Own : broker[t] = None

(* In a session, with nobody in the middle of a subscription, the broker knows  *)
(* exactly the dispatcher's subscriptions, and no reply of a call that is over  *)
(* is among them.                                                               *)
SubscriptionsMatch ==
  phase = "on" /\ link /\ lock = "free" => subs = known /\ (call = "idle" => RpcReply \notin known)

(* Whoever subscribes to a topic later than others hears what was retained there *)
(* in this session, never what was withdrawn during an outage. (connection_lost: *)
(* "the cache must not outlive the session".)                                   *)
LateHearsSession ==
  phase = "on" /\ link /\ late # Unheard => late \in seen \cup {None}

(* ... and, once it has heard everything, knows what is retained now.            *)
(* (tests/test_mqtt_dispatcher_retained.py: "every callback on the same topic   *)
(* sees the latest retained payload regardless of subscribe order". The code    *)
(* does not keep this: README, section 3.)                                      *)
LateHearsLatest ==
  phase = "on" /\ link /\ inbox = <<>> /\ late # Unheard => late = broker[Peer]

(* The service gets back to a settled session after the last outage, crash or   *)
(* update, whatever was lost on the way, unless it has been told to stop.       *)
Recovers == <>[](Settled \/ phase = "ended")

=============================================================================

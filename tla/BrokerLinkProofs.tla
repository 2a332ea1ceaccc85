--------------------------- MODULE BrokerLinkProofs ---------------------------
(* BrokerLink for any values and any number of outages, restarts and calls: the *)
(* broker's subscriptions are the dispatcher's, and the broker shows the device *)
(* as it is.                                                                    *)
EXTENDS BrokerLink, TLAPS, SequenceTheorems, FiniteSetTheorems

---------------------------------------------------------------------------
(* The subscriptions.                                                           *)

(* Where the subscriptions of a session stand. While they are restored the lock *)
(* keeps calls out; without a link the broker's session has none.               *)
SessionInv ==
  /\ phase = "on" => connected
  /\ phase = "off" => ~link
  /\ ~link => subs = {}
  /\ phase = "joining" => lock = "restore" /\ (link => subs \cup todo = known)
  /\ phase = "on" /\ link => subs = known
  /\ call = "idle" => RpcReply \notin known

(* What SessionInv is about.                                                    *)
sessionState == <<phase, link, connected, subs, known, todo, lock, call>>

LEMMA SessionKept ==
  ASSUME SessionInv, UNCHANGED sessionState
  PROVE  SessionInv'
  BY DEF SessionInv, sessionState

(* The session loop.                                                            *)
LEMMA SessionStep ==
  ASSUME SessionInv, Session
  PROVE  SessionInv'
<1>1. CASE Connect
  BY <1>1 DEF Connect, SessionInv
<1>2. CASE Restore
  BY <1>2 DEF Restore, SessionInv
<1>3. CASE Restored
  BY <1>3 DEF Restored, SessionInv
<1>4. CASE Replay
  BY <1>4, SessionKept DEF Replay, peerVars, sessionState
<1>5. CASE Lost
  BY <1>5 DEF Lost, SessionInv
<1>6. CASE NotJoined
  BY <1>6 DEF NotJoined, SessionInv
<1>7. CASE RunGateway
  BY <1>7, SessionKept DEF RunGateway, sessionVars, peerVars, sessionState
<1>8. CASE Stopped
  BY <1>8 DEF Stopped, peerVars, SessionInv
<1> QED BY <1>1, <1>2, <1>3, <1>4, <1>5, <1>6, <1>7, <1>8 DEF Session

(* Deliveries, the device and the calls.                                        *)
LEMMA ServiceStep ==
  ASSUME SessionInv, Service
  PROVE  SessionInv'
<1>1. CASE Deliver \/ PublishStep \/ Clean \/ CleanStep \/ Receive
  <2>1. UNCHANGED sessionState
    BY <1>1 DEF Deliver, PublishStep, Clean, CleanStep, Receive, sessionVars, peerVars, sessionState
  <2> QED BY <2>1, SessionKept
<1>2. CASE CallRelease
  BY <1>2 DEF CallRelease, sessionVars, SessionInv
<1>3. CASE CallRequest
  BY <1>3 DEF CallRequest, sessionVars, SessionInv
<1>4. CASE CallEnd
  BY <1>4 DEF CallEnd, Unsubscribe, sessionVars, SessionInv
<1> QED BY <1>1, <1>2, <1>3, <1>4 DEF Service

(* Outages, requests to stop, crashes, and what others ask for.                 *)
LEMMA WorldStep ==
  ASSUME SessionInv, World
  PROVE  SessionInv'
<1>1. CASE Update
  BY <1>1, SessionKept DEF Update, sessionVars, peerVars, sessionState
<1>2. CASE Drop
  BY <1>2 DEF Drop, sessionVars, SessionInv
<1>3. CASE Stop \/ Crash
  BY <1>3 DEF Stop, Crash, peerVars, SessionInv
<1>4. CASE PeerPublish
  BY <1>4, SessionKept DEF PeerPublish, sessionVars, sessionState
<1>5. CASE CallStart
  BY <1>5 DEF CallStart, Subscribe, sessionVars, SessionInv
<1>6. CASE SubscribeAgain
  BY <1>6, SessionKept DEF SubscribeAgain, sessionVars, sessionState
<1> QED BY <1>1, <1>2, <1>3, <1>4, <1>5, <1>6 DEF World

(* Every step.                                                                  *)
LEMMA SessionStepped ==
  ASSUME SessionInv, [Next]_vars
  PROVE  SessionInv'
<1>1. CASE UNCHANGED vars
  BY <1>1, SessionKept DEF vars, sessionState
<1>2. CASE Start
  BY <1>2 DEF Start, SessionInv, Peer, RpcReply
<1>3. CASE Session \/ Service \/ World
  BY <1>3, SessionStep, ServiceStep, WorldStep
<1> QED BY <1>1, <1>2, <1>3 DEF Next

(* In a session, with nobody in the middle of a subscription, the broker knows  *)
(* exactly the dispatcher's subscriptions and none of a call that is over,      *)
(* however outages, restarts, calls and the restoring of subscriptions          *)
(* interleave.                                                                  *)
THEOREM LinkSubscriptionsMatch == Spec => []SubscriptionsMatch
<1>1. Init => SessionInv
  BY DEF Init, SessionInv, Peer, RpcReply
<1>2. SessionInv /\ [Next]_vars => SessionInv'
  BY SessionStepped
<1>3. SessionInv => SubscriptionsMatch
  BY DEF SessionInv, SubscriptionsMatch
<1> QED BY <1>1, <1>2, <1>3, PTL DEF Spec

---------------------------------------------------------------------------
(* The retained messages.                                                       *)

(* What is published.                                                           *)
Payloads == Values \cup {None, "r", "t1", "t2"}
Messages == [topic : Own, payload : Payloads]

(* A topic has one place in the mirror.                                         *)
Unique(m) == \A i, j \in DOMAIN m : m[i].topic = m[j].topic => i = j

(* SelectInSeq finds it.                                                        *)
LEMMA AtIs ==
  ASSUME NEW m \in Seq(Messages), Unique(m), NEW t
  PROVE  \/ At(m, t) = 0 /\ \A i \in DOMAIN m : m[i].topic # t
         \/ At(m, t) \in DOMAIN m /\ m[At(m, t)].topic = t
<1> DEFINE I == {i \in 1 .. Len(m) : m[i].topic = t}
<1>1. DOMAIN m = 1 .. Len(m)
  OBVIOUS
<1>2. At(m, t) = IF I # {} THEN Min(I) ELSE 0
  BY DEF At, SelectInSeq
<1>3. CASE I = {}
  BY <1>1, <1>2, <1>3
<1>4. CASE I # {}
  <2>1. PICK i \in I : TRUE
    BY <1>4
  <2>2. I = {i}
    BY <1>1, <2>1 DEF Unique
  <2>3. Min(I) = i
    <3>1. i <= i
      BY <2>1
    <3> QED BY <2>2, <3>1 DEF Min
  <2> QED BY <1>1, <1>2, <1>4, <2>1, <2>3
<1> QED BY <1>3, <1>4

(* What replay_retained takes for a topic.                                      *)
LEMMA HeldIs ==
  ASSUME NEW m \in Seq(Messages), Unique(m)
  PROVE  /\ \A i \in DOMAIN m : Held(m, m[i].topic) = m[i].payload
         /\ \A t : (\A i \in DOMAIN m : m[i].topic # t) => Held(m, t) = None
<1>1. ASSUME NEW i \in DOMAIN m PROVE Held(m, m[i].topic) = m[i].payload
  <2> DEFINE t == m[i].topic
  <2>1. At(m, t) = i
    BY AtIs DEF Unique
  <2>2. i # 0
    OBVIOUS
  <2> QED BY <2>1, <2>2 DEF Held
<1>2. ASSUME NEW t, \A i \in DOMAIN m : m[i].topic # t PROVE Held(m, t) = None
  BY <1>2, AtIs DEF Held
<1> QED BY <1>1, <1>2

(* Dropping an element keeps the others, each with its topic.                   *)
LEMMA RemovedIs ==
  ASSUME NEW m \in Seq(Messages), NEW k \in DOMAIN m
  PROVE  /\ RemoveAt(m, k) \in Seq(Messages)
         /\ Len(RemoveAt(m, k)) = Len(m) - 1
         /\ \A i \in 1 .. Len(m) - 1 : RemoveAt(m, k)[i] = IF i < k THEN m[i] ELSE m[i + 1]
<1> DEFINE a == SubSeq(m, 1, k - 1)
           b == SubSeq(m, k + 1, Len(m))
           r == a \o b
<1>1. Len(m) \in Nat /\ k \in Nat /\ k >= 1 /\ k <= Len(m)
  OBVIOUS
<1>2. a \in Seq(Messages) /\ Len(a) = k - 1 /\ \A i \in 1 .. k - 1 : a[i] = m[i]
  BY <1>1
<1>3. b \in Seq(Messages) /\ Len(b) = Len(m) - k /\ \A i \in 1 .. Len(m) - k : b[i] = m[k + i]
  BY <1>1
<1> HIDE DEF a, b
<1>4. r \in Seq(Messages) /\ Len(r) = Len(a) + Len(b)
  BY <1>2, <1>3, ConcatProperties, Zenon
<1>5. \A i \in 1 .. Len(a) + Len(b) : r[i] = IF i <= Len(a) THEN a[i] ELSE b[i - Len(a)]
  BY <1>2, <1>3, ConcatProperties, Zenon
<1> HIDE DEF r
<1>6. ASSUME NEW i \in 1 .. Len(m) - 1 PROVE r[i] = IF i < k THEN m[i] ELSE m[i + 1]
  <2>1. CASE i < k
    <3>1. i \in 1 .. k - 1 /\ i <= Len(a) /\ i \in 1 .. Len(a) + Len(b)
      BY <1>1, <1>2, <1>3, <2>1
    <3>2. r[i] = a[i]
      BY <1>5, <3>1
    <3> QED BY <1>2, <2>1, <3>1, <3>2
  <2>2. CASE ~(i < k)
    <3>1. i - Len(a) \in 1 .. Len(m) - k /\ k + (i - Len(a)) = i + 1 /\ ~(i <= Len(a)) /\ i \in 1 .. Len(a) + Len(b)
      BY <1>1, <1>2, <1>3, <2>2
    <3>2. r[i] = b[i - Len(a)]
      BY <1>5, <3>1
    <3> QED BY <1>3, <2>2, <3>1, <3>2
  <2> QED BY <2>1, <2>2
<1>7. RemoveAt(m, k) = r
  BY DEF RemoveAt, r, a, b
<1>8. Len(r) = Len(m) - 1
  BY <1>1, <1>2, <1>3, <1>4
<1> QED BY <1>4, <1>6, <1>7, <1>8

TopicsOf(m) == {m[i].topic : i \in DOMAIN m}

(* _mirror_retained: the message is held, the others are as they were.          *)
LEMMA MirrorRetainedIs ==
  ASSUME NEW m \in Seq(Messages), Unique(m), NEW t \in Own, NEW p \in Payloads
  PROVE  LET n == MirrorRetained(m, t, p)
         IN /\ n \in Seq(Messages) /\ Unique(n)
            /\ TopicsOf(n) = TopicsOf(m) \cup {t}
            /\ \A u \in Own : Held(n, u) = IF u = t THEN p ELSE Held(m, u)
<1> DEFINE n == MirrorRetained(m, t, p)
           e == [topic |-> t, payload |-> p]
<1>1. e \in Messages /\ e.topic = t /\ e.payload = p
  BY DEF Messages
<1>2. Len(m) \in Nat /\ DOMAIN m = 1 .. Len(m) /\ \A i \in DOMAIN m : m[i] \in Messages
  OBVIOUS
<1> HIDE DEF e
(* It is enough to say where each message of the new mirror comes from.         *)
<1>3. ASSUME n \in Seq(Messages), Unique(n),
             \E j \in DOMAIN n : n[j].topic = t /\ n[j].payload = p,
             \A j \in DOMAIN n : n[j].topic # t => \E i \in DOMAIN m : n[j] = m[i],
             \A i \in DOMAIN m : m[i].topic # t => \E j \in DOMAIN n : n[j] = m[i]
      PROVE  TopicsOf(n) = TopicsOf(m) \cup {t} /\ \A u \in Own : Held(n, u) = IF u = t THEN p ELSE Held(m, u)
  <2> HIDE DEF n
  <2>1. TopicsOf(n) = TopicsOf(m) \cup {t}
    BY <1>3 DEF TopicsOf
  <2>2. Held(n, t) = p
    BY <1>3, HeldIs
  <2>3. ASSUME NEW u \in Own, u # t PROVE Held(n, u) = Held(m, u)
    <3>1. CASE \E i \in DOMAIN m : m[i].topic = u
      <4>1. PICK i \in DOMAIN m : m[i].topic = u
        BY <3>1
      <4>2. PICK j \in DOMAIN n : n[j] = m[i]
        BY <1>3, <2>3, <4>1
      <4> QED BY <1>3, <4>1, <4>2, HeldIs
    <3>2. CASE \A i \in DOMAIN m : m[i].topic # u
      <4>1. \A j \in DOMAIN n : n[j].topic # u
        BY <1>3, <2>3, <3>2
      <4> QED BY <1>3, <3>2, <4>1, HeldIs
    <3> QED BY <3>1, <3>2
  <2> QED BY <2>1, <2>2, <2>3
<1> DEFINE i0 == At(m, t)
<1>4. n = IF i0 = 0 THEN Append(m, e)
          ELSE IF p # None /\ m[i0].payload = None THEN Append(RemoveAt(m, i0), e)
          ELSE [m EXCEPT ![i0].payload = p]
  BY DEF MirrorRetained, e
<1>5. \/ i0 = 0 /\ \A i \in DOMAIN m : m[i].topic # t
      \/ i0 \in DOMAIN m /\ m[i0].topic = t
  BY AtIs
<1> HIDE DEF n, i0
<1>6. CASE i0 = 0
  <2>1. n = Append(m, e) /\ \A i \in DOMAIN m : m[i].topic # t
    BY <1>2, <1>4, <1>5, <1>6
  <2>2. n \in Seq(Messages) /\ Len(n) = Len(m) + 1 /\ DOMAIN n = 1 .. Len(m) + 1
    BY <1>1, <2>1
  <2>3. n[Len(m) + 1] = e /\ \A i \in DOMAIN m : n[i] = m[i] /\ i \in DOMAIN n
    BY <1>1, <1>2, <2>1, <2>2
  <2>4. \A j \in DOMAIN n : j \in DOMAIN m \/ j = Len(m) + 1
    BY <1>2, <2>2
  <2>5. Unique(n)
    BY <1>1, <2>1, <2>3, <2>4 DEF Unique
  <2>6. \E j \in DOMAIN n : n[j].topic = t /\ n[j].payload = p
    BY <1>1, <1>2, <2>2, <2>3
  <2>7. \A j \in DOMAIN n : n[j].topic # t => \E i \in DOMAIN m : n[j] = m[i]
    BY <1>1, <2>3, <2>4
  <2> QED BY <1>3, <2>2, <2>3, <2>5, <2>6, <2>7 DEF n
<1>7. CASE i0 # 0 /\ p # None /\ m[i0].payload = None
  <2> DEFINE r == RemoveAt(m, i0)
  <2>1. i0 \in DOMAIN m /\ m[i0].topic = t /\ n = Append(r, e)
    BY <1>2, <1>4, <1>5, <1>7
  <2>2. /\ r \in Seq(Messages) /\ Len(r) = Len(m) - 1
        /\ \A i \in 1 .. Len(m) - 1 : r[i] = IF i < i0 THEN m[i] ELSE m[i + 1]
    BY <2>1, RemovedIs
  <2> HIDE DEF r
  <2>0. i0 \in Nat /\ 1 <= i0 /\ i0 <= Len(m) /\ Len(m) \in Nat
    BY <1>2, <2>1
  <2>3. n \in Seq(Messages) /\ Len(n) = Len(m) /\ DOMAIN n = 1 .. Len(m)
    <3>1. n \in Seq(Messages) /\ Len(n) = Len(r) + 1 /\ DOMAIN n = 1 .. Len(n)
      BY <1>1, <2>1, <2>2
    <3> QED BY <2>0, <2>2, <3>1
  <2>4. n[Len(m)] = e /\ \A i \in 1 .. Len(m) - 1 : n[i] = IF i < i0 THEN m[i] ELSE m[i + 1]
    <3>1. Len(r) + 1 = Len(m) /\ \A i \in 1 .. Len(m) - 1 : i \in 1 .. Len(r)
      BY <2>0, <2>2
    <3>2. n[Len(r) + 1] = e /\ \A i \in 1 .. Len(r) : n[i] = r[i]
      BY <1>1, <2>1, <2>2
    <3> QED BY <2>2, <3>1, <3>2
  <2>5. ASSUME NEW i \in 1 .. Len(m) - 1 PROVE n[i].topic # t
    <3>1. i \in DOMAIN m /\ i + 1 \in DOMAIN m
      BY <1>2, <2>0
    <3>2. \A j \in DOMAIN m : m[j].topic = t => j = i0
      BY <2>1 DEF Unique
    <3>3. CASE i < i0
      BY <2>0, <2>4, <3>1, <3>2, <3>3
    <3>4. CASE ~(i < i0)
      BY <2>0, <2>4, <3>1, <3>2, <3>4
    <3> QED BY <3>3, <3>4
  <2>6. Unique(n)
    <3> SUFFICES ASSUME NEW i \in DOMAIN n, NEW j \in DOMAIN n, n[i].topic = n[j].topic PROVE i = j
      BY DEF Unique
    <3>1. CASE i = Len(m) \/ j = Len(m)
      BY <1>1, <1>2, <2>3, <2>4, <2>5, <3>1
    <3>2. CASE i # Len(m) /\ j # Len(m)
      <4>1. i \in 1 .. Len(m) - 1 /\ j \in 1 .. Len(m) - 1
        BY <1>2, <2>3, <3>2
      <4> DEFINE a == IF i < i0 THEN i ELSE i + 1
                 b == IF j < i0 THEN j ELSE j + 1
      <4>2. a \in DOMAIN m /\ b \in DOMAIN m /\ n[i] = m[a] /\ n[j] = m[b]
        BY <1>2, <2>4, <4>1
      <4>3. a = b
        BY <4>2 DEF Unique
      <4> QED BY <1>2, <2>1, <4>1, <4>3
    <3> QED BY <3>1, <3>2
  <2>7. \E j \in DOMAIN n : n[j].topic = t /\ n[j].payload = p
    BY <1>1, <2>0, <2>3, <2>4
  <2>8. ASSUME NEW j \in DOMAIN n, n[j].topic # t PROVE \E i \in DOMAIN m : n[j] = m[i]
    <3>1. j \in 1 .. Len(m) - 1
      BY <1>1, <1>2, <2>3, <2>4, <2>8
    <3>2. j \in DOMAIN m /\ j + 1 \in DOMAIN m
      BY <1>2, <3>1
    <3> QED BY <2>4, <3>1, <3>2
  <2>9. ASSUME NEW i \in DOMAIN m, m[i].topic # t PROVE \E j \in DOMAIN n : n[j] = m[i]
    <3>1. i # i0
      BY <2>1, <2>9
    <3>2. CASE i < i0
      <4>1. i \in 1 .. Len(m) - 1 /\ i \in DOMAIN n
        BY <1>2, <2>0, <2>3, <3>2
      <4> QED BY <2>4, <3>2, <4>1
    <3>3. CASE ~(i < i0)
      <4>1. i - 1 \in 1 .. Len(m) - 1 /\ i - 1 \in DOMAIN n /\ ~(i - 1 < i0) /\ i - 1 + 1 = i
        BY <1>2, <2>0, <2>3, <3>1, <3>3
      <4>2. n[i - 1] = m[i]
        BY <2>4, <4>1
      <4> QED BY <4>1, <4>2
    <3> QED BY <3>2, <3>3
  <2> QED BY <1>3, <2>3, <2>6, <2>7, <2>8, <2>9 DEF n
<1>8. CASE i0 # 0 /\ ~(p # None /\ m[i0].payload = None)
  <2>1. i0 \in DOMAIN m /\ m[i0].topic = t /\ n = [m EXCEPT ![i0].payload = p]
    BY <1>2, <1>4, <1>5, <1>8
  <2>2. DOMAIN n = DOMAIN m /\ n[i0] = e /\ \A i \in DOMAIN m : i # i0 => n[i] = m[i]
    BY <1>2, <2>1 DEF Messages, e
  <2>3. n \in Seq(Messages)
    <3>1. \A i \in DOMAIN m : n[i] \in Messages
      BY <1>1, <1>2, <2>2
    <3>2. n = [i \in 1 .. Len(m) |-> n[i]]
      BY <1>2, <2>1, <2>2
    <3> QED BY <1>2, <3>1, <3>2
  <2>4. Unique(n)
    BY <1>1, <2>1, <2>2 DEF Unique
  <2> QED BY <1>1, <1>3, <2>1, <2>2, <2>3, <2>4 DEF n
<1> QED BY <1>6, <1>7, <1>8

---------------------------------------------------------------------------
(* The invariant: the mirror is the control, and the broker has been told of    *)
(* every topic in the mirror or is about to be.                                 *)

FieldOf == [t \in Own |-> IF t = "meta" THEN "title" ELSE t]
Puts    == [field : {"title", "value", "error", "clear"}, topic : Own, payload : Payloads]
ShapeInv ==
  /\ mirror \in Seq(Messages) /\ Unique(mirror)
  /\ pipe \in Seq(Messages)
  /\ replay \in Seq(Own)
  /\ broker \in [Topics -> Payloads \cup {"here"}]
  /\ ctl \in [there : BOOLEAN, title : Payloads, value : Payloads, error : Payloads]
  /\ job \in Seq(Puts)
  /\ run \in {"waiting", "cleaning", "removing", "serving"}

(* The mirror is the control; only what is mirrored is on its way.              *)
MirrorInv ==
  /\ \A t \in Own : Held(mirror, t) = ctl[FieldOf[t]]
  /\ \A i \in DOMAIN pipe : pipe[i].topic \in TopicsOf(mirror)
  /\ \A i \in DOMAIN replay : replay[i] \in TopicsOf(mirror)

(* What the holder of the publisher's lock has left: the end of the removal of  *)
(* the device, whose meta goes last; or the update of a device that is there,   *)
(* whose meta comes first.                                                      *)
ClearValue == Put("value", "value", None)
ClearError == Put("error", "error", None)
ClearMeta  == Put("title", "meta", None)
Removing ==
  \/ job = <<ClearValue, ClearError, ClearMeta>>
  \/ job = <<ClearError, ClearMeta>> /\ ctl.value = None
  \/ job = <<ClearMeta>> /\ ctl.value = None /\ ctl.error = None
Absent == ~ctl.there /\ job = <<>> /\ ctl.title = None
Showing ==
  /\ ctl.there
  /\ \A i \in DOMAIN job : job[i].field = "title" => i = 1 /\ job[i].payload # None
  /\ ctl.title = None => job # <<>> /\ job[1].field = "title"
JobInv ==
  /\ ctl.title = None => ctl.value = None /\ ctl.error = None
  /\ run \in {"waiting", "cleaning"} => job = <<>> /\ mirror = <<>> /\ pipe = <<>> /\ replay = <<>>
  /\ run # "serving" => ctl = Gone /\ phase # "stopping"
  /\ run = "removing" => \A i \in DOMAIN job : job[i].field = "clear" /\ job[i].payload = None
  /\ run = "serving" => \A i \in DOMAIN job : job[i].field = FieldOf[job[i].topic]
  /\ run = "serving" /\ phase \notin {"stopping", "ended"} => (Removing /\ ~ctl.there) \/ Absent \/ Showing
  /\ phase = "stopping" => Removing \/ job = <<>>

(* The last word about t among what the broker has and what is on its way.      *)
Told(b, q, t, p) ==
  \/ b[t] = p /\ \A i \in DOMAIN q : q[i].topic # t
  \/ \E i \in DOMAIN q : /\ q[i].topic = t /\ q[i].payload = p
                         /\ \A j \in DOMAIN q : q[j].topic = t => j <= i
(* A topic that is not mirrored is empty or about to be cleared; in a session a *)
(* mirrored one is told, or its replay is still to come.                        *)
BrokerInv ==
  /\ run = "serving" => \A t \in Own \ TopicsOf(mirror) : broker[t] = None
  /\ run = "removing" =>
       \A t \in Own \ TopicsOf(mirror) : broker[t] = None \/ \E i \in DOMAIN job : job[i].topic = t
  /\ phase = "on" /\ link =>
       \A t \in TopicsOf(mirror) : Told(broker, pipe, t, Held(mirror, t)) \/ \E i \in DOMAIN replay : replay[i] = t

(* What one life leaves the next one finds: a stop clears the meta last.        *)
Cleared(t) == broker[t] = None \/ \E i \in DOMAIN pipe : pipe[i].topic = t
StopInv ==
  /\ phase \in {"stopping", "ended"} \/ run \in {"waiting", "cleaning"} => Findable
  /\ phase = "stopping" => connected
  /\ phase = "stopping" /\ link =>
       /\ \A i \in DOMAIN pipe : pipe[i].payload = None
       /\ \A i \in DOMAIN pipe : pipe[i].topic = "meta" =>
            \A t \in Own \ {"meta"} : broker[t] = None \/ \E j \in DOMAIN pipe : j < i /\ pipe[j].topic = t
       /\ job \in {<<ClearError, ClearMeta>>, <<ClearMeta>>} => Cleared("value")
       /\ job = <<ClearMeta>> => Cleared("error")

ShowInv == ShapeInv /\ MirrorInv /\ JobInv /\ BrokerInv /\ StopInv

(* What ShowInv is about.                                                       *)
showState == <<link, phase, connected, broker, mirror, pipe, replay, ctl, job, run>>

(* Steps that leave it alone.                                                   *)
LEMMA ShowKept ==
  ASSUME ShowInv, UNCHANGED showState
  PROVE  ShowInv'
<1>1. ShapeInv'
  BY DEF ShowInv, ShapeInv, showState
<1>2. MirrorInv'
  BY DEF ShowInv, MirrorInv, showState
<1>3. JobInv'
  BY DEF ShowInv, JobInv, Removing, Absent, Showing, showState
<1>4. BrokerInv'
  BY DEF ShowInv, BrokerInv, showState
<1>5. StopInv'
  BY DEF ShowInv, StopInv, Findable, Cleared, showState
<1> QED BY <1>1, <1>2, <1>3, <1>4, <1>5 DEF ShowInv

(* A message accepted is the last word about its topic and about no other.      *)
LEMMA ToldNow ==
  ASSUME NEW b, NEW q \in Seq(Messages), NEW t \in Own, NEW p \in Payloads
  PROVE  LET r == Append(q, [topic |-> t, payload |-> p])
         IN /\ r \in Seq(Messages)
            /\ Told(b, r, t, p)
            /\ \A u, x : u # t /\ Told(b, q, u, x) => Told(b, r, u, x)
<1> DEFINE e == [topic |-> t, payload |-> p]
           r == Append(q, e)
           n == Len(q)
<1>1. e \in Messages /\ e.topic = t /\ e.payload = p
  BY DEF Messages
<1> HIDE DEF e
<1>2. /\ r \in Seq(Messages) /\ n \in Nat /\ DOMAIN q = 1 .. n /\ DOMAIN r = 1 .. n + 1
      /\ r[n + 1] = e /\ \A i \in 1 .. n : r[i] = q[i]
  BY <1>1
<1> HIDE DEF r, n
<1>3. Told(b, r, t, p)
  <2>1. n + 1 \in DOMAIN r /\ \A j \in DOMAIN r : j <= n + 1
    BY <1>2
  <2> QED BY <1>1, <1>2, <2>1 DEF Told
<1>4. ASSUME NEW u, NEW x, u # t, Told(b, q, u, x) PROVE Told(b, r, u, x)
  <2>1. r[n + 1].topic # u /\ \A i \in DOMAIN r : i \in DOMAIN q \/ i = n + 1
    BY <1>1, <1>2, <1>4
  <2>2. \A i \in DOMAIN q : i \in DOMAIN r /\ r[i] = q[i]
    BY <1>2
  <2>3. CASE b[u] = x /\ \A i \in DOMAIN q : q[i].topic # u
    BY <2>1, <2>2, <2>3 DEF Told
  <2>4. CASE \E i \in DOMAIN q : q[i].topic = u /\ q[i].payload = x /\ \A j \in DOMAIN q : q[j].topic = u => j <= i
    <3>1. PICK i \in DOMAIN q : q[i].topic = u /\ q[i].payload = x /\ \A j \in DOMAIN q : q[j].topic = u => j <= i
      BY <2>4
    <3>2. i \in DOMAIN r /\ r[i].topic = u /\ r[i].payload = x /\ \A j \in DOMAIN r : r[j].topic = u => j <= i
      BY <2>1, <2>2, <3>1
    <3> QED BY <3>2 DEF Told
  <2> QED BY <1>4, <2>3, <2>4 DEF Told
<1> QED BY <1>2, <1>3, <1>4 DEF r, e

(* A delivery changes nothing of what will have been said.                      *)
LEMMA ToldAfterDelivery ==
  ASSUME NEW b \in [Topics -> Payloads \cup {"here"}], NEW q \in Seq(Messages), q # <<>>, NEW u \in Own, NEW x,
         Told(b, q, u, x)
  PROVE  Told([b EXCEPT ![Head(q).topic] = Head(q).payload], Tail(q), u, x)
<1> DEFINE c == [b EXCEPT ![Head(q).topic] = Head(q).payload]
           r == Tail(q)
           n == Len(q)
<1>1. /\ Head(q) = q[1] /\ n \in Nat /\ n >= 1 /\ DOMAIN q = 1 .. n /\ q[1] \in Messages
      /\ r \in Seq(Messages) /\ DOMAIN r = 1 .. n - 1 /\ \A i \in 1 .. n - 1 : r[i] = q[i + 1]
  OBVIOUS
<1>2. u \in Topics /\ c[u] = IF q[1].topic = u THEN q[1].payload ELSE b[u]
  BY <1>1 DEF Topics
<1> HIDE DEF c, r, n
<1>3. \A i \in DOMAIN r : i + 1 \in DOMAIN q /\ r[i] = q[i + 1]
  BY <1>1
<1>4. CASE b[u] = x /\ \A i \in DOMAIN q : q[i].topic # u
  <2>1. c[u] = x
    BY <1>1, <1>2, <1>4
  <2> QED BY <1>3, <1>4, <2>1 DEF Told, c, r
<1>5. CASE \E i \in DOMAIN q : q[i].topic = u /\ q[i].payload = x /\ \A j \in DOMAIN q : q[j].topic = u => j <= i
  <2>1. PICK i \in DOMAIN q : q[i].topic = u /\ q[i].payload = x /\ \A j \in DOMAIN q : q[j].topic = u => j <= i
    BY <1>5
  <2>2. CASE i = 1
    <3>1. c[u] = x
      BY <1>2, <2>1, <2>2
    <3>2. \A j \in DOMAIN r : r[j].topic # u
      BY <1>1, <1>3, <2>1, <2>2
    <3> QED BY <3>1, <3>2 DEF Told, c, r
  <2>3. CASE i # 1
    <3>1. i - 1 \in DOMAIN r /\ r[i - 1] = q[i]
      BY <1>1, <2>1, <2>3
    <3>2. \A j \in DOMAIN r : r[j].topic = u => j <= i - 1
      BY <1>1, <1>3, <2>1
    <3> QED BY <2>1, <3>1, <3>2 DEF Told, c, r
  <2> QED BY <2>2, <2>3
<1> QED BY <1>4, <1>5 DEF Told

(* MQTTDispatcher.publish                                                       *)
LEMMA PublishIs ==
  ASSUME ShapeInv, MirrorInv, NEW t \in Own, NEW p \in Payloads, PublishRetained(t, p)
  PROVE  /\ mirror' \in Seq(Messages) /\ Unique(mirror')
         /\ TopicsOf(mirror') = TopicsOf(mirror) \cup {t}
         /\ \A u \in Own : Held(mirror', u) = IF u = t THEN p ELSE Held(mirror, u)
         /\ pipe' \in Seq(Messages)
         /\ pipe' = pipe \/ pipe' = Append(pipe, [topic |-> t, payload |-> p])
         /\ connected /\ link => pipe' = Append(pipe, [topic |-> t, payload |-> p])
         /\ \A i \in DOMAIN pipe' : pipe'[i].topic \in TopicsOf(mirror')
         /\ \A i \in DOMAIN replay : replay[i] \in TopicsOf(mirror')
<1>1. mirror' = MirrorRetained(mirror, t, p)
  BY DEF PublishRetained
<1>2. /\ mirror' \in Seq(Messages) /\ Unique(mirror')
      /\ TopicsOf(mirror') = TopicsOf(mirror) \cup {t}
      /\ \A u \in Own : Held(mirror', u) = IF u = t THEN p ELSE Held(mirror, u)
  <2>1. mirror \in Seq(Messages) /\ Unique(mirror)
    BY DEF ShapeInv
  <2>2. PICK n : n = MirrorRetained(mirror, t, p)
    OBVIOUS
  <2>3. /\ n \in Seq(Messages) /\ Unique(n)
        /\ TopicsOf(n) = TopicsOf(mirror) \cup {t}
        /\ \A u \in Own : Held(n, u) = IF u = t THEN p ELSE Held(mirror, u)
    BY <2>1, <2>2, MirrorRetainedIs
  <2>4. mirror' = n
    BY <1>1, <2>2
  <2> QED BY <2>3, <2>4
<1>3. pipe' = pipe \/ pipe' = Append(pipe, [topic |-> t, payload |-> p])
  BY DEF PublishRetained, Accept
<1>4. connected /\ link => pipe' = Append(pipe, [topic |-> t, payload |-> p])
  BY DEF PublishRetained, Accept
<1> DEFINE e == [topic |-> t, payload |-> p]
<1>5. e \in Messages /\ e.topic = t
  BY DEF Messages
<1>6. pipe' \in Seq(Messages) /\ \A i \in DOMAIN pipe' : pipe'[i].topic \in TopicsOf(mirror')
  <2>1. CASE pipe' = pipe
    BY <1>2, <2>1 DEF ShapeInv, MirrorInv
  <2>2. CASE pipe' = Append(pipe, e)
    <3> HIDE DEF e
    <3>1. /\ pipe' \in Seq(Messages) /\ Len(pipe) \in Nat /\ DOMAIN pipe' = 1 .. Len(pipe) + 1 /\ DOMAIN pipe = 1 .. Len(pipe)
          /\ pipe'[Len(pipe) + 1] = e /\ \A i \in 1 .. Len(pipe) : pipe'[i] = pipe[i]
      BY <1>5, <2>2 DEF ShapeInv
    <3>2. \A i \in DOMAIN pipe' : i \in DOMAIN pipe \/ i = Len(pipe) + 1
      BY <3>1
    <3> QED BY <1>2, <1>5, <3>1, <3>2 DEF MirrorInv
  <2> QED BY <1>3, <2>1, <2>2
<1>7. \A i \in DOMAIN replay : replay[i] \in TopicsOf(mirror')
  BY <1>2 DEF MirrorInv
<1> QED BY <1>2, <1>3, <1>4, <1>6, <1>7

(* What the holder of the lock does next, and what is left.                     *)
LEMMA JobStep ==
  ASSUME ShapeInv, job # <<>>, job' = Tail(job)
  PROVE  /\ Head(job) = job[1] /\ job[1] \in Puts /\ 1 \in DOMAIN job
         /\ job' \in Seq(Puts)
         /\ \A i \in DOMAIN job' : i + 1 \in DOMAIN job /\ job'[i] = job[i + 1] /\ i + 1 # 1
         /\ \A i \in DOMAIN job : i # 1 => i - 1 \in DOMAIN job' /\ job'[i - 1] = job[i]
<1> DEFINE n == Len(job)
<1>1. job \in Seq(Puts)
  BY DEF ShapeInv
<1>2. /\ n \in Nat /\ n >= 1 /\ DOMAIN job = 1 .. n /\ Head(job) = job[1]
      /\ job' \in Seq(Puts) /\ DOMAIN job' = 1 .. n - 1 /\ \A i \in 1 .. n - 1 : job'[i] = job[i + 1]
  BY <1>1
<1> HIDE DEF n
<1>3. \A i \in DOMAIN job' : i + 1 \in DOMAIN job /\ i + 1 # 1
  BY <1>2
<1>4. \A i \in DOMAIN job : i # 1 => i - 1 \in DOMAIN job' /\ (i - 1) + 1 = i
  BY <1>2
<1>5. 1 \in DOMAIN job /\ job[1] \in Puts
  BY <1>1, <1>2
<1>6. \A i \in DOMAIN job : i # 1 => job'[i - 1] = job[i]
  BY <1>2, <1>4
<1> QED BY <1>2, <1>3, <1>4, <1>5, <1>6

(* An own topic's message is out: the broker is told of it, or will be by the   *)
(* replay of the next session.                                                  *)
LEMMA PublishTells ==
  ASSUME ShapeInv, MirrorInv, BrokerInv, phase = "on" => connected, NEW t \in Own, NEW p \in Payloads,
         PublishRetained(t, p), UNCHANGED <<link, phase, broker, replay>>
  PROVE  phase' = "on" /\ link' =>
           \A u \in TopicsOf(mirror') : Told(broker', pipe', u, Held(mirror', u)) \/ \E i \in DOMAIN replay' : replay'[i] = u
<1> SUFFICES ASSUME phase = "on", link, NEW u \in TopicsOf(mirror')
             PROVE  Told(broker, pipe', u, Held(mirror', u)) \/ \E i \in DOMAIN replay : replay[i] = u
  BY DEF Told
<1> DEFINE e == [topic |-> t, payload |-> p]
<1>1. pipe' = Append(pipe, e) /\ TopicsOf(mirror') = TopicsOf(mirror) \cup {t}
  BY PublishIs
<1>2. \A w \in Own : Held(mirror', w) = IF w = t THEN p ELSE Held(mirror, w)
  BY PublishIs
<1>3. pipe \in Seq(Messages) /\ u \in Own
  <2>1. pipe \in Seq(Messages) /\ mirror \in Seq(Messages)
    BY DEF ShapeInv
  <2>2. \A i \in DOMAIN mirror : mirror[i].topic \in Own
    <3>1. \A i \in DOMAIN mirror : mirror[i] \in Messages
      BY <2>1
    <3> QED BY <3>1 DEF Messages
  <2> QED BY <1>1, <2>1, <2>2 DEF TopicsOf
<1>4. Told(broker, pipe', t, p)
  BY <1>1, <1>3, ToldNow
<1>5. CASE u = t
  BY <1>2, <1>4, <1>5
<1>6. CASE u # t
  <2>1. u \in TopicsOf(mirror) /\ Held(mirror', u) = Held(mirror, u)
    BY <1>1, <1>2, <1>3, <1>6
  <2>2. Told(broker, pipe, u, Held(mirror, u)) \/ \E i \in DOMAIN replay : replay[i] = u
    BY <2>1 DEF BrokerInv
  <2>3. Told(broker, pipe, u, Held(mirror, u)) => Told(broker, pipe', u, Held(mirror, u))
    BY <1>1, <1>3, <1>6, ToldNow
  <2> QED BY <2>1, <2>2, <2>3
<1> QED BY <1>5, <1>6

(* remove_topics_by_driver clears one topic.                                    *)
LEMMA CleanStepShows ==
  ASSUME ShowInv, SessionInv, CleanStep
  PROVE  ShowInv'
<1>1. /\ run = "removing" /\ ctl = Gone /\ phase # "stopping"
      /\ \A i \in DOMAIN job : job[i].field = "clear" /\ job[i].payload = None
      /\ UNCHANGED <<link, phase, connected, broker, replay, ctl>>
  BY DEF ShowInv, JobInv, CleanStep, sessionVars
<1>0. phase = "on" => connected
  BY DEF SessionInv
<1>2. CASE job = <<>>
  <2>1. UNCHANGED <<mirror, pipe, job>> /\ run' = "serving"
    BY <1>1, <1>2 DEF CleanStep
  <2>2. ShapeInv' /\ MirrorInv'
    BY <1>1, <2>1 DEF ShowInv, ShapeInv, MirrorInv
  <2>3. JobInv'
    BY <1>1, <1>2, <2>1 DEF ShowInv, JobInv, Gone, Removing, Absent, Showing
  <2>4. BrokerInv'
    BY <1>1, <1>2, <2>1 DEF ShowInv, BrokerInv
  <2>5. StopInv'
    BY <1>1, <2>1 DEF ShowInv, StopInv, Findable, Cleared
  <2> QED BY <2>2, <2>3, <2>4, <2>5 DEF ShowInv
<1>3. CASE job # <<>>
  <2>1. PublishRetained(Head(job).topic, None) /\ job' = Tail(job) /\ run' = run
    BY <1>1, <1>3 DEF CleanStep
  <2>2. /\ Head(job) = job[1] /\ job[1] \in Puts /\ 1 \in DOMAIN job
        /\ job' \in Seq(Puts)
        /\ \A i \in DOMAIN job' : i + 1 \in DOMAIN job /\ job'[i] = job[i + 1] /\ i + 1 # 1
        /\ \A i \in DOMAIN job : i # 1 => i - 1 \in DOMAIN job' /\ job'[i - 1] = job[i]
    BY <1>3, <2>1, JobStep DEF ShowInv
  <2>3. job[1].topic \in Own /\ None \in Payloads
    BY <2>2 DEF Puts, Payloads
  <2>4. PublishRetained(job[1].topic, None)
    BY <2>1, <2>2
  <2>5. /\ mirror' \in Seq(Messages) /\ Unique(mirror')
        /\ TopicsOf(mirror') = TopicsOf(mirror) \cup {job[1].topic}
        /\ \A u \in Own : Held(mirror', u) = IF u = job[1].topic THEN None ELSE Held(mirror, u)
        /\ pipe' \in Seq(Messages)
        /\ \A i \in DOMAIN pipe' : pipe'[i].topic \in TopicsOf(mirror')
        /\ \A i \in DOMAIN replay : replay[i] \in TopicsOf(mirror')
    BY <2>3, <2>4, PublishIs DEF ShowInv
  <2>6. ShapeInv'
    BY <1>1, <2>1, <2>2, <2>5 DEF ShowInv, ShapeInv
  <2>7. MirrorInv'
    <3>1. \A u \in Own : Held(mirror, u) = None /\ ctl[FieldOf[u]] = None
      BY <1>1 DEF ShowInv, MirrorInv, FieldOf, Gone, Own
    <3>2. \A u \in Own : Held(mirror', u) = ctl'[FieldOf[u]]
      BY <1>1, <2>5, <3>1
    <3> QED BY <1>1, <2>5, <3>2 DEF MirrorInv
  <2>8. JobInv'
    BY <1>1, <2>1, <2>2 DEF ShowInv, JobInv
  <2>9. BrokerInv'
    <3>1. phase' = "on" /\ link' =>
            \A u \in TopicsOf(mirror') : Told(broker', pipe', u, Held(mirror', u)) \/ \E i \in DOMAIN replay' : replay'[i] = u
      BY <1>0, <1>1, <2>3, <2>4, PublishTells DEF ShowInv
    <3>2. ASSUME NEW u \in Own \ TopicsOf(mirror'), broker[u] # None PROVE \E i \in DOMAIN job' : job'[i].topic = u
      <4>1. u \in Own \ TopicsOf(mirror) /\ u # job[1].topic
        BY <2>5, <3>2
      <4>2. PICK i \in DOMAIN job : job[i].topic = u
        BY <1>1, <3>2, <4>1 DEF ShowInv, BrokerInv
      <4> QED BY <2>2, <4>1, <4>2
    <3> QED BY <1>1, <2>1, <3>1, <3>2 DEF BrokerInv
  <2>10. StopInv'
    BY <1>1, <2>1 DEF ShowInv, StopInv, Findable
  <2> QED BY <2>6, <2>7, <2>8, <2>9, <2>10 DEF ShowInv
<1> QED BY <1>2, <1>3

(* A job, step by step.                                                         *)
LEMMA Tails ==
  ASSUME NEW a, NEW b, NEW c
  PROVE  /\ Head(<<a, b, c>>) = a /\ Tail(<<a, b, c>>) = <<b, c>>
         /\ Head(<<a, b>>) = a /\ Tail(<<a, b>>) = <<b>>
         /\ Head(<<a>>) = a /\ Tail(<<a>>) = <<>>
  OBVIOUS

(* Device._publish: the control and its mirror go together. A device about to   *)
(* go keeps its meta until the end, one that comes has it first.                *)
LEMMA PublishStepShows ==
  ASSUME ShowInv, SessionInv, PublishStep, phase # "ended"
  PROVE  ShowInv'
<1>0. PICK s : s = job[1]
  OBVIOUS
<1>1. /\ PublishRetained(Head(job).topic, Head(job).payload)
      /\ ctl' = [ctl EXCEPT ![Head(job).field] = Head(job).payload]
      /\ job # <<>> /\ job' = Tail(job)
      /\ UNCHANGED <<link, phase, connected, broker, replay, run>>
  BY DEF PublishStep, sessionVars
<1>2. /\ Head(job) = s /\ job[1] = s /\ s \in Puts /\ 1 \in DOMAIN job
      /\ job' \in Seq(Puts)
      /\ \A i \in DOMAIN job' : i + 1 \in DOMAIN job /\ job'[i] = job[i + 1] /\ i + 1 # 1
      /\ \A i \in DOMAIN job : i # 1 => i - 1 \in DOMAIN job' /\ job'[i - 1] = job[i]
  BY <1>0, <1>1, JobStep DEF ShowInv
<1>3. PublishRetained(s.topic, s.payload) /\ ctl' = [ctl EXCEPT ![s.field] = s.payload]
  BY <1>1, <1>2
<1>4. s.topic \in Own /\ s.payload \in Payloads /\ s.field \in {"title", "value", "error", "clear"}
  BY <1>2 DEF Puts
<1>5. /\ mirror' \in Seq(Messages) /\ Unique(mirror')
      /\ TopicsOf(mirror') = TopicsOf(mirror) \cup {s.topic}
      /\ \A u \in Own : Held(mirror', u) = IF u = s.topic THEN s.payload ELSE Held(mirror, u)
      /\ pipe' \in Seq(Messages)
      /\ connected /\ link => pipe' = Append(pipe, [topic |-> s.topic, payload |-> s.payload])
      /\ \A i \in DOMAIN pipe' : pipe'[i].topic \in TopicsOf(mirror')
      /\ \A i \in DOMAIN replay : replay[i] \in TopicsOf(mirror')
  BY <1>3, <1>4, PublishIs DEF ShowInv
<1>6. ctl \in [there : BOOLEAN, title : Payloads, value : Payloads, error : Payloads]
  BY DEF ShowInv, ShapeInv
<1>7. /\ ctl'.there = ctl.there
      /\ ctl'.title = (IF s.field = "title" THEN s.payload ELSE ctl.title)
      /\ ctl'.value = (IF s.field = "value" THEN s.payload ELSE ctl.value)
      /\ ctl'.error = (IF s.field = "error" THEN s.payload ELSE ctl.error)
      /\ s.field = "clear" => ctl' = ctl
      /\ ctl' \in [there : BOOLEAN, title : Payloads, value : Payloads, error : Payloads]
  BY <1>3, <1>4, <1>6
<1>8. run \in {"removing", "serving"}
  BY <1>1 DEF ShowInv, ShapeInv, JobInv
<1>9. ShapeInv'
  BY <1>1, <1>2, <1>5, <1>7 DEF ShowInv, ShapeInv
<1>10. run = "removing" => s.field = "clear" /\ s.payload = None /\ ctl = Gone
  BY <1>2 DEF ShowInv, JobInv
<1>11. run = "serving" => s.field = FieldOf[s.topic]
  BY <1>2 DEF ShowInv, JobInv
<1>12. MirrorInv'
  <2>1. ASSUME NEW u \in Own PROVE Held(mirror', u) = ctl'[FieldOf[u]]
    <3>1. Held(mirror, u) = ctl[FieldOf[u]]
      BY DEF ShowInv, MirrorInv
    <3>2. CASE run = "removing"
      BY <1>5, <1>7, <1>10, <3>1, <3>2 DEF Gone, FieldOf, Own
    <3>3. CASE run = "serving"
      <4>1. s.field = FieldOf[s.topic] /\ (u # s.topic => FieldOf[u] # FieldOf[s.topic])
        BY <1>4, <1>11, <3>3 DEF FieldOf, Own
      <4>2. FieldOf[u] \in {"title", "value", "error"}
        BY DEF FieldOf, Own
      <4>3. CASE u = s.topic
        BY <1>5, <1>7, <4>1, <4>2, <4>3
      <4>4. CASE u # s.topic
        BY <1>5, <1>7, <3>1, <4>1, <4>2, <4>4
      <4> QED BY <4>3, <4>4
    <3> QED BY <1>8, <3>2, <3>3
  <2> QED BY <1>1, <1>5, <2>1 DEF MirrorInv
(* What is left of the job.                                                     *)
<1>13. Removing => \/ s = ClearValue /\ job' = <<ClearError, ClearMeta>>
                   \/ s = ClearError /\ job' = <<ClearMeta>> /\ ctl.value = None
                   \/ s = ClearMeta /\ job' = <<>> /\ ctl.value = None /\ ctl.error = None
  <2>1. Head(job) = s /\ job' = Tail(job)
    BY <1>1, <1>2
  <2>2. CASE job = <<ClearValue, ClearError, ClearMeta>>
    BY <2>1, <2>2, Tails
  <2>3. CASE job = <<ClearError, ClearMeta>> /\ ctl.value = None
    BY <2>1, <2>3, Tails
  <2>4. CASE job = <<ClearMeta>> /\ ctl.value = None /\ ctl.error = None
    BY <2>1, <2>4, Tails
  <2> QED BY <2>2, <2>3, <2>4 DEF Removing
<1>14. /\ ClearValue.field = "value" /\ ClearValue.topic = "value" /\ ClearValue.payload = None
       /\ ClearError.field = "error" /\ ClearError.topic = "error" /\ ClearError.payload = None
       /\ ClearMeta.field = "title" /\ ClearMeta.topic = "meta" /\ ClearMeta.payload = None
  BY DEF ClearValue, ClearError, ClearMeta, Put
<1>15. JobInv'
  <2>1. CASE run = "removing"
    BY <1>1, <1>2, <1>7, <1>10, <2>1 DEF ShowInv, JobInv
  <2>2. CASE run = "serving"
    <3>1. \A i \in DOMAIN job' : job'[i].field = FieldOf[job'[i].topic]
      BY <1>2, <2>2 DEF ShowInv, JobInv
    <3>2. CASE Removing /\ (phase = "stopping" \/ ~ctl.there)
      <4>1. Removing' \/ (job' = <<>> /\ ctl'.title = None)
        BY <1>7, <1>13, <1>14, <3>2 DEF Removing
      <4>2. ctl'.title = None => ctl'.value = None /\ ctl'.error = None
        BY <1>7, <1>13, <1>14, <3>2 DEF ShowInv, JobInv
      <4>3. phase = "stopping" => Removing' \/ job' = <<>>
        BY <4>1
      <4>4. phase # "stopping" => (Removing' /\ ~ctl'.there) \/ Absent'
        BY <1>7, <3>2, <4>1 DEF Absent
      <4> QED BY <1>1, <2>2, <3>1, <4>2, <4>3, <4>4 DEF JobInv
    <3>3. CASE Showing /\ phase # "stopping"
      <4>1. s.field = "title" => s.payload # None
        BY <1>2, <3>3 DEF Showing
      <4>2. s.field # "title" => ctl.title # None
        BY <1>2, <3>3 DEF Showing
      <4>3. ctl'.title # None
        BY <1>7, <4>1, <4>2
      <4>4. \A i \in DOMAIN job' : job'[i].field # "title"
        BY <1>2, <3>3 DEF Showing
      <4>5. Showing'
        BY <1>7, <3>3, <4>3, <4>4 DEF Showing
      <4> QED BY <1>1, <2>2, <3>1, <3>3, <4>3, <4>5 DEF JobInv
    <3> QED BY <1>1, <2>2, <3>2, <3>3 DEF ShowInv, JobInv, Absent
  <2> QED BY <1>8, <2>1, <2>2
<1>16. BrokerInv'
  <2>1. phase' = "on" /\ link' =>
          \A u \in TopicsOf(mirror') : Told(broker', pipe', u, Held(mirror', u)) \/ \E i \in DOMAIN replay' : replay'[i] = u
    BY <1>1, <1>3, <1>4, PublishTells DEF ShowInv, SessionInv
  <2>2. run = "removing" =>
          \A u \in Own \ TopicsOf(mirror') : broker[u] = None \/ \E i \in DOMAIN job' : job'[i].topic = u
    <3> SUFFICES ASSUME run = "removing", NEW u \in Own \ TopicsOf(mirror'), broker[u] # None
                 PROVE  \E i \in DOMAIN job' : job'[i].topic = u
      OBVIOUS
    <3>1. u \in Own \ TopicsOf(mirror) /\ u # job[1].topic
      BY <1>2, <1>5
    <3>2. PICK i \in DOMAIN job : job[i].topic = u
      BY <3>1 DEF ShowInv, BrokerInv
    <3> QED BY <1>2, <3>1, <3>2
  <2>3. run = "serving" => \A u \in Own \ TopicsOf(mirror') : broker[u] = None
    BY <1>5 DEF ShowInv, BrokerInv
  <2> QED BY <1>1, <2>1, <2>2, <2>3 DEF BrokerInv
<1>17. StopInv'
  <2>1. Findable' = Findable
    BY <1>1 DEF Findable
  <2>2. CASE ~(phase = "stopping" /\ link)
    BY <1>1, <2>1, <2>2 DEF ShowInv, StopInv
  <2>3. CASE phase = "stopping" /\ link
    <3> DEFINE e == [topic |-> s.topic, payload |-> s.payload]
               n == Len(pipe)
    <3>1. connected /\ Removing
      BY <1>1, <2>3 DEF ShowInv, StopInv, JobInv
    <3>2. pipe' = Append(pipe, e) /\ e.topic = s.topic /\ e.payload = s.payload /\ e \in Messages
      BY <1>4, <1>5, <2>3, <3>1 DEF Messages
    <3> HIDE DEF e
    <3>3. /\ n \in Nat /\ DOMAIN pipe = 1 .. n /\ DOMAIN pipe' = 1 .. n + 1
          /\ pipe'[n + 1] = e /\ \A i \in 1 .. n : pipe'[i] = pipe[i]
      BY <3>2 DEF ShowInv, ShapeInv
    <3> HIDE DEF n
    <3>4. /\ \A i \in DOMAIN pipe' : i \in DOMAIN pipe \/ i = n + 1
          /\ \A i \in DOMAIN pipe : i \in DOMAIN pipe' /\ pipe'[i] = pipe[i] /\ i < n + 1
          /\ n + 1 \in DOMAIN pipe'
      BY <3>3
    <3>5. s.payload = None
      BY <1>13, <1>14, <3>1
    <3>6. \A i \in DOMAIN pipe' : pipe'[i].payload = None
      BY <2>3, <3>2, <3>3, <3>4, <3>5 DEF ShowInv, StopInv
    <3>7. \A t \in Own : Cleared(t) => Cleared(t)'
      BY <1>1, <3>4 DEF Cleared
    <3>8. Cleared(s.topic)'
      BY <3>2, <3>3, <3>4 DEF Cleared
    <3>9. /\ s = ClearMeta => Cleared("value") /\ Cleared("error")
          /\ s = ClearError => Cleared("value")
      <4>1. s = ClearMeta => job = <<ClearMeta>>
        BY <1>2, <1>14, <3>1 DEF Removing
      <4>2. s = ClearError => job = <<ClearError, ClearMeta>>
        BY <1>2, <1>14, <3>1 DEF Removing
      <4> QED BY <2>3, <4>1, <4>2 DEF ShowInv, StopInv
    <3>10. /\ job' \in {<<ClearError, ClearMeta>>, <<ClearMeta>>} => Cleared("value")'
           /\ job' = <<ClearMeta>> => Cleared("error")'
      <4>1. CASE s = ClearValue
        <5>1. job' = <<ClearError, ClearMeta>>
          BY <1>13, <1>14, <3>1, <4>1
        <5>2. job' # <<ClearMeta>>
          BY <5>1
        <5> QED BY <1>14, <3>8, <4>1, <5>2
      <4>2. CASE s = ClearError
        BY <1>14, <3>7, <3>8, <3>9, <4>2 DEF Own
      <4>3. CASE s = ClearMeta
        BY <1>13, <1>14, <3>1, <4>3
      <4> QED BY <1>13, <3>1, <4>1, <4>2, <4>3
    <3>11. ASSUME NEW i \in DOMAIN pipe', pipe'[i].topic = "meta", NEW t \in Own \ {"meta"}, broker[t] # None
           PROVE  \E j \in DOMAIN pipe' : j < i /\ pipe'[j].topic = t
      <4>1. CASE i \in DOMAIN pipe
        <5>1. pipe[i].topic = "meta"
          BY <3>4, <3>11, <4>1
        <5>2. PICK j \in DOMAIN pipe : j < i /\ pipe[j].topic = t
          BY <2>3, <3>11, <4>1, <5>1 DEF ShowInv, StopInv
        <5> QED BY <3>4, <5>2
      <4>2. CASE i = n + 1
        <5>1. s.topic = "meta"
          BY <3>2, <3>3, <3>11, <4>2
        <5>2. s = ClearMeta
          BY <1>13, <1>14, <3>1, <5>1
        <5>3. Cleared(t)
          BY <3>9, <5>2 DEF Own
        <5>4. PICK j \in DOMAIN pipe : pipe[j].topic = t
          BY <3>11, <5>3 DEF Cleared
        <5> QED BY <3>4, <4>2, <5>4
      <4> QED BY <3>4, <4>1, <4>2
    <3>12. Findable /\ connected
      BY <2>3 DEF ShowInv, StopInv
    <3> QED BY <1>1, <2>1, <3>6, <3>10, <3>11, <3>12 DEF StopInv
  <2> QED BY <2>2, <2>3
<1> QED BY <1>9, <1>12, <1>15, <1>16, <1>17 DEF ShowInv

(* A delivery.                                                                  *)
LEMMA DeliverShows ==
  ASSUME ShowInv, Deliver, phase # "ended"
  PROVE  ShowInv'
<1>1. /\ link /\ pipe # <<>> /\ pipe' = Tail(pipe)
      /\ broker' = [broker EXCEPT ![Head(pipe).topic] = Head(pipe).payload]
      /\ UNCHANGED <<link, phase, connected, mirror, replay, ctl, job, run>>
  BY DEF Deliver, sessionVars, deviceVars
<1>2. PICK e : e = pipe[1]
  OBVIOUS
<1>3. pipe \in Seq(Messages) /\ broker \in [Topics -> Payloads \cup {"here"}]
  BY DEF ShowInv, ShapeInv
<1>4. /\ Head(pipe) = e /\ pipe[1] = e /\ e \in Messages /\ 1 \in DOMAIN pipe /\ pipe' \in Seq(Messages)
      /\ \A i \in DOMAIN pipe' : i + 1 \in DOMAIN pipe /\ pipe'[i] = pipe[i + 1]
      /\ \A i \in DOMAIN pipe : i \in Nat /\ i >= 1 /\ (i # 1 => i - 1 \in DOMAIN pipe' /\ pipe'[i - 1] = pipe[i])
      /\ \A i \in DOMAIN pipe' : i \in Nat
  <2> DEFINE n == Len(pipe)
  <2>1. /\ n \in Nat /\ n >= 1 /\ DOMAIN pipe = 1 .. n /\ Head(pipe) = pipe[1]
        /\ pipe' \in Seq(Messages) /\ DOMAIN pipe' = 1 .. n - 1 /\ \A i \in 1 .. n - 1 : pipe'[i] = pipe[i + 1]
    BY <1>1, <1>3
  <2> HIDE DEF n
  <2>2. \A i \in DOMAIN pipe : i # 1 => i - 1 \in 1 .. n - 1 /\ (i - 1) + 1 = i
    BY <2>1
  <2>3. \A i \in DOMAIN pipe : i # 1 => pipe'[i - 1] = pipe[i]
    BY <2>1, <2>2
  <2>4. 1 \in DOMAIN pipe /\ pipe[1] \in Messages
    BY <1>3, <2>1
  <2> QED BY <1>2, <2>1, <2>2, <2>3, <2>4
<1>5. e.topic \in Own /\ e.payload \in Payloads
  BY <1>4 DEF Messages
<1>6. \A t \in Topics : broker'[t] = IF t = e.topic THEN e.payload ELSE broker[t]
  BY <1>1, <1>3, <1>4
<1>7. ShapeInv'
  <2>1. broker' \in [Topics -> Payloads \cup {"here"}]
    BY <1>1, <1>3, <1>4, <1>5
  <2> QED BY <1>1, <1>4, <2>1 DEF ShowInv, ShapeInv
<1>8. MirrorInv'
  BY <1>1, <1>4 DEF ShowInv, MirrorInv
<1>9. JobInv'
  BY <1>1 DEF ShowInv, JobInv, Removing, Absent, Showing
<1>10. BrokerInv'
  <2>1. e.topic \in TopicsOf(mirror)
    BY <1>4 DEF ShowInv, MirrorInv
  <2>2. \A t \in Own \ TopicsOf(mirror) : broker'[t] = broker[t]
    BY <1>6, <2>1 DEF Topics
  <2>3. \A t \in TopicsOf(mirror) : t \in Own
    <3>1. \A i \in DOMAIN mirror : mirror[i] \in Messages
      BY DEF ShowInv, ShapeInv
    <3> QED BY <3>1 DEF TopicsOf, Messages
  <2>4. ASSUME NEW t \in TopicsOf(mirror), Told(broker, pipe, t, Held(mirror, t)) PROVE Told(broker', pipe', t, Held(mirror, t))
    BY <1>1, <1>3, <2>3, <2>4, ToldAfterDelivery
  <2> QED BY <1>1, <2>2, <2>4 DEF ShowInv, BrokerInv
<1>11. StopInv'
  <2>1. run \notin {"waiting", "cleaning"}
    BY <1>1 DEF ShowInv, JobInv
  <2>2. CASE phase = "stopping"
    <3>1. e.payload = None /\ \A i \in DOMAIN pipe : pipe[i].payload = None
      BY <1>1, <1>4, <2>2 DEF ShowInv, StopInv
    <3>2. \A t \in Own : broker'[t] = broker[t] \/ broker'[t] = None
      BY <1>6, <3>1 DEF Topics
    <3>3. Findable'
      <4> SUFFICES ASSUME broker'["meta"] = None, NEW t \in Own PROVE broker'[t] = None
        BY DEF Findable
      <4>1. CASE e.topic = "meta"
        <5>1. t = "meta" \/ broker[t] = None
          BY <1>1, <1>4, <2>2, <4>1 DEF ShowInv, StopInv
        <5> QED BY <3>2, <5>1
      <4>2. CASE e.topic # "meta"
        <5>1. broker["meta"] = None
          BY <1>6, <4>2 DEF Topics, Own
        <5> QED BY <2>2, <3>2, <5>1 DEF ShowInv, StopInv, Findable
      <4> QED BY <4>1, <4>2
    <3>4. \A t \in Own : Cleared(t) => Cleared(t)'
      <4> SUFFICES ASSUME NEW t \in Own, Cleared(t) PROVE Cleared(t)'
        OBVIOUS
      <4>1. CASE broker[t] = None
        BY <3>2, <4>1 DEF Cleared
      <4>2. CASE broker[t] # None
        <5>1. PICK i \in DOMAIN pipe : pipe[i].topic = t
          BY <4>2 DEF Cleared
        <5>2. CASE i = 1
          BY <1>4, <1>6, <3>1, <5>1, <5>2 DEF Cleared, Topics
        <5>3. CASE i # 1
          BY <1>4, <5>1, <5>3 DEF Cleared
        <5> QED BY <5>2, <5>3
      <4> QED BY <4>1, <4>2
    <3>5. ASSUME NEW i \in DOMAIN pipe', pipe'[i].topic = "meta", NEW t \in Own \ {"meta"}, broker'[t] # None
          PROVE  \E j \in DOMAIN pipe' : j < i /\ pipe'[j].topic = t
      <4>1. i + 1 \in DOMAIN pipe /\ pipe[i + 1].topic = "meta" /\ broker[t] # None
        BY <1>4, <3>2, <3>5
      <4>2. PICK j \in DOMAIN pipe : j < i + 1 /\ pipe[j].topic = t
        BY <1>1, <2>2, <4>1 DEF ShowInv, StopInv
      <4>3. j # 1
        BY <1>4, <1>6, <3>1, <3>5, <4>2 DEF Topics
      <4> QED BY <1>4, <4>2, <4>3
    <3>6. \A i \in DOMAIN pipe' : pipe'[i].payload = None
      BY <1>4, <3>1
    <3>7. /\ job' \in {<<ClearError, ClearMeta>>, <<ClearMeta>>} => Cleared("value")'
          /\ job' = <<ClearMeta>> => Cleared("error")'
      BY <1>1, <2>2, <3>4 DEF ShowInv, StopInv, Own
    <3>8. connected'
      BY <1>1, <2>2 DEF ShowInv, StopInv
    <3> QED BY <3>3, <3>5, <3>6, <3>7, <3>8 DEF StopInv
  <2>3. CASE phase # "stopping"
    BY <1>1, <2>1, <2>3 DEF StopInv
  <2> QED BY <2>2, <2>3
<1> QED BY <1>7, <1>8, <1>9, <1>10, <1>11 DEF ShowInv

(* What the cleaning puts together: each own topic that is retained.            *)
LEMMA ClearingIs ==
  ASSUME NEW S \in SUBSET Own
  PROVE  LET q == [i \in 1 .. Cardinality(S) |-> Put("clear", SetToSeq(S)[i], None)]
         IN /\ q \in Seq(Puts)
            /\ \A i \in DOMAIN q : q[i].field = "clear" /\ q[i].payload = None
            /\ \A t \in S : \E i \in DOMAIN q : q[i].topic = t
<1> DEFINE n == Cardinality(S)
           f == SetToSeq(S)
           q == [i \in 1 .. n |-> Put("clear", f[i], None)]
<1>1. IsFiniteSet(S)
  <2>1. IsFiniteSet(Own)
    <3>1. IsFiniteSet({"meta"}) /\ IsFiniteSet({"value"}) /\ IsFiniteSet({"error"})
      BY FS_Singleton
    <3>2. Own = ({"meta"} \cup {"value"}) \cup {"error"}
      BY DEF Own
    <3> QED BY <3>1, <3>2, FS_Union
  <2> QED BY <2>1, FS_Subset
<1>2. n \in Nat /\ ExistsBijection(1 .. n, S)
  BY <1>1, FS_CardinalityType
<1>3. f \in [1 .. n -> S] /\ \A a, b \in 1 .. n : f[a] = f[b] => a = b
  <2>1. PICK g : g \in [1 .. n -> S] /\ \A a, b \in 1 .. n : g[a] = g[b] => a = b
    BY <1>2 DEF ExistsBijection, Bijection, Injection, IsInjective
  <2>2. IsInjective(g)
    BY <2>1 DEF IsInjective
  <2>3. f \in [1 .. n -> S] /\ IsInjective(f)
    BY <2>1, <2>2 DEF SetToSeq
  <2> QED BY <2>3 DEF IsInjective
<1> HIDE DEF f, n
<1>4. \A t \in S : \E i \in 1 .. n : f[i] = t
  <2>1. f \in Injection(1 .. n, S)
    BY <1>3 DEF Injection, IsInjective
  <2>2. Cardinality(1 .. n) = n
    BY <1>2, FS_Interval
  <2>3. f \in Surjection(1 .. n, S)
    BY <1>1, <2>1, <2>2, FS_Injection DEF n
  <2> QED BY <2>3 DEF Surjection
<1>5. \A i \in 1 .. n : f[i] \in Own
  BY <1>3
<1>6. \A i \in 1 .. n : q[i] = Put("clear", f[i], None)
  OBVIOUS
<1>7. DOMAIN q = 1 .. n
  OBVIOUS
<1>8. q \in Seq(Puts)
  <2>1. \A i \in 1 .. n : Put("clear", f[i], None) \in Puts
    BY <1>5 DEF Put, Puts, Payloads
  <2> QED BY <1>2, <2>1
<1> HIDE DEF q
<1>9. \A i \in DOMAIN q : q[i].field = "clear" /\ q[i].payload = None /\ q[i].topic = f[i]
  BY <1>6, <1>7 DEF Put
<1>10. \A t \in S : \E i \in DOMAIN q : q[i].topic = t
  BY <1>4, <1>7, <1>9
<1> QED BY <1>8, <1>9, <1>10 DEF q, f, n

(* remove_topics_by_driver has found what is left of an earlier life.           *)
LEMMA CleanShows ==
  ASSUME ShowInv, Calm, Clean
  PROVE  ShowInv'
<1>1. /\ run = "cleaning" /\ run' = "removing" /\ link /\ connected
      /\ UNCHANGED <<link, phase, connected, broker, mirror, pipe, replay, ctl>>
  BY DEF Clean, sessionVars
<1>2. /\ job = <<>> /\ mirror = <<>> /\ pipe = <<>> /\ replay = <<>> /\ ctl = Gone /\ phase # "stopping" /\ Findable
  BY <1>1 DEF ShowInv, JobInv, StopInv
<1>3. PICK S : S = {t \in Own : broker[t] # None}
  OBVIOUS
<1>4. /\ job' \in Seq(Puts)
      /\ \A i \in DOMAIN job' : job'[i].field = "clear" /\ job'[i].payload = None
      /\ \A t \in S : \E i \in DOMAIN job' : job'[i].topic = t
  <2>1. CASE broker["meta"] = None
    <3>1. job' = <<>> /\ S = {}
      BY <1>1, <1>2, <1>3, <2>1 DEF Clean, Findable
    <3> QED BY <3>1
  <2>2. CASE broker["meta"] # None
    <3>1. job' = [i \in 1 .. Cardinality(S) |-> Put("clear", SetToSeq(S)[i], None)]
      BY <1>1, <1>3, <2>2 DEF Clean
    <3>2. S \in SUBSET Own
      BY <1>3
    <3> QED BY <3>1, <3>2, ClearingIs
  <2> QED BY <2>1, <2>2
<1>5. ShapeInv' /\ MirrorInv'
  BY <1>1, <1>4 DEF ShowInv, ShapeInv, MirrorInv
<1>6. JobInv'
  BY <1>1, <1>2, <1>4 DEF ShowInv, JobInv
<1>7. BrokerInv'
  <2>1. TopicsOf(mirror') = {}
    BY <1>1, <1>2 DEF TopicsOf
  <2> QED BY <1>1, <1>3, <1>4, <2>1 DEF BrokerInv
<1>8. StopInv'
  BY <1>1, <1>2 DEF StopInv, Findable
<1> QED BY <1>5, <1>6, <1>7, <1>8 DEF ShowInv

(* A job put together from two parts.                                           *)
LEMMA InARow ==
  ASSUME NEW a, NEW b, NEW c
  PROVE  <<a, b>> \o <<>> = <<a, b>> /\ <<a, b>> \o <<c>> = <<a, b, c>>
<1> DEFINE S == {a, b, c}
           q == <<a, b>> \o <<c>>
           r == <<a, b, c>>
<1>1. <<a, b>> \in Seq(S) /\ <<c>> \in Seq(S) /\ r \in Seq(S)
  OBVIOUS
<1>2. q \in Seq(S) /\ Len(q) = 3 /\ q[1] = a /\ q[2] = b /\ q[3] = c
  BY <1>1
<1>3. Len(r) = 3 /\ r[1] = a /\ r[2] = b /\ r[3] = c
  OBVIOUS
<1>4. <<a, b>> \o <<>> = <<a, b>>
  OBVIOUS
<1> HIDE DEF q, r
<1>5. q = [i \in 1 .. 3 |-> q[i]] /\ r = [i \in 1 .. 3 |-> r[i]]
  BY <1>1, <1>2, <1>3
<1>6. \A i \in 1 .. 3 : q[i] = r[i]
  BY <1>2, <1>3
<1>7. q = r
  BY <1>5, <1>6
<1> QED BY <1>4, <1>7 DEF q, r

(* Somebody asks for something: the device comes, changes or goes.              *)
LEMMA UpdateShows ==
  ASSUME ShowInv, Update, phase # "ended"
  PROVE  ShowInv'
<1>1. /\ run = "serving" /\ job = <<>> /\ phase # "stopping"
      /\ UNCHANGED <<link, phase, connected, broker, mirror, pipe, replay, run>>
  BY DEF Update, sessionVars
<1>2. PICK c : c = ctl
  OBVIOUS
<1>3. c \in [there : BOOLEAN, title : Payloads, value : Payloads, error : Payloads]
  BY <1>2 DEF ShowInv, ShapeInv
<1>4. Absent \/ Showing
  BY <1>1 DEF ShowInv, JobInv, Removing
<1>5. c.there => c.title # None
  BY <1>1, <1>2, <1>4 DEF Absent, Showing
<1>6. ~c.there => c.title = None /\ c.value = None /\ c.error = None
  BY <1>1, <1>2, <1>4 DEF ShowInv, JobInv, Absent, Showing
<1>7. None \in Payloads /\ "r" \in Payloads /\ "t1" \in Payloads /\ "t2" \in Payloads /\ FirstValue \in Payloads
      /\ \A v \in Values : v \in Payloads
  BY BoundAssumption DEF Payloads
(* The fields stay; the job fits the device.                                    *)
<1>8. SUFFICES /\ ctl' \in [there : BOOLEAN, title : Payloads, value : Payloads, error : Payloads]
               /\ ctl'.title = c.title /\ ctl'.value = c.value /\ ctl'.error = c.error
               /\ job' \in Seq(Puts)
               /\ \A i \in DOMAIN job' : job'[i].field = FieldOf[job'[i].topic]
               /\ (Removing' /\ ~ctl'.there) \/ Showing'
  <2>1. ShapeInv'
    BY <1>1, <1>8 DEF ShowInv, ShapeInv
  <2>2. MirrorInv'
    <3>1. \A t \in Own : FieldOf[t] \in {"title", "value", "error"}
      BY DEF FieldOf, Own
    <3>2. \A t \in Own : ctl'[FieldOf[t]] = ctl[FieldOf[t]]
      BY <1>2, <1>8, <3>1
    <3> QED BY <1>1, <3>2 DEF ShowInv, MirrorInv
  <2>3. JobInv'
    BY <1>1, <1>2, <1>8 DEF ShowInv, JobInv
  <2>4. BrokerInv'
    BY <1>1 DEF ShowInv, BrokerInv
  <2>5. StopInv'
    BY <1>1 DEF StopInv
  <2> QED BY <2>1, <2>2, <2>3, <2>4, <2>5 DEF ShowInv
<1> DEFINE PutError(e) == Put("error", "error", e)
           PutValue(v) == Put("value", "value", v)
           PutTitle(t) == Put("title", "meta", t)
<1>9. \A p \in Payloads : /\ PutError(p) \in Puts /\ PutError(p).field = "error" /\ PutError(p).topic = "error"
                          /\ PutValue(p) \in Puts /\ PutValue(p).field = "value" /\ PutValue(p).topic = "value"
                          /\ PutTitle(p) \in Puts /\ PutTitle(p).field = "title" /\ PutTitle(p).topic = "meta"
                          /\ PutTitle(p).payload = p
  BY DEF Put, Puts, Own
<1>10. FieldOf["error"] = "error" /\ FieldOf["value"] = "value" /\ FieldOf["meta"] = "title"
  BY DEF FieldOf, Own
<1>11. CASE c.there /\ \E v \in Values, e \in {None, "r"} : job' = SetState(v, e) /\ UNCHANGED ctl
  <2>1. PICK v \in Values, e \in {None, "r"} : job' = SetState(v, e) /\ ctl' = ctl
    BY <1>11
  <2> DEFINE A == IF c.error # e /\ e = None THEN <<PutError(None)>> ELSE <<>>
             B == IF c.value # v THEN <<PutValue(v)>> ELSE <<>>
             C == IF c.error # e /\ e # None THEN <<PutError(e)>> ELSE <<>>
             Free == {p \in Puts : p.field = FieldOf[p.topic] /\ p.field # "title"}
  <2>2. job' = A \o B \o C
    BY <1>2, <2>1 DEF SetState
  <2>3. PutError(None) \in Free /\ PutError(e) \in Free /\ PutValue(v) \in Free
    <3>1. e \in Payloads /\ v \in Payloads
      BY <1>7
    <3> HIDE DEF PutError, PutValue, PutTitle
    <3> QED BY <1>7, <1>9, <1>10, <3>1
  <2> HIDE DEF PutError, PutValue, PutTitle, Free
  <2>4. A \in Seq(Free) /\ B \in Seq(Free) /\ C \in Seq(Free)
    BY <2>3
  <2> HIDE DEF A, B, C
  <2>5. job' \in Seq(Free)
    BY <2>2, <2>4
  <2>6. \A i \in DOMAIN job' : job'[i] \in Free
    BY <2>5
  <2>7. \A i \in DOMAIN job' : job'[i] \in Puts /\ job'[i].field = FieldOf[job'[i].topic] /\ job'[i].field # "title"
    BY <2>6 DEF Free
  <2>8. job' \in Seq(Puts)
    BY <2>5, <2>7
  <2> QED BY <1>2, <1>3, <1>5, <1>11, <2>1, <2>7, <2>8 DEF Showing
<1>12. CASE c.there /\ job' = SetError("r") /\ UNCHANGED ctl
  <2>1. job' = <<>> \/ job' = <<PutError("r")>>
    BY <1>12 DEF SetError
  <2> HIDE DEF PutError, PutValue, PutTitle
  <2>2. job' \in Seq(Puts) /\ \A i \in DOMAIN job' : job'[i].field = FieldOf[job'[i].topic] /\ job'[i].field # "title"
    <3>1. PICK x : x = PutError("r")
      OBVIOUS
    <3>2. x \in Puts /\ x.field = FieldOf[x.topic] /\ x.field # "title"
      BY <1>7, <1>9, <1>10, <3>1
    <3>3. PICK q : q = job'
      OBVIOUS
    <3>4. q = <<>> \/ q = <<x>>
      BY <2>1, <3>1, <3>3
    <3>5. q \in Seq(Puts) /\ \A i \in DOMAIN q : q[i] = x
      <4>1. CASE q = <<>>
        BY <4>1
      <4>2. CASE q = <<x>>
        <5>1. <<x>> \in Seq(Puts) /\ DOMAIN <<x>> = {1} /\ <<x>>[1] = x
          BY <3>2
        <5> QED BY <4>2, <5>1
      <4> QED BY <3>4, <4>1, <4>2
    <3> QED BY <3>2, <3>3, <3>5
  <2> QED BY <1>2, <1>3, <1>5, <1>12, <2>2 DEF Showing
<1>13. CASE c.there /\ job' = SetTitle("t2") /\ UNCHANGED ctl
  <2>1. job' = <<>> \/ job' = <<PutTitle("t2")>>
    BY <1>13 DEF SetTitle
  <2>2. "t2" # None
    BY DEF None
  <2> HIDE DEF PutError, PutValue, PutTitle
  <2>3. job' \in Seq(Puts) /\ \A i \in DOMAIN job' : job'[i].field = FieldOf[job'[i].topic] /\ i = 1 /\ job'[i].payload # None
    <3>1. PICK x : x = PutTitle("t2")
      OBVIOUS
    <3>2. x \in Puts /\ x.field = FieldOf[x.topic] /\ x.payload # None
      BY <1>7, <1>9, <1>10, <2>2, <3>1
    <3>3. PICK q : q = job'
      OBVIOUS
    <3>4. q = <<>> \/ q = <<x>>
      BY <2>1, <3>1, <3>3
    <3>5. q \in Seq(Puts) /\ \A i \in DOMAIN q : q[i] = x /\ i = 1
      <4>1. CASE q = <<>>
        BY <4>1
      <4>2. CASE q = <<x>>
        <5>1. <<x>> \in Seq(Puts) /\ DOMAIN <<x>> = {1} /\ <<x>>[1] = x
          BY <3>2
        <5> QED BY <4>2, <5>1
      <4> QED BY <3>4, <4>1, <4>2
    <3> QED BY <3>2, <3>3, <3>5
  <2> QED BY <1>2, <1>3, <1>5, <1>13, <2>3 DEF Showing
<1>14. CASE c.there /\ job' = RemoveDevice /\ ctl' = [ctl EXCEPT !.there = FALSE]
  <2>1. job' = <<PutValue(None), PutError(None), PutTitle(None)>>
    BY <1>14 DEF RemoveDevice
  <2>2. Removing' /\ ~ctl'.there
    BY <1>2, <1>3, <1>14, <2>1 DEF Removing, ClearValue, ClearError, ClearMeta
  <2> HIDE DEF PutError, PutValue, PutTitle
  <2>3. job' \in Seq(Puts) /\ \A i \in DOMAIN job' : job'[i].field = FieldOf[job'[i].topic]
    BY <1>7, <1>9, <1>10, <2>1
  <2> QED BY <1>2, <1>3, <1>14, <2>2, <2>3
<1>15. CASE ~c.there /\ \E e \in {None, "r"} : job' = CreateDevice("t1", FirstValue, e) /\ ctl' = [Gone EXCEPT !.there = TRUE]
  <2>1. PICK e \in {None, "r"} : job' = CreateDevice("t1", FirstValue, e) /\ ctl' = [Gone EXCEPT !.there = TRUE]
    BY <1>15
  <2>2. job' = <<PutTitle("t1"), PutValue(FirstValue)>> \/ job' = <<PutTitle("t1"), PutValue(FirstValue), PutError(e)>>
    <3>1. PICK x, y, z : x = PutTitle("t1") /\ y = PutValue(FirstValue) /\ z = PutError(e)
      OBVIOUS
    <3>2. job' = <<x, y>> \o (IF e = None THEN <<>> ELSE <<z>>)
      BY <2>1, <3>1 DEF CreateDevice
    <3>3. job' = <<x, y>> \/ job' = <<x, y, z>>
      <4>1. <<x, y>> \o <<>> = <<x, y>> /\ <<x, y>> \o <<z>> = <<x, y, z>>
        BY InARow
      <4> QED BY <3>2, <4>1
    <3> QED BY <3>1, <3>3
  <2>3. "t1" # None /\ e \in Payloads
    BY <1>7 DEF None
  <2>4. ctl'.there /\ ctl'.title = None /\ ctl'.value = None /\ ctl'.error = None
        /\ ctl' \in [there : BOOLEAN, title : Payloads, value : Payloads, error : Payloads]
    BY <1>7, <2>1 DEF Gone
  <2> HIDE DEF PutError, PutValue, PutTitle
  <2>5. job' \in Seq(Puts) /\ job' # <<>> /\ job'[1] = PutTitle("t1")
        /\ \A i \in DOMAIN job' : /\ job'[i].field = FieldOf[job'[i].topic]
                                  /\ job'[i].field = "title" => i = 1 /\ job'[i].payload # None
    <3>1. PICK x, y, z : x = PutTitle("t1") /\ y = PutValue(FirstValue) /\ z = PutError(e)
      OBVIOUS
    <3>2. /\ x \in Puts /\ x.field = FieldOf[x.topic] /\ x.payload # None
          /\ y \in Puts /\ y.field = FieldOf[y.topic] /\ y.field # "title"
          /\ z \in Puts /\ z.field = FieldOf[z.topic] /\ z.field # "title"
      <4>1. FirstValue \in Payloads /\ e \in Payloads /\ "t1" \in Payloads
        BY <1>7, <2>3
      <4>2. x \in Puts /\ x.field = FieldOf[x.topic] /\ x.payload # None
        BY <1>9, <1>10, <2>3, <3>1, <4>1
      <4>3. y \in Puts /\ y.field = FieldOf[y.topic] /\ y.field # "title"
        BY <1>9, <1>10, <3>1, <4>1
      <4>4. z \in Puts /\ z.field = FieldOf[z.topic] /\ z.field # "title"
        BY <1>9, <1>10, <3>1, <4>1
      <4> QED BY <4>2, <4>3, <4>4
    <3>3. PICK q : q = job'
      OBVIOUS
    <3>4. q = <<x, y>> \/ q = <<x, y, z>>
      BY <2>2, <3>1, <3>3
    <3>5. /\ q \in Seq(Puts) /\ q # <<>> /\ q[1] = x
          /\ \A i \in DOMAIN q : (i = 1 /\ q[i] = x) \/ q[i] = y \/ q[i] = z
      <4>1. CASE q = <<x, y>>
        BY <3>2, <4>1
      <4>2. CASE q = <<x, y, z>>
        BY <3>2, <4>2
      <4> QED BY <3>4, <4>1, <4>2
    <3> QED BY <3>1, <3>2, <3>3, <3>5
  <2>6. Showing'
    BY <1>7, <1>9, <2>4, <2>5 DEF Showing
  <2> QED BY <1>6, <1>15, <2>4, <2>5, <2>6
<1> QED BY <1>2, <1>11, <1>12, <1>13, <1>14, <1>15 DEF Update

(* The session loop: what changes is the phase, and the replay begins with all  *)
(* that is mirrored.                                                            *)
LEMMA RestoredShows ==
  ASSUME ShowInv, Restored
  PROVE  ShowInv'
<1>1. /\ phase = "joining" /\ phase' = "on" /\ link /\ replay' = [i \in DOMAIN mirror |-> mirror[i].topic]
      /\ UNCHANGED <<link, broker, mirror, pipe, ctl, job, run>>
  BY DEF Restored, deviceVars
<1>2. mirror \in Seq(Messages) /\ \A i \in DOMAIN mirror : mirror[i].topic \in Own
  <2>1. \A i \in DOMAIN mirror : mirror[i] \in Messages
    BY DEF ShowInv, ShapeInv
  <2> QED BY <2>1 DEF ShowInv, ShapeInv, Messages
<1>3. DOMAIN replay' = DOMAIN mirror /\ \A i \in DOMAIN mirror : replay'[i] = mirror[i].topic
  BY <1>1
<1>4. replay' \in Seq(Own)
  BY <1>1, <1>2
<1>5. ShapeInv' /\ MirrorInv'
  BY <1>1, <1>3, <1>4 DEF ShowInv, ShapeInv, MirrorInv, TopicsOf
<1>6. JobInv'
  <2>1. mirror = <<>> => replay' = <<>>
    BY <1>1
  <2> QED BY <1>1, <2>1 DEF ShowInv, JobInv, Removing, Absent, Showing
<1>7. BrokerInv'
  <2>1. \A t \in TopicsOf(mirror) : \E i \in DOMAIN replay' : replay'[i] = t
    BY <1>3 DEF TopicsOf
  <2> QED BY <1>1, <2>1 DEF ShowInv, BrokerInv
<1>8. StopInv'
  BY <1>1 DEF ShowInv, StopInv, Findable
<1> QED BY <1>5, <1>6, <1>7, <1>8 DEF ShowInv

(* A message replayed is what the mirror holds.                                 *)
LEMMA ReplayShows ==
  ASSUME ShowInv, Replay
  PROVE  ShowInv'
<1>1. /\ phase = "on" /\ replay # <<>> /\ connected /\ replay' = Tail(replay)
      /\ Accept(Head(replay), Held(mirror, Head(replay)))
      /\ UNCHANGED <<link, phase, connected, broker, mirror, ctl, job, run>>
  BY DEF Replay, deviceVars
<1>2. PICK t, p : t = replay[1] /\ p = Held(mirror, replay[1])
  OBVIOUS
<1>3. /\ t \in Own /\ Head(replay) = t /\ 1 \in DOMAIN replay /\ replay[1] = t /\ replay' \in Seq(Own)
      /\ \A i \in DOMAIN replay' : i + 1 \in DOMAIN replay /\ replay'[i] = replay[i + 1]
      /\ \A i \in DOMAIN replay : i # 1 => i - 1 \in DOMAIN replay' /\ replay'[i - 1] = replay[i]
  <2> DEFINE n == Len(replay)
  <2>1. /\ n \in Nat /\ n >= 1 /\ DOMAIN replay = 1 .. n /\ Head(replay) = replay[1] /\ replay \in Seq(Own)
        /\ replay' \in Seq(Own) /\ DOMAIN replay' = 1 .. n - 1 /\ \A i \in 1 .. n - 1 : replay'[i] = replay[i + 1]
    BY <1>1 DEF ShowInv, ShapeInv
  <2> HIDE DEF n
  <2>2. \A i \in DOMAIN replay : i # 1 => i - 1 \in 1 .. n - 1 /\ (i - 1) + 1 = i
    BY <2>1
  <2>3. \A i \in DOMAIN replay : i # 1 => replay'[i - 1] = replay[i]
    BY <2>1, <2>2
  <2> QED BY <1>2, <2>1, <2>2, <2>3
<1>4. t \in TopicsOf(mirror)
  BY <1>3 DEF ShowInv, MirrorInv
<1>5. p \in Payloads
  <2>1. p = ctl[FieldOf[t]]
    BY <1>2, <1>3 DEF ShowInv, MirrorInv
  <2>2. FieldOf[t] \in {"title", "value", "error"}
    BY <1>3 DEF FieldOf, Own
  <2> QED BY <2>1, <2>2 DEF ShowInv, ShapeInv
<1> DEFINE e == [topic |-> t, payload |-> p]
<1>6. /\ pipe' = pipe \/ pipe' = Append(pipe, e)
      /\ link => pipe' = Append(pipe, e)
  BY <1>1, <1>2, <1>3 DEF Accept
<1>7. pipe \in Seq(Messages)
  BY DEF ShowInv, ShapeInv
<1>8. /\ pipe' \in Seq(Messages)
      /\ \A i \in DOMAIN pipe' : pipe'[i].topic \in TopicsOf(mirror)
  <2>1. CASE pipe' = pipe
    BY <1>7, <2>1 DEF ShowInv, MirrorInv
  <2>2. CASE pipe' = Append(pipe, e)
    <3>1. e \in Messages /\ e.topic = t
      BY <1>3, <1>5 DEF Messages
    <3> HIDE DEF e
    <3>2. /\ pipe' \in Seq(Messages) /\ Len(pipe) \in Nat /\ DOMAIN pipe' = 1 .. Len(pipe) + 1 /\ DOMAIN pipe = 1 .. Len(pipe)
          /\ pipe'[Len(pipe) + 1] = e /\ \A i \in 1 .. Len(pipe) : pipe'[i] = pipe[i]
      BY <1>7, <2>2, <3>1
    <3>3. \A i \in DOMAIN pipe' : i \in DOMAIN pipe \/ i = Len(pipe) + 1
      BY <3>2
    <3> QED BY <1>4, <3>1, <3>2, <3>3 DEF ShowInv, MirrorInv
  <2> QED BY <1>6, <2>1, <2>2
<1>9. ShapeInv' /\ MirrorInv'
  BY <1>1, <1>3, <1>8 DEF ShowInv, ShapeInv, MirrorInv
<1>10. run \notin {"waiting", "cleaning"}
  BY <1>1 DEF ShowInv, JobInv
<1>11. JobInv'
  BY <1>1, <1>10 DEF ShowInv, JobInv, Removing, Absent, Showing
<1>12. BrokerInv'
  <2>1. ASSUME link, NEW u \in TopicsOf(mirror)
        PROVE  Told(broker, pipe', u, Held(mirror, u)) \/ \E i \in DOMAIN replay' : replay'[i] = u
    <3>1. pipe' = Append(pipe, e)
      BY <1>6, <2>1
    <3>2. CASE u = t
      <4>1. Told(broker, pipe', t, p)
        BY <1>3, <1>5, <1>7, <3>1, ToldNow
      <4> QED BY <1>2, <1>3, <3>2, <4>1
    <3>3. CASE u # t
      <4>1. Told(broker, pipe, u, Held(mirror, u)) => Told(broker, pipe', u, Held(mirror, u))
        BY <1>3, <1>5, <1>7, <3>1, <3>3, ToldNow
      <4>2. CASE \E i \in DOMAIN replay : replay[i] = u
        BY <1>3, <3>3, <4>2
      <4> QED BY <1>1, <2>1, <4>1, <4>2 DEF ShowInv, BrokerInv
    <3> QED BY <3>2, <3>3
  <2> QED BY <1>1, <2>1 DEF ShowInv, BrokerInv
<1>13. StopInv'
  BY <1>1, <1>10 DEF StopInv
<1> QED BY <1>9, <1>11, <1>12, <1>13 DEF ShowInv

(* Steps in which only the phase or the link changes, and not into a session.   *)
LEMMA PhaseShows ==
  ASSUME ShowInv, UNCHANGED <<broker, mirror, ctl, job>>,
         pipe' \in {pipe, <<>>}, replay' \in {replay, <<>>},
         run' = run \/ (run = "waiting" /\ run' = "cleaning"),
         (phase' = phase /\ link' = link /\ replay' = replay /\ pipe' = pipe /\ connected' = connected)
           \/ (phase' \notin {"on", "stopping", "ended"} /\ phase # "ended" /\ (phase = "stopping" => run # "serving"))
           \/ (phase' = phase /\ ~link' /\ connected' = connected)
           \/ (phase' = "ended" /\ Findable)
  PROVE  ShowInv'
<1>1. ShapeInv'
  <2>1. pipe' \in Seq(Messages) /\ replay' \in Seq(Own)
    <3>1. <<>> \in Seq(Messages) /\ <<>> \in Seq(Own) /\ pipe \in Seq(Messages) /\ replay \in Seq(Own)
      BY DEF ShowInv, ShapeInv
    <3>2. (pipe' = pipe \/ pipe' = <<>>) /\ (replay' = replay \/ replay' = <<>>)
      OBVIOUS
    <3> QED BY <3>1, <3>2, Zenon
  <2> QED BY <2>1 DEF ShowInv, ShapeInv
<1>2. MirrorInv'
  BY DEF ShowInv, MirrorInv
<1>3. JobInv'
  BY DEF ShowInv, JobInv, Removing, Absent, Showing
<1>4. BrokerInv'
  BY DEF ShowInv, BrokerInv
<1>5. StopInv'
  BY DEF ShowInv, StopInv, Findable, Cleared
<1> QED BY <1>1, <1>2, <1>3, <1>4, <1>5 DEF ShowInv

(* In a settled session the broker shows the device; so a crash leaves its meta *)
(* with it.                                                                     *)
LEMMA SettledShows ==
  ASSUME ShowInv, phase = "on", link, replay = <<>>, pipe = <<>>, run = "serving"
  PROVE  /\ broker["meta"] = ctl.title /\ broker["value"] = ctl.value /\ broker["error"] = ctl.error
         /\ Findable
<1>1. ASSUME NEW t \in Own PROVE broker[t] = ctl[FieldOf[t]]
  <2>1. Held(mirror, t) = ctl[FieldOf[t]]
    BY DEF ShowInv, MirrorInv
  <2>2. CASE t \in TopicsOf(mirror)
    BY <2>1, <2>2 DEF ShowInv, BrokerInv, Told
  <2>3. CASE t \notin TopicsOf(mirror)
    <3>1. Held(mirror, t) = None
      BY <2>3, HeldIs DEF ShowInv, ShapeInv, TopicsOf
    <3> QED BY <2>1, <2>3, <3>1 DEF ShowInv, BrokerInv
  <2> QED BY <2>2, <2>3
<1>2. broker["meta"] = ctl.title /\ broker["value"] = ctl.value /\ broker["error"] = ctl.error
  BY <1>1 DEF FieldOf, Own
<1> QED BY <1>2 DEF ShowInv, JobInv, Findable, Own

(* A request to stop in a settled session, or without a link.                   *)
LEMMA StopShows ==
  ASSUME ShowInv, SessionInv, Calm, Stop, phase # "ended"
  PROVE  ShowInv'
<1>1. /\ run = "serving" /\ job = <<>> /\ replay' = <<>>
      /\ UNCHANGED <<link, connected, broker, mirror, pipe, ctl, run>>
  BY DEF Stop
<1>2. CASE phase = "off"
  <2>1. Findable /\ phase' = "ended" /\ job' = job
    BY <1>2 DEF Stop
  <2> QED BY <1>1, <2>1, PhaseShows
<1>3. CASE phase # "off"
  <2>1. /\ phase = "on" /\ link /\ replay = <<>> /\ pipe = <<>> /\ phase' = "stopping"
        /\ job' = IF ctl.there THEN RemoveDevice ELSE <<>>
    BY <1>3 DEF Stop
  <2>2. Findable /\ connected
    BY <1>1, <2>1, SettledShows DEF SessionInv
  <2>3. job' = <<>> \/ job' = <<ClearValue, ClearError, ClearMeta>>
    BY <2>1 DEF RemoveDevice, ClearValue, ClearError, ClearMeta
  <2>4. PICK x, y, z : x = ClearValue /\ y = ClearError /\ z = ClearMeta
    OBVIOUS
  <2>5. /\ x \in Puts /\ x.field = FieldOf[x.topic]
        /\ y \in Puts /\ y.field = FieldOf[y.topic]
        /\ z \in Puts /\ z.field = FieldOf[z.topic]
    BY <2>4 DEF ClearValue, ClearError, ClearMeta, Put, Puts, FieldOf, Own, Payloads
  <2>6. PICK q : q = job'
    OBVIOUS
  <2>7. q \in Seq(Puts) /\ \A i \in DOMAIN q : q[i].field = FieldOf[q[i].topic]
    <3>1. CASE q = <<>>
      BY <3>1
    <3>2. CASE q = <<x, y, z>>
      BY <2>5, <3>2
    <3> QED BY <2>3, <2>4, <2>6, <3>1, <3>2
  <2>8. ShapeInv' /\ MirrorInv'
    BY <1>1, <2>1, <2>6, <2>7 DEF ShowInv, ShapeInv, MirrorInv
  <2>9. JobInv'
    BY <1>1, <2>1, <2>3, <2>6, <2>7 DEF ShowInv, JobInv, Removing
  <2>10. BrokerInv'
    BY <1>1, <2>1 DEF ShowInv, BrokerInv
  <2>11. StopInv'
    <3>1. job' \notin {<<ClearError, ClearMeta>>, <<ClearMeta>>}
      <4>1. <<x, y, z>> # <<y, z>> /\ <<x, y, z>> # <<z>> /\ <<>> # <<y, z>> /\ <<>> # <<z>>
        OBVIOUS
      <4> QED BY <2>3, <2>4, <4>1
    <3>2. pipe' = <<>>
      BY <1>1, <2>1
    <3> QED BY <1>1, <2>1, <2>2, <3>1, <3>2 DEF StopInv, Findable
  <2> QED BY <2>8, <2>9, <2>10, <2>11 DEF ShowInv
<1> QED BY <1>2, <1>3

(* The next life knows nothing.                                                 *)
LEMMA StartShows ==
  ASSUME ShowInv, phase = "ended", Start
  PROVE  ShowInv'
<1>1. /\ phase' = "off" /\ link' = FALSE /\ mirror' = <<>> /\ pipe' = <<>> /\ replay' = <<>>
      /\ ctl' = Gone /\ job' = <<>> /\ run' = "waiting" /\ broker' = broker
  BY DEF Start
<1>2. Findable
  BY DEF ShowInv, StopInv
<1>3. ShapeInv'
  BY <1>1 DEF ShowInv, ShapeInv, Gone, Unique, Payloads
<1>4. MirrorInv'
  <2>1. \A t \in Own : Held(mirror', t) = None
    <3>1. <<>> \in Seq(Messages) /\ Unique(<<>>) /\ \A t \in Own : \A i \in DOMAIN <<>> : <<>>[i].topic # t
      BY DEF Unique
    <3>2. \A t \in Own : Held(<<>>, t) = None
      BY <3>1, HeldIs
    <3> QED BY <1>1, <3>2
  <2> QED BY <1>1, <2>1 DEF MirrorInv, FieldOf, Gone, Own
<1>5. JobInv' /\ BrokerInv'
  BY <1>1 DEF JobInv, BrokerInv, Gone
<1>6. StopInv'
  BY <1>1, <1>2 DEF StopInv, Findable
<1> QED BY <1>3, <1>4, <1>5, <1>6 DEF ShowInv

(* The peer has a topic of its own.                                             *)
LEMMA PeerPublishShows ==
  ASSUME ShowInv, PeerPublish
  PROVE  ShowInv'
<1>1. UNCHANGED <<link, phase, connected, mirror, pipe, replay, ctl, job, run>>
  BY DEF PeerPublish, sessionVars, deviceVars
<1>2. PICK p \in {None, "here"} : broker' = [broker EXCEPT ![Peer] = p]
  BY DEF PeerPublish
<1>3. broker \in [Topics -> Payloads \cup {"here"}]
  BY DEF ShowInv, ShapeInv
<1>4. broker' \in [Topics -> Payloads \cup {"here"}] /\ \A t \in Own : broker'[t] = broker[t]
  BY <1>2, <1>3 DEF Topics, Own, Peer, Payloads
<1>5. ShapeInv' /\ MirrorInv'
  BY <1>1, <1>4 DEF ShowInv, ShapeInv, MirrorInv
<1>6. JobInv'
  BY <1>1 DEF ShowInv, JobInv, Removing, Absent, Showing
<1>7. BrokerInv'
  <2>1. \A i \in DOMAIN mirror : mirror[i] \in Messages
    BY DEF ShowInv, ShapeInv
  <2>2. \A t \in TopicsOf(mirror) : t \in Own
    BY <2>1 DEF TopicsOf, Messages
  <2>3. \A t \in Own : Told(broker, pipe, t, Held(mirror, t)) => Told(broker', pipe, t, Held(mirror, t))
    BY <1>4 DEF Told
  <2> QED BY <1>1, <1>4, <2>2, <2>3 DEF ShowInv, BrokerInv
<1>8. StopInv'
  <2>1. Findable => Findable'
    BY <1>4 DEF Findable, Own
  <2>2. \A t \in Own : Cleared(t) => Cleared(t)'
    BY <1>1, <1>4 DEF Cleared
  <2> QED BY <1>1, <1>4, <2>1, <2>2 DEF ShowInv, StopInv, Own
<1> QED BY <1>5, <1>6, <1>7, <1>8 DEF ShowInv

(* Every step, under Calm.                                                      *)
LEMMA StepShows ==
  ASSUME ShowInv, SessionInv, Calm, [Next]_vars
  PROVE  ShowInv'
<1>1. CASE UNCHANGED vars
  BY <1>1, ShowKept DEF vars, showState
<1>2. CASE Start
  <2>1. CASE phase = "ended"
    BY <1>2, <2>1, StartShows
  <2>2. CASE phase # "ended"
    BY <1>2, <2>2 DEF Start
  <2> QED BY <2>1, <2>2
<1>3. CASE phase # "ended" /\ Session
  <2>1. CASE Connect
    BY <1>3, <2>1, PhaseShows DEF Connect, deviceVars
  <2>2. CASE Restore
    BY <2>2, ShowKept DEF Restore, deviceVars, showState
  <2>3. CASE Lost
    BY <1>3, <2>3, PhaseShows DEF Lost, deviceVars
  <2>4. CASE NotJoined
    BY <1>3, <2>4, PhaseShows DEF NotJoined, deviceVars
  <2>5. CASE RunGateway
    BY <2>5, PhaseShows DEF RunGateway, sessionVars
  <2>6. CASE Stopped
    <3>1. Findable
      BY <2>6 DEF Stopped, ShowInv, StopInv
    <3> QED BY <2>6, <3>1, PhaseShows DEF Stopped, deviceVars
  <2> QED BY <1>3, <2>1, <2>2, <2>3, <2>4, <2>5, <2>6, RestoredShows, ReplayShows DEF Session
<1>4. CASE phase # "ended" /\ Service
  <2>1. CASE Receive \/ CallRelease \/ CallRequest \/ CallEnd
    <3>1. UNCHANGED showState
      BY <2>1 DEF Receive, CallRelease, CallRequest, CallEnd, sessionVars, deviceVars, showState
    <3> QED BY <3>1, ShowKept
  <2> QED BY <1>4, <2>1, DeliverShows, PublishStepShows, CleanShows, CleanStepShows DEF Service
<1>5. CASE phase # "ended" /\ World
  <2>1. CASE Drop
    BY <2>1, PhaseShows DEF Drop, sessionVars, deviceVars
  <2>2. CASE Crash
    <3>1. Findable
      BY <2>2, SettledShows DEF Crash
    <3> QED BY <2>2, <3>1, PhaseShows DEF Crash, deviceVars
  <2>3. CASE PeerPublish
    BY <2>3, PeerPublishShows
  <2>4. CASE CallStart
    BY <2>4, ShowKept DEF CallStart, sessionVars, deviceVars, showState
  <2>5. CASE SubscribeAgain
    BY <2>5, ShowKept DEF SubscribeAgain, sessionVars, deviceVars, showState
  <2> QED BY <1>5, <2>1, <2>2, <2>3, <2>4, <2>5, UpdateShows, StopShows DEF World
<1> QED BY <1>1, <1>2, <1>3, <1>4, <1>5 DEF Next

(* When a session has settled, the broker shows the device as it is, or nothing *)
(* of it, whatever was published, cleared or created while the link was down,   *)
(* beside a replay, or left behind by an earlier life; as long as no outage     *)
(* hits the collection of old topics and no stop or crash an unsettled session. *)
THEOREM LinkShowsDevice ==
  ASSUME Calm
  PROVE  Spec => []BrokerShowsDevice
<1>1. Init => ShowInv /\ SessionInv
  <2> SUFFICES ASSUME Init PROVE ShowInv /\ SessionInv
    OBVIOUS
  <2>1. SessionInv
    BY DEF Init, SessionInv, Peer, RpcReply
  <2>2. ShapeInv
    BY DEF Init, ShapeInv, Gone, Unique, Payloads, Peer
  <2>3. MirrorInv
    <3>1. \A t \in Own : Held(<<>>, t) = None
      <4>1. <<>> \in Seq(Messages) /\ Unique(<<>>) /\ \A t \in Own : \A i \in DOMAIN <<>> : <<>>[i].topic # t
        BY DEF Unique
      <4> QED BY <4>1, HeldIs
    <3> QED BY <3>1 DEF Init, MirrorInv, FieldOf, Gone, Own
  <2>4. JobInv /\ BrokerInv
    BY DEF Init, JobInv, BrokerInv, Gone
  <2>5. StopInv
    BY DEF Init, StopInv, Findable, Own, Topics, Peer
  <2> QED BY <2>1, <2>2, <2>3, <2>4, <2>5 DEF ShowInv
<1>2. (ShowInv /\ SessionInv) /\ [Next]_vars => (ShowInv /\ SessionInv)'
  BY StepShows, SessionStepped
<1>3. ShowInv => BrokerShowsDevice
  <2> SUFFICES ASSUME ShowInv, Settled PROVE BrokerShowsDevice
    BY DEF BrokerShowsDevice
  <2>1. broker["meta"] = ctl.title /\ broker["value"] = ctl.value /\ broker["error"] = ctl.error
    BY SettledShows DEF Settled
  <2>2. ~ctl.there => ctl.title = None
    BY DEF Settled, ShowInv, JobInv, Removing, Absent, Showing
  <2>3. ctl.title = None => ctl.value = None /\ ctl.error = None
    BY DEF ShowInv, JobInv
  <2> QED BY <2>1, <2>2, <2>3 DEF BrokerShowsDevice, Own
<1> QED BY <1>1, <1>2, <1>3, PTL DEF Spec

---------------------------------------------------------------------------
(* The cache.                                                                   *)

(* What the broker may have on its way.                                         *)
Sent(S) == [payload : S, retain : BOOLEAN]

(* What is on its way was retained in this session, so was what the cache and   *)
(* the second subscriber have of it; without a session the cache is empty.      *)
CacheInv ==
  /\ inbox \in Seq(Sent(seen))
  /\ phase \in {"off", "joining"} => cache = None
  /\ phase = "on" => cache \in seen \cup {None} /\ late \in seen \cup {None, Unheard}

cacheState == <<phase, inbox, cache, late, seen>>

LEMMA CacheKept ==
  ASSUME CacheInv, UNCHANGED cacheState
  PROVE  CacheInv'
<1>1. Sent(seen)' = Sent(seen)
  BY DEF cacheState, Sent
<1> QED BY <1>1 DEF CacheInv, cacheState

(* A sequence over a set is one over a larger set.                              *)
LEMMA SeqMonotone ==
  ASSUME NEW S, NEW T, S \subseteq T, NEW q \in Seq(S)
  PROVE  q \in Seq(T)
<1>1. Len(q) \in Nat /\ q \in [1 .. Len(q) -> T]
  OBVIOUS
<1> QED BY <1>1

(* A step that leaves what is on its way and what was seen.                     *)
LEMMA InboxKept ==
  ASSUME CacheInv, UNCHANGED seen, inbox' = inbox \/ inbox' = <<>>
  PROVE  inbox' \in Seq(Sent(seen'))
<1>1. inbox \in Seq(Sent(seen'))
  BY DEF CacheInv
<1>2. <<>> \in Seq(Sent(seen'))
  OBVIOUS
<1> QED BY <1>1, <1>2

LEMMA SessionCache ==
  ASSUME CacheInv, Session
  PROVE  CacheInv'
<1>1. CASE Connect \/ NotJoined
  <2>1. UNCHANGED <<cache, inbox, late, seen>> /\ cache = None /\ phase' \in {"joining", "off"}
    BY <1>1 DEF Connect, NotJoined, CacheInv
  <2> QED BY <2>1, InboxKept DEF CacheInv
<1>2. CASE Restore
  <2>1. UNCHANGED <<cache, late, phase>> /\ phase = "joining"
    BY <1>2 DEF Restore
  <2>2. inbox' \in Seq(Sent(seen'))
    <3>1. CASE UNCHANGED <<inbox, seen>>
      BY <3>1, InboxKept
    <3>2. CASE inbox' = Greeting /\ seen' = {broker[Peer]}
      <4>1. inbox' = <<>> \/ inbox' = <<[payload |-> broker[Peer], retain |-> TRUE]>>
        BY <3>2 DEF Greeting
      <4>2. [payload |-> broker[Peer], retain |-> TRUE] \in Sent(seen')
        BY <3>2 DEF Sent
      <4>3. CASE inbox' = <<>>
        BY <4>3
      <4>4. CASE inbox' = <<[payload |-> broker[Peer], retain |-> TRUE]>>
        BY <4>2, <4>4
      <4> QED BY <4>1, <4>3, <4>4
    <3> QED BY <1>2, <3>1, <3>2 DEF Restore
  <2> QED BY <2>1, <2>2 DEF CacheInv
<1>3. CASE Restored
  <2>1. /\ UNCHANGED <<cache, inbox, seen>> /\ cache = None /\ phase' = "on" /\ late' \in {None, Unheard}
    BY <1>3 DEF Restored, CacheInv
  <2> QED BY <2>1, InboxKept DEF CacheInv
<1>4. CASE Lost
  <2>1. UNCHANGED <<inbox, seen>> /\ cache' = None /\ phase' = "off"
    BY <1>4 DEF Lost
  <2> QED BY <2>1, InboxKept DEF CacheInv
<1>5. CASE Replay \/ RunGateway
  BY <1>5, CacheKept DEF Replay, RunGateway, sessionVars, peerVars, cacheState
<1>6. CASE Stopped
  <2>1. UNCHANGED <<inbox, seen>> /\ phase' = "ended"
    BY <1>6 DEF Stopped, peerVars
  <2> QED BY <2>1, InboxKept DEF CacheInv
<1> QED BY <1>1, <1>2, <1>3, <1>4, <1>5, <1>6 DEF Session

LEMMA ServiceCache ==
  ASSUME CacheInv, Service
  PROVE  CacheInv'
<1>1. CASE Receive
  <2>1. /\ phase = "on" /\ inbox # <<>> /\ inbox' = Tail(inbox) /\ UNCHANGED <<phase, seen>>
        /\ cache' \in {cache, Head(inbox).payload}
        /\ late' \in {Unheard, Head(inbox).payload}
    BY <1>1 DEF Receive, sessionVars
  <2>2. Tail(inbox) \in Seq(Sent(seen)) /\ Head(inbox) \in Sent(seen)
    BY <2>1 DEF CacheInv
  <2>3. Head(inbox).payload \in seen
    BY <2>2 DEF Sent
  <2>4. inbox' \in Seq(Sent(seen'))
    BY <2>1, <2>2
  <2> QED BY <2>1, <2>3, <2>4 DEF CacheInv
<1>2. CASE Deliver \/ PublishStep \/ Clean \/ CleanStep \/ CallRelease \/ CallRequest \/ CallEnd
  BY <1>2, CacheKept DEF Deliver, PublishStep, Clean, CleanStep, CallRelease, CallRequest, CallEnd,
     sessionVars, peerVars, cacheState
<1> QED BY <1>1, <1>2 DEF Service

LEMMA WorldCache ==
  ASSUME CacheInv, World
  PROVE  CacheInv'
<1>1. CASE Drop
  <2>1. UNCHANGED <<phase, cache, late, seen>> /\ inbox' = <<>>
    BY <1>1 DEF Drop, sessionVars
  <2> QED BY <2>1, InboxKept DEF CacheInv
<1>2. CASE Stop \/ Crash
  <2>1. UNCHANGED <<inbox, seen>> /\ phase' \in {"stopping", "ended"}
    BY <1>2 DEF Stop, Crash, peerVars
  <2> QED BY <2>1, InboxKept DEF CacheInv
<1>3. CASE PeerPublish
  <2>1. PICK p : /\ seen' = seen \cup {p}
                 /\ inbox' = Append(inbox, [payload |-> p, retain |-> FALSE]) \/ inbox' = inbox
    BY <1>3 DEF PeerPublish
  <2>2. UNCHANGED <<phase, cache, late>>
    BY <1>3 DEF PeerPublish, sessionVars
  <2>3. inbox' \in Seq(Sent(seen'))
    <3>1. Sent(seen) \subseteq Sent(seen')
      BY <2>1 DEF Sent
    <3>2. inbox \in Seq(Sent(seen'))
      BY <3>1, SeqMonotone DEF CacheInv
    <3>3. [payload |-> p, retain |-> FALSE] \in Sent(seen')
      BY <2>1 DEF Sent
    <3>4. Append(inbox, [payload |-> p, retain |-> FALSE]) \in Seq(Sent(seen'))
      BY <3>2, <3>3
    <3> QED BY <2>1, <3>2, <3>4
  <2> QED BY <2>1, <2>2, <2>3 DEF CacheInv
<1>4. CASE SubscribeAgain
  <2>1. late' = cache /\ UNCHANGED <<phase, cache, inbox, seen>>
    BY <1>4 DEF SubscribeAgain, sessionVars
  <2> QED BY <2>1, InboxKept DEF CacheInv
<1>5. CASE Update \/ CallStart
  BY <1>5, CacheKept DEF Update, CallStart, sessionVars, peerVars, cacheState
<1> QED BY <1>1, <1>2, <1>3, <1>4, <1>5 DEF World

(* Whoever subscribes to a topic after others is told what was retained there   *)
(* in this session, whatever the broker, outages and restarts do.               *)
THEOREM LinkLateHearsSession == Spec => []LateHearsSession
<1>1. Init => CacheInv
  BY DEF Init, CacheInv
<1>2. CacheInv /\ [Next]_vars => CacheInv'
  <2> SUFFICES ASSUME CacheInv, [Next]_vars PROVE CacheInv'
    OBVIOUS
  <2>1. CASE UNCHANGED vars
    BY <2>1, CacheKept DEF vars, cacheState
  <2>2. CASE Start
    BY <2>2 DEF Start, CacheInv
  <2>3. CASE Session \/ Service \/ World
    BY <2>3, SessionCache, ServiceCache, WorldCache
  <2> QED BY <2>1, <2>2, <2>3 DEF Next
<1>3. CacheInv => LateHearsSession
  BY DEF CacheInv, LateHearsSession
<1> QED BY <1>1, <1>2, <1>3, PTL DEF Spec
=============================================================================

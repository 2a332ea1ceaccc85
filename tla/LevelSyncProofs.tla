--------------------------- MODULE LevelSyncProofs ---------------------------
(* LevelSync for any devices, levels and number of events: a group that follows *)
(* a member shows what the member shows, no write to a switch is forgotten, and *)
(* once all is quiet MQTT shows of every light what its gear does.              *)
EXTENDS LevelSync, SequenceTheorems, WellFoundedInduction, TLAPS

---------------------------------------------------------------------------
(* The group and the member it follows.                                         *)

ControlFields == {"level", "lerr", "last", "wanted", "on", "onerr", "due"}
GroupFields   == {"level", "lerr", "wanted", "on", "onerr", "pin", "status", "told"}

(* What the proof needs of the shape: fields that are there and may be set.     *)
ControlShape == DOMAIN ctl = D /\ \A d \in D : DOMAIN ctl[d] = ControlFields /\ ctl[d].lerr \in BOOLEAN
GroupShape   == DOMAIN grp = GroupFields /\ DOMAIN grp.status = D /\ grp.pin \in D \cup {NoOne}

GroupInv == ControlShape /\ GroupShape /\ GroupFollowsPin

(* The part of a device's controls that a group mirrors is the same.            *)
SameShown(b, c) ==
  DOMAIN c = D /\ \A d \in D : /\ DOMAIN c[d] = ControlFields
                              /\ c[d].level = b[d].level /\ c[d].lerr = b[d].lerr /\ c[d].wanted = b[d].wanted

(* A step that leaves the group alone may change schedules, errors and switches.*)
LEMMA GroupKept ==
  ASSUME GroupInv, SameShown(ctl, ctl'), UNCHANGED grp
  PROVE  GroupInv'
  BY DEF GroupInv, ControlShape, GroupShape, GroupFollowsPin, SameShown

LEMMA PolledAt ==
  ASSUME NEW c, DOMAIN c = ControlFields, NEW at
  PROVE  DOMAIN PollAt(c, at) = ControlFields /\ PollAt(c, at).level = c.level /\ PollAt(c, at).wanted = c.wanted
         /\ PollAt(c, at).lerr = c.lerr /\ PollAt(c, at).onerr = c.onerr
  BY DEF PollAt, ControlFields

(* What an event does to the controls of its device, as far as a group minds.   *)
LEMMA NotifyIs ==
  ASSUME NEW c, DOMAIN c = ControlFields, NEW e
  PROVE  LET n == Notify(c, e)
             t == Takes(e, c.lerr)
         IN /\ DOMAIN n = ControlFields
            /\ ~t => n.level = c.level /\ n.lerr = c.lerr
            /\ t /\ e.failed => n.lerr = TRUE
            /\ t /\ ~e.failed => n.level = e.raw /\ n.lerr = FALSE
            /\ n.wanted = IF e.failed THEN c.wanted ELSE e.raw
<1> DEFINE s == IF e.settle = NoTime THEN c ELSE PollAt(c, e.settle)
           l == NotifyLevel(c, e)
           o == NotifyOnOff(l, e)
           n == NotifyWanted(o, e)
           t == Takes(e, c.lerr)
<1>1. DOMAIN s = ControlFields /\ s.level = c.level /\ s.wanted = c.wanted /\ s.lerr = c.lerr
  BY PolledAt
<1>2. /\ DOMAIN l = ControlFields
      /\ ~t => l = s
      /\ t /\ e.failed => l.lerr = TRUE
      /\ t /\ ~e.failed => l.level = e.raw /\ l.lerr = FALSE
      /\ l.wanted = c.wanted
  <2>1. l = IF ~t THEN s ELSE IF e.failed THEN [s EXCEPT !.lerr = TRUE]
            ELSE [s EXCEPT !.level = e.raw, !.last = e.raw, !.lerr = FALSE]
    BY <1>1 DEF NotifyLevel
  <2> HIDE DEF s, l
  <2> QED BY <1>1, <2>1 DEF ControlFields
<1> HIDE DEF s, l
<1>3. DOMAIN o = ControlFields /\ o.level = l.level /\ o.lerr = l.lerr /\ o.wanted = l.wanted
  BY <1>2 DEF NotifyOnOff, ControlFields
<1> HIDE DEF o
<1>4. DOMAIN n = ControlFields /\ n.level = o.level /\ n.lerr = o.lerr /\ n.wanted = IF e.failed THEN o.wanted ELSE e.raw
  BY <1>3 DEF NotifyWanted, ControlFields
<1>5. n = Notify(c, e)
  BY DEF Notify, o, l
<1> QED BY <1>1, <1>2, <1>3, <1>4, <1>5

(* GroupStateSource.record_answer: the member followed is the one that answered *)
(* last or the one followed before, and only one that answered is followed.     *)
LEMMA RecordAnswerIs ==
  ASSUME NEW g, DOMAIN g = GroupFields, DOMAIN g.status = D, NEW d \in D, NEW ok \in BOOLEAN
  PROVE  LET r == RecordAnswer(g, d, ok)
         IN /\ DOMAIN r.g = GroupFields /\ DOMAIN r.g.status = D
            /\ \A x \in D \ {d} : r.g.status[x] = g.status[x]
            /\ r.g.level = g.level /\ r.g.lerr = g.lerr /\ r.g.wanted = g.wanted
            /\ CASE r.answer = "take" -> ok /\ r.g.pin = d /\ r.g.status[d] = "ok"
                 [] r.answer = "show" -> ~ok /\ r.g.pin = NoOne
                 [] OTHER -> \/ r.g = g /\ g.status[d] = "no"
                             \/ g.pin \notin {NoOne, d} /\ r.g.pin = g.pin
                             \/ ~ok /\ r.g.pin = NoOne
<1> DEFINE s == [g EXCEPT !.status[d] = IF ok THEN "ok" ELSE "bad"]
           u == [s EXCEPT !.pin = NoOne]
           r == RecordAnswer(g, d, ok)
<1>1. /\ DOMAIN s = GroupFields /\ DOMAIN s.status = D /\ \A x \in D \ {d} : s.status[x] = g.status[x]
      /\ s.level = g.level /\ s.lerr = g.lerr /\ s.wanted = g.wanted /\ s.pin = g.pin
      /\ ok => s.status[d] = "ok"
  BY DEF GroupFields
<1> HIDE DEF s
<1>2. /\ DOMAIN u = GroupFields /\ u.status = s.status /\ u.pin = NoOne
      /\ u.level = g.level /\ u.lerr = g.lerr /\ u.wanted = g.wanted
  BY <1>1 DEF GroupFields
<1> HIDE DEF u
<1>3. CASE g.status[d] = "no"
  BY <1>3 DEF RecordAnswer
<1>4. CASE g.status[d] # "no" /\ g.pin \notin {NoOne, d}
  <2>1. r = [g |-> s, answer |-> "hold"]
    BY <1>4 DEF RecordAnswer, s
  <2> QED BY <2>1, <1>1, <1>4
<1>5. CASE g.status[d] # "no" /\ g.pin \in {NoOne, d} /\ ok
  <2> DEFINE t == [s EXCEPT !.pin = d, !.told = FALSE]
  <2>1. /\ DOMAIN t = GroupFields /\ t.status = s.status /\ t.pin = d
        /\ t.level = s.level /\ t.lerr = s.lerr /\ t.wanted = s.wanted
    BY <1>1 DEF GroupFields
  <2>2. r = [g |-> t, answer |-> "take"]
    BY <1>5 DEF RecordAnswer, s
  <2> HIDE DEF t
  <2> QED BY <2>1, <2>2, <1>1, <1>5
<1>6. CASE g.status[d] # "no" /\ g.pin \in {NoOne, d} /\ ~ok
  <2>1. r = IF AllErrored(u) /\ ~u.told THEN [g |-> [u EXCEPT !.told = TRUE], answer |-> "show"]
            ELSE [g |-> u, answer |-> "hold"]
    BY <1>6 DEF RecordAnswer, s, u
  <2> QED BY <2>1, <1>1, <1>2, <1>6 DEF GroupFields
<1> QED BY <1>3, <1>4, <1>5, <1>6

(* The switch of a group is of no account here.                                 *)
LEMMA GroupOnOff ==
  ASSUME NEW g, DOMAIN g = GroupFields, NEW e
  PROVE  LET n == NotifyOnOff(g, e)
         IN /\ DOMAIN n = GroupFields /\ n.status = g.status /\ n.pin = g.pin
            /\ n.level = g.level /\ n.lerr = g.lerr /\ n.wanted = g.wanted
  BY DEF NotifyOnOff, GroupFields

(* GroupVirtualDevice._take_state                                               *)
LEMMA TakeStateIs ==
  ASSUME NEW g, DOMAIN g = GroupFields, DOMAIN g.status = D, NEW d \in D, NEW c, NEW e, c.lerr \in BOOLEAN
  PROVE  LET r == TakeState(g, d, c, e)
         IN /\ DOMAIN r.g = GroupFields /\ DOMAIN r.g.status = D
            /\ \A x \in D \ {d} : r.g.status[x] = g.status[x]
            /\ r.g.wanted = g.wanted
            /\ \/ r.g.pin = NoOne
               \/ ~c.lerr /\ r.g.pin = d /\ r.g.status[d] = "ok" /\ r.g.level = c.level /\ ~r.g.lerr
               \/ r.g = g /\ g.status[d] = "no"
               \/ g.pin \notin {NoOne, d} /\ r.g.pin = g.pin /\ r.g.level = g.level /\ r.g.lerr = g.lerr
<1> DEFINE ok == ~c.lerr
           q == RecordAnswer(g, d, ok)
           r == TakeState(g, d, c, e)
<1>0. ok \in BOOLEAN
  OBVIOUS
<1> HIDE DEF ok
<1>1. /\ DOMAIN q.g = GroupFields /\ DOMAIN q.g.status = D
      /\ \A x \in D \ {d} : q.g.status[x] = g.status[x]
      /\ q.g.level = g.level /\ q.g.lerr = g.lerr /\ q.g.wanted = g.wanted
      /\ CASE q.answer = "take" -> ok /\ q.g.pin = d /\ q.g.status[d] = "ok"
           [] q.answer = "show" -> ~ok /\ q.g.pin = NoOne
           [] OTHER -> \/ q.g = g /\ g.status[d] = "no"
                       \/ g.pin \notin {NoOne, d} /\ q.g.pin = g.pin
                       \/ ~ok /\ q.g.pin = NoOne
  BY <1>0, RecordAnswerIs
<1> HIDE DEF q
<1>2. CASE q.answer = "take"
  <2> DEFINE t == [q.g EXCEPT !.level = c.level, !.lerr = FALSE]
  <2>1. /\ DOMAIN t = GroupFields /\ t.status = q.g.status /\ t.pin = q.g.pin /\ t.level = c.level
        /\ ~t.lerr /\ t.wanted = q.g.wanted
    BY <1>1 DEF GroupFields
  <2>2. r.g = NotifyOnOff(t, e)
    BY <1>2 DEF TakeState, q, ok
  <2>3. /\ DOMAIN r.g = GroupFields /\ r.g.status = t.status /\ r.g.pin = t.pin
        /\ r.g.level = t.level /\ r.g.lerr = t.lerr /\ r.g.wanted = t.wanted
    <3> HIDE DEF t, r
    <3> QED BY <2>1, <2>2, GroupOnOff
  <2> HIDE DEF t
  <2> QED BY <2>1, <2>3, <1>1, <1>2 DEF ok
<1>3. CASE q.answer = "show"
  <2> DEFINE t == [q.g EXCEPT !.lerr = TRUE]
  <2>1. /\ DOMAIN t = GroupFields /\ t.status = q.g.status /\ t.pin = q.g.pin /\ t.wanted = q.g.wanted
    BY <1>1 DEF GroupFields
  <2>2. r.g = NotifyOnOff(t, e)
    BY <1>3 DEF TakeState, q, ok
  <2>3. /\ DOMAIN r.g = GroupFields /\ r.g.status = t.status /\ r.g.pin = t.pin
        /\ r.g.level = t.level /\ r.g.lerr = t.lerr /\ r.g.wanted = t.wanted
    <3> HIDE DEF t, r
    <3> QED BY <2>1, <2>2, GroupOnOff
  <2> HIDE DEF t
  <2> QED BY <2>1, <2>3, <1>1, <1>3
<1>4. CASE q.answer \notin {"take", "show"}
  <2>1. r.g = q.g
    BY <1>4 DEF TakeState, q, ok
  <2> QED BY <2>1, <1>1, <1>4 DEF ok
<1> QED BY <1>2, <1>3, <1>4

(* An event of one device keeps the group and the member it follows together.   *)
LEMMA DispatchKeeps ==
  ASSUME GroupInv, NEW all, SameShown(ctl, all), NEW d \in D, NEW e, e.failed \in BOOLEAN, NEW by,
         Dispatch(all, d, e, by)
  PROVE  GroupInv'
<1> DEFINE f == Changed(all[d], e)
           c == Notify(all[d], e)
           r == GroupNotify(grp, d, c, e, f)
           t == Takes(e, all[d].lerr)
           l == IF LevelF \subseteq f THEN TakeState(grp, d, c, e) ELSE [answer |-> "hold", g |-> grp]
<1>1. DOMAIN all = D /\ \A x \in D : DOMAIN all[x] = ControlFields /\ all[x].level = ctl[x].level /\ all[x].wanted = ctl[x].wanted
                               /\ all[x].lerr \in BOOLEAN
  BY DEF SameShown, GroupInv, ControlShape
<1>2. /\ DOMAIN c = ControlFields
      /\ ~t => c.level = all[d].level /\ c.lerr = all[d].lerr
      /\ t /\ e.failed => c.lerr = TRUE
      /\ t /\ ~e.failed => c.level = e.raw /\ c.lerr = FALSE
      /\ c.wanted = IF e.failed THEN all[d].wanted ELSE e.raw
  BY <1>1, NotifyIs
<1>3. (LevelF \subseteq f <=> t) /\ ("wanted" \in f <=> ~e.failed) /\ (e.failed => t)
  BY DEF Changed, LevelF, OnF, Takes
<1>4. ctl' = [all EXCEPT ![d] = c] /\ grp' = r.g
  <2>1. f # {}
    BY <1>3 DEF LevelF
  <2> QED BY <2>1 DEF Dispatch
<1>5. ControlShape' /\ ctl'[d] = c /\ \A x \in D \ {d} : ctl'[x] = all[x]
  BY <1>1, <1>2, <1>4 DEF ControlShape
<1>6. r.g = IF "wanted" \in f /\ l.g.pin = d THEN [l.g EXCEPT !.wanted = c.wanted] ELSE l.g
  BY DEF GroupNotify, TakeSetpoint, Leads
<1> HIDE DEF c, f, r
<1>7. CASE ~t
  <2>1. l.g = grp
    BY <1>7, <1>3
  <2> HIDE DEF l, t
  <2> QED BY <2>1, <1>1, <1>2, <1>3, <1>4, <1>5, <1>6, <1>7
          DEF GroupInv, ControlShape, GroupShape, GroupFields, GroupFollowsPin
<1>8. CASE t
  <2>1. l = TakeState(grp, d, c, e) /\ c.lerr \in BOOLEAN
    BY <1>8, <1>3, <1>2
  <2>2. /\ DOMAIN l.g = GroupFields /\ DOMAIN l.g.status = D
        /\ \A x \in D \ {d} : l.g.status[x] = grp.status[x]
        /\ l.g.wanted = grp.wanted
        /\ \/ l.g.pin = NoOne
           \/ ~c.lerr /\ l.g.pin = d /\ l.g.status[d] = "ok" /\ l.g.level = c.level /\ ~l.g.lerr
           \/ l.g = grp /\ grp.status[d] = "no"
           \/ grp.pin \notin {NoOne, d} /\ l.g.pin = grp.pin /\ l.g.level = grp.level /\ l.g.lerr = grp.lerr
    BY <2>1, TakeStateIs DEF GroupInv, GroupShape
  <2> HIDE DEF l, t
  <2>3. CASE l.g.pin = NoOne
    BY <2>2, <2>3, <1>4, <1>5, <1>6 DEF GroupInv, GroupShape, GroupFields, GroupFollowsPin
  <2>4. CASE ~c.lerr /\ l.g.pin = d /\ l.g.status[d] = "ok" /\ l.g.level = c.level /\ ~l.g.lerr
    BY <2>2, <2>4, <1>2, <1>3, <1>4, <1>5, <1>6, <1>8 DEF GroupInv, GroupShape, GroupFields, GroupFollowsPin
  <2>5. CASE l.g = grp /\ grp.status[d] = "no" /\ grp.pin # NoOne
    <3>1. grp.pin \in D \ {d}
      BY <2>5 DEF GroupInv, GroupShape, GroupFollowsPin
    <3> QED BY <3>1, <2>5, <1>1, <1>4, <1>5, <1>6 DEF GroupInv, GroupShape, GroupFollowsPin
  <2>6. CASE grp.pin \notin {NoOne, d} /\ l.g.pin = grp.pin /\ l.g.level = grp.level /\ l.g.lerr = grp.lerr
    BY <2>2, <2>6, <1>1, <1>4, <1>5, <1>6 DEF GroupInv, GroupShape, GroupFollowsPin
  <2> QED BY <2>2, <2>3, <2>4, <2>5, <2>6
<1> QED BY <1>7, <1>8

---------------------------------------------------------------------------
(* Lists of commands and of devices.                                            *)

LEMMA FirstPosition ==
  ASSUME NEW T \in SUBSET Nat, T # {}
  PROVE  \E k \in T : \A i \in T : k <= i
<1>1. PICK k \in T : \A i \in T : ~(<<i, k>> \in OpToRel(<, Nat))
  BY NatLessThanWellFounded, WFMin, Zenon
<1>2. ASSUME NEW i \in T PROVE k <= i
  <2>1. ~(i < k)
    BY <1>1 DEF OpToRel
  <2> QED BY <2>1
<1> QED BY <1>2

(* The lists joined up to the i-th.                                             *)
JoinedUpTo(ss, n, f) == f = [i \in 1 .. n |-> IF i = 1 THEN ss[i] ELSE f[i - 1] \o ss[i]]

LEMMA JoinedAt ==
  ASSUME NEW ss, NEW n \in Nat, NEW f, JoinedUpTo(ss, n, f), NEW i \in 1 .. n
  PROVE  f[i] = IF i = 1 THEN ss[i] ELSE f[i - 1] \o ss[i]
<1> DEFINE g == [j \in 1 .. n |-> IF j = 1 THEN ss[j] ELSE f[j - 1] \o ss[j]]
<1>1. f = g
  BY DEF JoinedUpTo
<1>2. g[i] = IF i = 1 THEN ss[i] ELSE f[i - 1] \o ss[i]
  OBVIOUS
<1> HIDE DEF g
<1> QED BY <1>1, <1>2

LEMMA JoinedExists ==
  ASSUME NEW ss, Len(ss) \in Nat, NEW n \in 0 .. Len(ss)
  PROVE  \E f : JoinedUpTo(ss, n, f)
<1> DEFINE P(k) == \E f : JoinedUpTo(ss, k, f)
<1>1. P(0)
  <2>1. JoinedUpTo(ss, 0, [i \in {} |-> ss])
    BY DEF JoinedUpTo
  <2> QED BY <2>1
<1>2. ASSUME NEW k \in 0 .. Len(ss), k + 1 <= Len(ss), P(k) PROVE P(k + 1)
  <2>1. PICK f : JoinedUpTo(ss, k, f)
    BY <1>2
  <2> DEFINE g == [i \in 1 .. k + 1 |-> IF i = k + 1 THEN IF k = 0 THEN ss[1] ELSE f[k] \o ss[k + 1] ELSE f[i]]
             h == [i \in 1 .. k + 1 |-> IF i = 1 THEN ss[i] ELSE g[i - 1] \o ss[i]]
  <2>2. ASSUME NEW i \in 1 .. k + 1 PROVE g[i] = h[i]
    <3>1. CASE i = k + 1 /\ k = 0
      BY <3>1
    <3>2. CASE i = k + 1 /\ k # 0
      <4>1. k \in 1 .. k + 1 /\ g[k] = f[k] /\ i - 1 = k /\ i # 1
        BY <3>2
      <4> QED BY <3>2, <4>1
    <3>3. CASE i # k + 1
      <4>1. i \in 1 .. k /\ f[i] = IF i = 1 THEN ss[i] ELSE f[i - 1] \o ss[i]
        BY <2>1, <3>3, JoinedAt
      <4>2. i # 1 => i - 1 \in 1 .. k + 1 /\ i - 1 # k + 1 /\ g[i - 1] = f[i - 1]
        BY <4>1
      <4> QED BY <3>3, <4>1, <4>2
    <3> QED BY <3>1, <3>2, <3>3
  <2>3. g = h
    BY <2>2
  <2>4. JoinedUpTo(ss, k + 1, g)
    BY <2>3 DEF JoinedUpTo
  <2> QED BY <2>4
<1> DEFINE T == {i \in 0 .. Len(ss) : ~P(i)}
<1>3. T = {}
  <2> SUFFICES ASSUME T # {} PROVE FALSE
    OBVIOUS
  <2>1. T \in SUBSET Nat
    OBVIOUS
  <2>2. PICK k \in T : \A i \in T : k <= i
    <3> HIDE DEF T
    <3> QED BY <2>1, FirstPosition
  <2> HIDE DEF P
  <2>3. k \in 0 .. Len(ss) /\ ~P(k) /\ k # 0
    BY <1>1
  <2>4. k - 1 \in 0 .. Len(ss) /\ ~(k <= k - 1) /\ k - 1 + 1 = k
    BY <2>3
  <2>5. P(k - 1)
    BY <2>2, <2>4
  <2> QED BY <1>2, <2>3, <2>4, <2>5
<1> QED BY <1>3

(* Lists of a kind that can be joined give a list of that kind.                 *)
LEMMA JoinedIsIn ==
  ASSUME NEW T, \A p, q \in T : p \o q \in T, NEW ss \in Seq(T), NEW f, JoinedUpTo(ss, Len(ss), f), NEW n \in 1 .. Len(ss)
  PROVE  f[n] \in T
<1> DEFINE U == {i \in 1 .. Len(ss) : f[i] \notin T}
<1>1. U = {}
  <2> SUFFICES ASSUME U # {} PROVE FALSE
    OBVIOUS
  <2>1. U \in SUBSET Nat
    OBVIOUS
  <2>2. PICK k \in U : \A i \in U : k <= i
    <3> HIDE DEF U
    <3> QED BY <2>1, FirstPosition
  <2>3. k \in 1 .. Len(ss) /\ f[k] \notin T /\ ss[k] \in T /\ f[k] = IF k = 1 THEN ss[k] ELSE f[k - 1] \o ss[k]
    BY JoinedAt
  <2>4. k # 1 /\ k - 1 \in 1 .. Len(ss) /\ ~(k <= k - 1)
    BY <2>3
  <2>5. f[k - 1] \in T
    BY <2>2, <2>4
  <2> QED BY <2>3, <2>4, <2>5
<1> QED BY <1>1

LEMMA FlattenIsIn ==
  ASSUME NEW T, <<>> \in T, \A p, q \in T : p \o q \in T, NEW ss \in Seq(T)
  PROVE  FlattenSeq(ss) \in T
<1> DEFINE fl == CHOOSE f : JoinedUpTo(ss, Len(ss), f)
<1>1. FlattenSeq(ss) = IF Len(ss) = 0 THEN ss ELSE fl[Len(ss)]
  BY DEF FlattenSeq, JoinedUpTo
<1>2. CASE Len(ss) = 0
  <2>1. ss = <<>>
    BY <1>2
  <2> QED BY <1>1, <1>2, <2>1
<1>3. CASE Len(ss) # 0
  <2>1. Len(ss) \in Nat /\ Len(ss) \in 0 .. Len(ss) /\ Len(ss) \in 1 .. Len(ss)
    BY <1>3
  <2>2. JoinedUpTo(ss, Len(ss), fl)
    BY <2>1, JoinedExists
  <2> HIDE DEF fl
  <2>3. fl[Len(ss)] \in T
    BY <2>1, <2>2, JoinedIsIn
  <2> QED BY <1>1, <1>3, <2>3
<1> QED BY <1>2, <1>3

LEMMA FlattenIsList ==
  ASSUME NEW S, NEW ss \in Seq(Seq(S))
  PROVE  FlattenSeq(ss) \in Seq(S)
<1> DEFINE T == Seq(S)
<1>1. <<>> \in T /\ \A p, q \in T : p \o q \in T
  OBVIOUS
<1>2. ss \in Seq(T)
  OBVIOUS
<1> HIDE DEF T
<1>3. FlattenSeq(ss) \in T
  BY <1>1, <1>2, FlattenIsIn
<1> QED BY <1>3 DEF T

LEMMA InOrderIsList ==
  ASSUME NEW s
  PROVE  InOrder(s) \in Seq(D)
<1> DEFINE ss == [i \in DOMAIN Devices |-> IF Devices[i] \in s THEN <<Devices[i]>> ELSE <<>>]
<1>1. Devices \in Seq(D) /\ DOMAIN Devices = 1 .. Len(Devices) /\ Len(Devices) \in Nat
  BY DevicesAssumption
<1>2. ss \in Seq(Seq(D))
  <2>1. \A i \in 1 .. Len(Devices) : ss[i] \in Seq(D)
    BY <1>1
  <2>2. ss = [i \in 1 .. Len(Devices) |-> ss[i]]
    BY <1>1
  <2> HIDE DEF ss
  <2> QED BY <1>1, <2>1, <2>2
<1> QED BY <1>2, FlattenIsList DEF InOrder

---------------------------------------------------------------------------
(* The commands on their way, and the devices they and the polls name.          *)

Targets  == Seq(D) \ {<<>>}
Commands == [op : {"off", "stepUp", "up", "scene", "query"}, to : Targets]
            \cup [op : {"dapc", "fade"}, v : Int, to : Targets]
            \cup [op : {"dtr0"}, v : Int, to : {<<>>}]
TaskIds  == {Min(S) : S \in SUBSET (1 .. MaxEvents + 1)}
Jobs     == [id : TaskIds, cmd : Commands, todo : Targets]

ListsInv ==
  /\ frames \in Seq(Commands) /\ tasks \in Seq(Jobs) /\ queue \in Seq(Shown)
  /\ fade \in [D -> Int] /\ dtr \in Int
  /\ DOMAIN loop = {"at", "asked", "got"}
  /\ loop.at \in {"asking", "telling"} => loop.asked \in Seq(D)

(* A switch has a value to set as long as it waits in the queue, the one written *)
(* last; what has left the queue is what was carried out.                       *)
WriteInv ==
  /\ want \in [Shown -> {NoWrite, "0", "1"}] /\ DOMAIN asked = Shown
  /\ \A x \in Shown :
       /\ DOMAIN asked[x] = {"wrote", "done"}
       /\ want[x] # NoWrite <=> x \in Range(queue)
       /\ want[x] # NoWrite => asked[x].wrote = want[x]
       /\ want[x] = NoWrite => asked[x].wrote = asked[x].done

LevelInv == GroupInv /\ ListsInv /\ WriteInv

LEMMA InitLevel == Init => LevelInv
<1> SUFFICES ASSUME Init PROVE LevelInv
  OBVIOUS
<1>1. ControlShape
  <2>1. PICK ok \in [D -> BOOLEAN] : ctl = [x \in D |-> StartControls(gear[x], ok[x])]
    BY DEF Init
  <2>2. ASSUME NEW x \in D
        PROVE  DOMAIN StartControls(gear[x], ok[x]) = ControlFields /\ StartControls(gear[x], ok[x]).lerr = ~ok[x]
    BY DEF StartControls, ControlFields
  <2>3. ASSUME NEW x \in D PROVE (~ok[x]) \in BOOLEAN
    <3> DEFINE b == ok[x]
    <3>1. b = TRUE \/ b = FALSE
      BY <2>1
    <3> HIDE DEF b
    <3>2. (~b) \in BOOLEAN
      BY <3>1
    <3> QED BY <3>2 DEF b
  <2> QED BY <2>1, <2>2, <2>3 DEF ControlShape
<1>2. grp.pin = NoOne /\ DOMAIN grp = GroupFields /\ DOMAIN grp.status = D
  BY DEF Init, FreshGroup, GroupFields
<1>3. GroupInv
  BY <1>1, <1>2 DEF GroupInv, GroupShape, GroupFollowsPin
<1>4. ListsInv
  <2>1. <<>> \in Seq(Commands) /\ <<>> \in Seq(Jobs) /\ <<>> \in Seq(Shown)
    OBVIOUS
  <2>2. fade \in [D -> Int]
    BY StartAssumption DEF Init
  <2> QED BY <2>1, <2>2 DEF Init, ListsInv, Idle
<1>5. WriteInv
  BY DEF Init, WriteInv, NoWrite, Range
<1> QED BY <1>3, <1>4, <1>5 DEF LevelInv

LEMMA SyncedIsList ==
  ASSUME NEW cs \in Seq(Commands)
  PROVE  Synced(cs) \in Seq(Commands)
  BY DEF Synced

LEMMA SendKeeps ==
  ASSUME ListsInv, NEW cs \in Seq(Commands), Send(cs)
  PROVE  frames' \in Seq(Commands)
  BY SyncedIsList DEF Send, ListsInv

(* OnOffControl.get_setup_commands                                              *)
LEMMA SetupIsList ==
  ASSUME ListsInv, NEW x \in Shown, NEW v
  PROVE  SetupCommands(x, v) \in Seq(Commands)
<1> DEFINE to == IF x = Group THEN InOrder(Candidates(grp)) ELSE <<x>>
           on == [op |-> "dapc", v |-> MaxLevel, to |-> to]
           set(f) == <<[op |-> "dtr0", v |-> f, to |-> <<>>], [op |-> "fade", v |-> f, to |-> to]>>
<1>1. to \in Seq(D)
  BY InOrderIsList DEF Shown
<1> HIDE DEF to
<1>2. CASE to = <<>>
  BY <1>2 DEF SetupCommands, to
<1>3. CASE to # <<>>
  <2>1. to \in Targets
    BY <1>1, <1>3 DEF Targets
  <2>2. on \in Commands /\ [op |-> "off", to |-> to] \in Commands
    BY <2>1, LevelAssumption DEF Commands
  <2>3. ASSUME NEW f \in Int PROVE set(f) \in Seq(Commands)
    <3>1. [op |-> "dtr0", v |-> f, to |-> <<>>] \in Commands /\ [op |-> "fade", v |-> f, to |-> to] \in Commands
      BY <2>1 DEF Commands
    <3> QED BY <3>1
  <2>4. WithFade(x, to, on) \in Seq(Commands)
    <3> DEFINE prior == IF x = Group THEN NoFade ELSE fade[x]
    <3>1. OnFade \in Int /\ prior \in Int
      BY FadeAssumption DEF ListsInv, Shown, NoFade
    <3>2. set(OnFade) \in Seq(Commands) /\ set(prior) \in Seq(Commands) /\ <<on>> \in Seq(Commands) /\ <<>> \in Seq(Commands)
      BY <2>2, <2>3, <3>1
    <3>3. WithFade(x, to, on) = IF OnFade = NoFade THEN <<on>>
                                ELSE (IF prior # OnFade THEN set(OnFade) ELSE <<>>) \o <<on>>
                                     \o (IF prior \notin {NoFade, OnFade} THEN set(prior) ELSE <<>>)
      BY DEF WithFade
    <3> HIDE DEF on, set, prior
    <3> QED BY <3>2, <3>3
  <2>5. SwitchCommands(x, to, v) \in Seq(Commands)
    BY <2>2, <2>4 DEF SwitchCommands
  <2> QED BY <2>5 DEF SetupCommands, to
<1> QED BY <1>2, <1>3

(* An event reaches the devices from the front up to one that shows it.         *)
LEMMA UptoIs ==
  ASSUME NEW x, NEW to \in Targets
  PROVE  Upto(x, to) \in 1 .. Len(to)
<1> DEFINE I == {i \in 1 .. Len(to) : Told(x, to[i])}
<1>1. to \in Seq(D) /\ Len(to) \in 1 .. Len(to) /\ DOMAIN to = 1 .. Len(to) /\ I \in SUBSET Nat
  BY DEF Targets
<1>2. CASE I # {}
  <2> HIDE DEF I
  <2>1. Min(I) \in I
    BY <1>1, <1>2, FirstPosition DEF Min
  <2>2. Upto(x, to) = Min(I)
    BY <1>1, <1>2 DEF Upto, SelectInSeq, I
  <2> QED BY <2>1, <2>2 DEF I
<1>3. CASE I = {}
  BY <1>1, <1>3 DEF Upto
<1> QED BY <1>2, <1>3

LEMMA RestIsList ==
  ASSUME NEW x, NEW to \in Targets
  PROVE  Rest(x, to) \in Seq(D)
<1>1. to \in Seq(D) /\ Len(to) \in Nat /\ Upto(x, to) \in 1 .. Len(to)
  BY UptoIs DEF Targets
<1>2. SubSeq(to, Upto(x, to) + 1, Len(to)) \in Seq(D)
  BY <1>1
<1> QED BY <1>2 DEF Rest

(* _apply_level                                                                 *)
LEMMA ApplyKeeps ==
  ASSUME GroupInv, NEW x, NEW to \in Targets, NEW by, ApplyLevel(x, to, by)
  PROVE  GroupInv'
<1> DEFINE n     == Upto(x, to)
           d     == to[n]
           at(e) == SettleFor(Basis(x.op), fade[e])
           past  == [e \in D |-> IF e \in Range(SubSeq(to, 1, n)) /\ ~Told(x, e) THEN PollAt(ctl[e], at(e)) ELSE ctl[e]]
<1>1. d \in D
  BY UptoIs DEF Targets
<1>2. SameShown(ctl, past)
  <2>1. ASSUME NEW e \in D PROVE DOMAIN ctl[e] = ControlFields
    BY DEF GroupInv, ControlShape
  <2> QED BY <2>1, PolledAt DEF SameShown
<1>3. CASE Told(x, d)
  <2> DEFINE e == ObservedEvent(Predict(ctl[d], d, x), at(d))
  <2>1. Dispatch(past, d, e, by) /\ e.failed \in BOOLEAN
    BY <1>3 DEF ApplyLevel, ObservedEvent
  <2> HIDE DEF past, d, e
  <2> QED BY <1>1, <1>2, <2>1, DispatchKeeps
<1>4. CASE ~Told(x, d)
  <2>1. ctl' = past /\ grp' = grp
    BY <1>4 DEF ApplyLevel
  <2> HIDE DEF past
  <2> QED BY <1>2, <2>1, GroupKept
<1> QED BY <1>3, <1>4

---------------------------------------------------------------------------
(* The steps.                                                                   *)

(* Whatever comes first, a group shows what the member it follows shows.        *)
LEMMA GroupStep ==
  ASSUME LevelInv, [Next]_vars
  PROVE  GroupInv'
<1> USE DEF LevelInv
<1>0. GroupInv /\ \A d \in D : DOMAIN ctl[d] = ControlFields
  BY DEF GroupInv, ControlShape
<1>1. CASE UNCHANGED <<ctl, grp>>
  BY <1>0, <1>1 DEF GroupInv, ControlShape, GroupShape, GroupFollowsPin
<1>2. CASE Tick \/ ComesRound \/ PollStart \/ Rebuild
  <2>1. SameShown(ctl, ctl')
    <3> USE DEF SameShown, ControlFields
    <3>1. CASE Tick
      BY <1>0, <3>1 DEF Tick
    <3>2. CASE ComesRound
      BY <1>0, <3>2 DEF ComesRound, GroupInv, ControlShape
    <3>3. CASE PollStart
      BY <1>0, <3>3 DEF PollStart
    <3>4. CASE Rebuild
      BY <1>0, <3>4 DEF Rebuild, Carried, GroupInv, ControlShape
    <3> QED BY <1>2, <3>1, <3>2, <3>3, <3>4
  <2>2. UNCHANGED grp
    BY <1>2 DEF Tick, ComesRound, PollStart, Rebuild
  <2> QED BY <2>1, <2>2, GroupKept
<1>3. CASE StartTask
  <2> DEFINE x == Head(frames)
  <2>1. x \in Commands
    BY <1>3 DEF StartTask, ListsInv
  <2>2. CASE x.op \in {"dtr0", "fade"}
    BY <1>1, <1>3, <2>2 DEF StartTask
  <2>3. CASE x.op \notin {"dtr0", "fade"}
    <3>1. x.to \in Targets
      BY <2>1, <2>3 DEF Commands
    <3>2. \E id : ApplyLevel(x, x.to, id)
      BY <1>3, <2>3 DEF StartTask
    <3> QED BY <3>1, <3>2, ApplyKeeps
  <2> QED BY <2>2, <2>3
<1>4. CASE StepTask
  <2>1. PICK i \in DOMAIN tasks : ApplyLevel(tasks[i].cmd, tasks[i].todo, tasks[i].id)
    BY <1>4 DEF StepTask
  <2>2. tasks[i] \in Jobs
    BY <2>1 DEF ListsInv
  <2>3. tasks[i].todo \in Targets
    BY <2>2 DEF Jobs
  <2> QED BY <2>1, <2>3, ApplyKeeps
<1>5. CASE PollTell
  <2>1. CASE loop.asked = <<>>
    BY <1>1, <1>5, <2>1 DEF PollTell
  <2>2. CASE loop.asked # <<>>
    <3> DEFINE d == Head(loop.asked)
               e == ReadEvent(Head(loop.got))
    <3>1. d \in D
      BY <1>5, <2>2 DEF PollTell, ListsInv
    <3>2. Dispatch(ctl, d, e, 0) /\ e.failed \in BOOLEAN
      BY <1>5, <2>2 DEF PollTell, ReadEvent
    <3>3. SameShown(ctl, ctl)
      BY DEF SameShown, GroupInv, ControlShape
    <3> HIDE DEF d, e
    <3> QED BY <3>1, <3>2, <3>3, DispatchKeeps
  <2> QED BY <2>1, <2>2
<1>6. CASE Executed
  <2> DEFINE v(x) == loop.got[SelectInSeq(loop.asked, LAMBDA y : y = x)]
             kept(x) == x \in Range(loop.asked) /\ v(x) # NoWrite
  <2>1. ctl' = [d \in D |-> IF kept(d) THEN [ctl[d] EXCEPT !.on = v(d) = "1"] ELSE ctl[d]]
        /\ grp' = IF kept(Group) THEN [grp EXCEPT !.on = v(Group) = "1"] ELSE grp
    BY <1>6 DEF Executed
  <2> HIDE DEF v, kept
  <2>2. ASSUME NEW d \in D
        PROVE  /\ DOMAIN ctl'[d] = ControlFields /\ ctl'[d].level = ctl[d].level
               /\ ctl'[d].lerr = ctl[d].lerr /\ ctl'[d].wanted = ctl[d].wanted
    BY <1>0, <2>1 DEF ControlFields
  <2>3. DOMAIN ctl' = D
    BY <2>1
  <2>4. /\ DOMAIN grp' = GroupFields /\ grp'.status = grp.status /\ grp'.pin = grp.pin
        /\ grp'.level = grp.level /\ grp'.lerr = grp.lerr /\ grp'.wanted = grp.wanted
    BY <2>1 DEF GroupInv, GroupShape, GroupFields
  <2> QED BY <2>2, <2>3, <2>4 DEF GroupInv, ControlShape, GroupShape, GroupFollowsPin
<1>7. CASE Regroup
  <2>1. UNCHANGED ctl
    BY <1>7 DEF Regroup
  <2>2. PICK members \in SUBSET D : grp' = UpdateCandidates(grp, members) \/ grp' = FreshGroup(members)
    BY <1>7 DEF Regroup
  <2>3. CASE grp' = UpdateCandidates(grp, members)
    <3>1. /\ DOMAIN grp' = GroupFields /\ DOMAIN grp'.status = D
          /\ grp'.pin = IF grp.pin \in members THEN grp.pin ELSE NoOne
          /\ \A d \in members : grp.status[d] = "ok" => grp'.status[d] = "ok"
          /\ grp'.level = grp.level /\ grp'.lerr = grp.lerr /\ grp'.wanted = grp.wanted
      BY <2>3 DEF UpdateCandidates, GroupInv, GroupShape, GroupFields
    <3> QED BY <2>1, <3>1 DEF GroupInv, ControlShape, GroupShape, GroupFollowsPin
  <2>4. CASE grp' = FreshGroup(members)
    <3>1. DOMAIN grp' = GroupFields /\ DOMAIN grp'.status = D /\ grp'.pin = NoOne
      BY <2>4 DEF FreshGroup, GroupFields
    <3> QED BY <2>1, <3>1 DEF GroupInv, ControlShape, GroupShape, GroupFollowsPin
  <2> QED BY <2>2, <2>3, <2>4
<1> QED
  BY <1>1, <1>2, <1>3, <1>4, <1>5, <1>6, <1>7
  DEF Next, vars, Foreign, Publish, PollAnswer, Write, Execute

(* Commands, tasks, polls and writes only ever name devices there are.          *)
LEMMA ListsStep ==
  ASSUME LevelInv, [Next]_vars
  PROVE  ListsInv'
<1> USE DEF LevelInv
<1>0. ListsInv
  OBVIOUS
<1>1. CASE UNCHANGED <<frames, tasks, queue, fade, dtr, loop>>
  BY <1>0, <1>1 DEF ListsInv
<1>2. CASE Foreign
  <2>1. PICK to \in {<<d>> : d \in D} \cup {Devices} :
          \/ \E op \in {"off", "stepUp", "up", "scene", "query"} : Send(<<[op |-> op, to |-> to]>>)
          \/ \E v \in 0 .. MaxLevel : Send(<<[op |-> "dapc", v |-> v, to |-> to]>>)
          \/ \E f \in {0, 1} : Send(<<[op |-> "dtr0", v |-> f, to |-> <<>>], [op |-> "fade", v |-> f, to |-> to]>>)
    BY <1>2 DEF Foreign
  <2>2. to \in Targets
    <3>1. CASE to = Devices
      BY <3>1, DevicesAssumption DEF Targets
    <3>2. CASE \E d \in D : to = <<d>>
      <4>1. PICK d \in D : to = <<d>>
        BY <3>2
      <4>2. <<d>> \in Seq(D) /\ <<d>> # <<>>
        OBVIOUS
      <4> QED BY <4>1, <4>2 DEF Targets
    <3> QED BY <2>1, <3>1, <3>2
  <2>3. \E cs \in Seq(Commands) : Send(cs)
    <3>1. ASSUME NEW op \in {"off", "stepUp", "up", "scene", "query"}
          PROVE  [op |-> op, to |-> to] \in Commands
      BY <2>2 DEF Commands
    <3>2. ASSUME NEW v \in 0 .. MaxLevel PROVE [op |-> "dapc", v |-> v, to |-> to] \in Commands
      BY <2>2, LevelAssumption DEF Commands
    <3>3. ASSUME NEW f \in {0, 1}
          PROVE  [op |-> "dtr0", v |-> f, to |-> <<>>] \in Commands /\ [op |-> "fade", v |-> f, to |-> to] \in Commands
      BY <2>2 DEF Commands
    <3> HIDE DEF Commands
    <3>4. CASE \E op \in {"off", "stepUp", "up", "scene", "query"} : Send(<<[op |-> op, to |-> to]>>)
      <4>1. PICK op \in {"off", "stepUp", "up", "scene", "query"} : Send(<<[op |-> op, to |-> to]>>)
        BY <3>4
      <4>2. <<[op |-> op, to |-> to]>> \in Seq(Commands)
        BY <3>1
      <4> QED BY <4>1, <4>2
    <3>5. CASE \E v \in 0 .. MaxLevel : Send(<<[op |-> "dapc", v |-> v, to |-> to]>>)
      <4>1. PICK v \in 0 .. MaxLevel : Send(<<[op |-> "dapc", v |-> v, to |-> to]>>)
        BY <3>5
      <4>2. <<[op |-> "dapc", v |-> v, to |-> to]>> \in Seq(Commands)
        BY <3>2
      <4> QED BY <4>1, <4>2
    <3>6. CASE \E f \in {0, 1} : Send(<<[op |-> "dtr0", v |-> f, to |-> <<>>], [op |-> "fade", v |-> f, to |-> to]>>)
      <4>1. PICK f \in {0, 1} : Send(<<[op |-> "dtr0", v |-> f, to |-> <<>>], [op |-> "fade", v |-> f, to |-> to]>>)
        BY <3>6
      <4>2. <<[op |-> "dtr0", v |-> f, to |-> <<>>], [op |-> "fade", v |-> f, to |-> to]>> \in Seq(Commands)
        BY <3>3
      <4> QED BY <4>1, <4>2
    <3> QED BY <2>1, <3>4, <3>5, <3>6
  <2>4. frames' \in Seq(Commands)
    BY <2>3, <1>0, SendKeeps
  <2> QED BY <1>0, <1>2, <2>4 DEF Foreign, ListsInv
<1>3. CASE StartTask
  <2> DEFINE x  == Head(frames)
             id == Min((1 .. MaxEvents + 1) \ {tasks[i].id : i \in DOMAIN tasks})
  <2>1. x \in Commands /\ frames' \in Seq(Commands)
    BY <1>0, <1>3 DEF StartTask, ListsInv
  <2>2. CASE x.op = "dtr0"
    <3>1. x.v \in Int /\ dtr' = x.v /\ UNCHANGED <<fade, tasks, queue, loop>>
      BY <1>3, <2>1, <2>2 DEF StartTask, Commands
    <3> QED BY <1>0, <2>1, <3>1 DEF ListsInv
  <2>3. CASE x.op = "fade"
    <3>1. fade' = [d \in D |-> IF d \in Range(x.to) THEN dtr ELSE fade[d]] /\ UNCHANGED <<dtr, tasks, queue, loop>>
      BY <1>3, <2>3 DEF StartTask
    <3>2. fade' \in [D -> Int]
      BY <1>0, <3>1 DEF ListsInv
    <3> QED BY <1>0, <2>1, <3>1, <3>2 DEF ListsInv
  <2>4. CASE x.op \notin {"dtr0", "fade"}
    <3>1. x.to \in Targets
      BY <2>1, <2>4 DEF Commands
    <3>2. id \in TaskIds
      BY DEF TaskIds
    <3> HIDE DEF id
    <3>3. Rest(x, x.to) \in Seq(D)
      BY <3>1, RestIsList
    <3>4. /\ tasks' = IF Rest(x, x.to) = <<>> THEN tasks
                      ELSE Append(tasks, [id |-> id, cmd |-> x, todo |-> Rest(x, x.to)])
          /\ UNCHANGED <<fade, dtr, queue, loop>>
      BY <1>3, <2>4 DEF StartTask, id
    <3>5. Rest(x, x.to) # <<>> => [id |-> id, cmd |-> x, todo |-> Rest(x, x.to)] \in Jobs
      BY <2>1, <3>2, <3>3 DEF Jobs, Targets
    <3>6. tasks' \in Seq(Jobs)
      BY <1>0, <3>4, <3>5 DEF ListsInv
    <3> QED BY <1>0, <2>1, <3>4, <3>6 DEF ListsInv
  <2> QED BY <2>2, <2>3, <2>4
<1>4. CASE StepTask
  <2>1. PICK i \in DOMAIN tasks :
          tasks' = IF Rest(tasks[i].cmd, tasks[i].todo) = <<>> THEN RemoveAt(tasks, i)
                   ELSE [tasks EXCEPT ![i].todo = Rest(tasks[i].cmd, tasks[i].todo)]
    BY <1>4 DEF StepTask
  <2> DEFINE k == tasks[i]
             r == Rest(k.cmd, k.todo)
  <2>2. tasks \in Seq(Jobs) /\ DOMAIN tasks = 1 .. Len(tasks) /\ Len(tasks) \in Nat /\ k \in Jobs
    BY <1>0, <2>1 DEF ListsInv
  <2>3. r \in Seq(D)
    <3>1. k.todo \in Targets
      BY <2>2 DEF Jobs
    <3> QED BY <3>1, RestIsList
  <2> HIDE DEF r
  <2>4. CASE r = <<>>
    <3>1. SubSeq(tasks, 1, i - 1) \in Seq(Jobs) /\ SubSeq(tasks, i + 1, Len(tasks)) \in Seq(Jobs)
      BY <2>1, <2>2
    <3>2. tasks' = SubSeq(tasks, 1, i - 1) \o SubSeq(tasks, i + 1, Len(tasks))
      BY <2>1, <2>4 DEF RemoveAt, r
    <3>3. tasks' \in Seq(Jobs)
      BY <3>1, <3>2
    <3> QED BY <1>0, <1>4, <3>3 DEF StepTask, ListsInv
  <2>5. CASE r # <<>>
    <3> DEFINE n == [k EXCEPT !.todo = r]
    <3>1. n \in Jobs
      BY <2>2, <2>3, <2>5 DEF Jobs, Targets
    <3>2. tasks' = [tasks EXCEPT ![i] = n]
      BY <2>1, <2>5 DEF r
    <3> HIDE DEF n, k
    <3>3. tasks' \in Seq(Jobs)
      BY <2>1, <2>2, <3>1, <3>2, SMTT(20)
    <3> QED BY <1>0, <1>4, <3>3 DEF StepTask, ListsInv
  <2> QED BY <2>4, <2>5
<1>5. CASE PollStart
  <2>1. InOrder({d \in D : Due(d)}) \in Seq(D)
    BY InOrderIsList
  <2> QED BY <1>0, <1>5, <2>1 DEF PollStart, ListsInv
<1>6. CASE PollAnswer
  <2>1. loop'.asked = loop.asked /\ DOMAIN loop' = DOMAIN loop
    BY <1>0, <1>6 DEF PollAnswer, ListsInv
  <2> QED BY <1>0, <1>6, <2>1 DEF PollAnswer, ListsInv
<1>7. CASE PollTell
  <2>1. CASE loop.asked = <<>>
    BY <1>0, <1>7, <2>1 DEF PollTell, ListsInv, Idle
  <2>2. CASE loop.asked # <<>>
    <3>1. loop.asked \in Seq(D) /\ DOMAIN loop' = DOMAIN loop /\ loop'.asked = Tail(loop.asked)
      BY <1>0, <1>7, <2>2 DEF PollTell, ListsInv
    <3> QED BY <1>0, <1>7, <2>2, <3>1 DEF PollTell, ListsInv
  <2> QED BY <2>1, <2>2
<1>8. CASE Write
  <2>1. queue' \in Seq(Shown)
    BY <1>0, <1>8 DEF Write, ListsInv
  <2> QED BY <1>0, <1>8, <2>1 DEF Write, ListsInv
<1>9. CASE Execute
  <2>1. PICK lost \in {0} \cup DOMAIN queue :
          LET vs == [i \in DOMAIN queue |-> want[queue[i]]]
          IN /\ Send(FlattenSeq([i \in DOMAIN queue |-> IF i = lost THEN <<>> ELSE SetupCommands(queue[i], vs[i])]))
             /\ loop' = [at |-> "writing", asked |-> queue, got |-> [i \in DOMAIN queue |-> IF i = lost THEN NoWrite ELSE vs[i]]]
    BY <1>9 DEF Execute
  <2> DEFINE vs == [i \in DOMAIN queue |-> want[queue[i]]]
             ss == [i \in DOMAIN queue |-> IF i = lost THEN <<>> ELSE SetupCommands(queue[i], vs[i])]
  <2>2. ss \in Seq(Seq(Commands))
    <3>1. DOMAIN queue = 1 .. Len(queue) /\ Len(queue) \in Nat /\ \A i \in DOMAIN queue : queue[i] \in Shown
      BY <1>0 DEF ListsInv
    <3> HIDE DEF vs
    <3>2. \A i \in 1 .. Len(queue) : ss[i] \in Seq(Commands)
      BY <1>0, <3>1, SetupIsList
    <3>3. ss = [i \in 1 .. Len(queue) |-> ss[i]]
      BY <3>1
    <3> HIDE DEF ss
    <3> QED BY <3>1, <3>2, <3>3
  <2>3. frames' \in Seq(Commands)
    <3>1. Send(FlattenSeq(ss))
      BY <2>1
    <3> HIDE DEF ss
    <3> QED BY <1>0, <2>2, <3>1, FlattenIsList, SendKeeps
  <2>4. DOMAIN loop' = {"at", "asked", "got"} /\ loop'.at = "writing"
    BY <2>1
  <2>5. queue' = <<>> /\ UNCHANGED <<fade, dtr, tasks>>
    BY <1>9 DEF Execute
  <2> QED BY <1>0, <2>3, <2>4, <2>5 DEF ListsInv
<1>10. CASE Executed
  BY <1>0, <1>10 DEF Executed, ListsInv, Idle
<1> QED
  BY <1>1, <1>2, <1>3, <1>4, <1>5, <1>6, <1>7, <1>8, <1>9, <1>10
  DEF Next, vars, Tick, Publish, ComesRound, Rebuild, Regroup

LEMMA RangeAppended ==
  ASSUME NEW q \in Seq(Shown), NEW x \in Shown
  PROVE  Range(Append(q, x)) = Range(q) \cup {x}
<1> DEFINE a == Append(q, x)
<1>1. /\ DOMAIN q = 1 .. Len(q) /\ DOMAIN a = 1 .. Len(q) + 1 /\ Len(q) \in Nat
      /\ a[Len(q) + 1] = x /\ \A i \in 1 .. Len(q) : a[i] = q[i]
  OBVIOUS
<1> HIDE DEF a
<1>2. Range(q) \cup {x} \subseteq Range(a)
  BY <1>1 DEF Range
<1>3. Range(a) \subseteq Range(q) \cup {x}
  BY <1>1 DEF Range
<1> QED BY <1>2, <1>3 DEF a

(* A write is forgotten nowhere between the client and the bus.                 *)
LEMMA WriteStep ==
  ASSUME LevelInv, [Next]_vars
  PROVE  WriteInv'
<1> USE DEF LevelInv
<1>0. WriteInv /\ queue \in Seq(Shown)
  BY DEF ListsInv
<1>1. CASE UNCHANGED <<want, queue, asked>>
  BY <1>0, <1>1 DEF WriteInv
<1>2. CASE Write
  <2>1. PICK x \in Shown, v \in {"1", "0"} :
          /\ want' = [want EXCEPT ![x] = v]
          /\ queue' = IF want[x] = NoWrite THEN Append(queue, x) ELSE queue
          /\ asked' = [asked EXCEPT ![x].wrote = v]
    BY <1>2 DEF Write
  <2>2. Range(queue') = Range(queue) \cup {x}
    <3>1. CASE want[x] = NoWrite
      <4>1. Range(Append(queue, x)) = Range(queue) \cup {x}
        BY <1>0, RangeAppended
      <4> QED BY <2>1, <3>1, <4>1
    <3>2. CASE want[x] # NoWrite
      BY <1>0, <2>1, <3>2 DEF WriteInv
    <3> QED BY <3>1, <3>2
  <2>3. want' \in [Shown -> {NoWrite, "0", "1"}] /\ DOMAIN asked' = Shown
    BY <1>0, <2>1 DEF WriteInv
  <2>4. ASSUME NEW y \in Shown
        PROVE  /\ DOMAIN asked'[y] = {"wrote", "done"}
               /\ want'[y] # NoWrite <=> y \in Range(queue')
               /\ want'[y] # NoWrite => asked'[y].wrote = want'[y]
               /\ want'[y] = NoWrite => asked'[y].wrote = asked'[y].done
    <3>1. CASE y = x
      BY <1>0, <2>1, <2>2, <3>1 DEF WriteInv, NoWrite
    <3>2. CASE y # x
      BY <1>0, <2>1, <2>2, <3>2 DEF WriteInv
    <3> QED BY <3>1, <3>2
  <2> QED BY <2>3, <2>4 DEF WriteInv
<1>3. CASE Execute
  <2>1. /\ asked' = [x \in Shown |-> IF x \in Range(queue) THEN [asked[x] EXCEPT !.done = want[x]] ELSE asked[x]]
        /\ want' = [x \in Shown |-> IF x \in Range(queue) THEN NoWrite ELSE want[x]]
        /\ queue' = <<>>
    BY <1>3 DEF Execute
  <2>2. Range(queue') = {}
    BY <2>1 DEF Range
  <2>3. ASSUME NEW y \in Shown
        PROVE  /\ DOMAIN asked'[y] = {"wrote", "done"} /\ want'[y] = NoWrite
               /\ asked'[y].wrote = asked'[y].done
    BY <1>0, <2>1 DEF WriteInv
  <2> QED BY <2>1, <2>2, <2>3 DEF WriteInv
<1> QED
  BY <1>1, <1>2, <1>3
  DEF Next, vars, Tick, Foreign, Publish, StartTask, StepTask, ComesRound, PollStart, PollAnswer,
      PollTell, Executed, Rebuild, Regroup

LEMMA LevelStays == Spec => []LevelInv
<1>1. LevelInv /\ [Next]_vars => LevelInv'
  BY GroupStep, ListsStep, WriteStep DEF LevelInv
<1> QED BY <1>1, InitLevel, PTL DEF Spec

(* GroupVirtualDevice: whatever devices, levels, fades and scenes there are, and *)
(* however commands, answers of polls, failures, rebuilt controls and changes of *)
(* the members come between each other, a group that follows a member shows     *)
(* that member's level and setpoint, and no error.                              *)
THEOREM GroupFollowsItsMember == Spec => []GroupFollowsPin
<1>1. LevelInv => GroupFollowsPin
  BY DEF LevelInv, GroupInv
<1> QED BY <1>1, LevelStays, PTL

(* OnOffControl and the bus loop: when nothing is under way, what was carried   *)
(* out last on a switch is what was written last, for any number of switches    *)
(* and writes, however the writes meet one being carried out.                   *)
THEOREM SwitchLastWriteWins == Spec => []LastWriteWins
<1>1. LevelInv => LastWriteWins
  <2> SUFFICES ASSUME LevelInv, Quiet, NEW x \in Shown PROVE asked[x].done = asked[x].wrote
    BY DEF LastWriteWins
  <2>1. Range(queue) = {}
    BY DEF Quiet, Range
  <2> QED BY <2>1 DEF LevelInv, WriteInv
<1> QED BY <1>1, LevelStays, PTL

---------------------------------------------------------------------------
(* The light, the commands about it that nobody has handled yet, and the poll   *)
(* that will tell where it has come to rest.                                    *)

Light == {"dapc", "off", "stepUp", "up", "scene"}
Moves(c, d) == c.op \in Light /\ d \in Range(c.to)
Fades(c, d) == c.op = "fade" /\ d \in Range(c.to)

(* With the commands of F before the i-th obeyed, the fade of d is f.           *)
FadeAt(F, d, f0, i, f) ==
  \/ f = f0 /\ \A j \in 1 .. i - 1 : ~Fades(F[j], d)
  \/ \E j \in 1 .. i - 1 : Fades(F[j], d) /\ F[j].v = f /\ \A k \in j + 1 .. i - 1 : ~Fades(F[k], d)

(* Of the commands F, the last one that moves the light of d will be answered   *)
(* by a poll later than r ticks from now.                                       *)
Unmoved(F, d) == \A i \in 1 .. Len(F) : ~Moves(F[i], d)
Settles(F, d, f0, r) ==
  \E i \in 1 .. Len(F) : /\ Moves(F[i], d) /\ \A k \in i + 1 .. Len(F) : ~Moves(F[k], d)
                         /\ \E f \in Nat : FadeAt(F, d, f0, i, f) /\ SettleFor(Basis(F[i].op), f) > r

Sound(g) ==
  DOMAIN g = {"level", "target", "ramp", "fade"} /\ g.ramp \in Nat /\ g.fade \in Nat /\ (g.ramp = 0 => g.level = g.target)
GearInv ==
  /\ \A d \in D : Sound(gear[d])
  /\ fade \in [D -> Nat]
  /\ \A d \in D : ctl[d].due \in Nat \cup {First, Resync}

(* A fade is set from the register that the command before it has loaded.       *)
Loaded(F, r) ==
  \A i \in 1 .. Len(F) : F[i].op = "fade" =>
    F[i].v \in Nat /\ IF i = 1 THEN r = F[i].v ELSE F[i - 1].op = "dtr0" /\ F[i - 1].v = F[i].v
(* What moves several lights comes last, and nobody asks.                       *)
WideLast(F) == \A i \in 1 .. Len(F) : F[i].op # "query" /\ (F[i].op \in Light /\ Len(F[i].to) > 1 => i = Len(F))
OrderInv ==
  /\ Loaded(frames, dtr) /\ WideLast(frames)
  /\ \A d \in D : FadeAt(frames, d, fade[d], Len(frames) + 1, gear[d].fade)
  /\ tasks # <<>> => Len(tasks) = 1 /\ frames = <<>> /\ tasks[1].cmd.op \in Light

FreshInv ==
  /\ Fresh => /\ queue = <<>> /\ loop.at # "writing" /\ tasks = <<>>
              /\ \A d \in D : Unmoved(frames, d)
  /\ IsInjective(queue) /\ (Group \in Range(queue) => Len(queue) = 1)

(* A list, whatever it is of.                                                   *)
IsList(q) == \E S : q \in Seq(S)
LoopInv ==
  /\ loop.at \in {"idle", "asking", "telling", "writing"}
  /\ loop.at = "idle" => loop = Idle
  /\ loop.at # "idle" => loop.asked \in Seq(Shown) /\ IsList(loop.got)
  /\ loop.at = "asking" => Len(loop.got) < Len(loop.asked)
  /\ loop.at \in {"telling", "writing"} => Len(loop.got) = Len(loop.asked)
  /\ loop.at = "writing" => IsInjective(loop.asked)

ShownFields == LevelF \cup OnF \cup {"wanted"}
(* What MQTT will show of a field that it shows as w, once everything in line is *)
(* published.                                                                   *)
Puts(o, d, f) == o.device = d /\ f \in DOMAIN o.puts
Ends(w, ob, d, f, v) ==
  \/ v = w /\ \A j \in 1 .. Len(ob) : ~Puts(ob[j], d, f)
  \/ \E j \in 1 .. Len(ob) : Puts(ob[j], d, f) /\ ob[j].puts[f] = v /\ \A k \in j + 1 .. Len(ob) : ~Puts(ob[k], d, f)

Messages(q) == IsList(q) /\ \A j \in DOMAIN q : q[j].device \in Shown /\ DOMAIN q[j].puts \subseteq ShownFields

Mirrored == {"level", "lerr", "wanted"}
WireInv ==
  /\ Messages(outbox)
  /\ DOMAIN wire = Shown /\ \A d \in D : DOMAIN wire[d] = ShownFields
  /\ \A d \in D : \A f \in Mirrored : Ends(wire[d][f], outbox, d, f, ctl[d][f])

(* What is known of d, and will be shown of its switch, is right or an error.   *)
Lit(d) == gear[d].level # 0
Good(d) ==
  /\ ~ctl[d].lerr => ctl[d].level = gear[d].level /\ ctl[d].wanted = gear[d].level
  /\ ctl[d].onerr => Ends(wire[d].onerr, outbox, d, "onerr", TRUE)
  /\ ~ctl[d].onerr => ctl[d].on = Lit(d) /\ Ends(wire[d].on, outbox, d, "on", Lit(d))
  /\ loop.at = "writing" =>
       \A i \in 1 .. Len(loop.asked) : loop.asked[i] = d /\ loop.got[i] # NoWrite
                                        => ~ctl[d].onerr /\ (loop.got[i] = "1") = Lit(d)

ToTell(d) == \E i \in DOMAIN tasks : d \in Range(tasks[i].todo)
Pending(d) == ToTell(d) \/ ~Unmoved(frames, d)
(* A poll is sure to come when the light of d is at rest.                       *)
Covered(d) ==
  \/ Settles(frames, d, fade[d], gear[d].ramp)
  \/ \E i \in DOMAIN tasks : d \in Range(tasks[i].todo) /\ SettleFor(Basis(tasks[i].cmd.op), fade[d]) > gear[d].ramp
  \/ ~Pending(d) /\ ctl[d].due \in Nat /\ ctl[d].due >= gear[d].ramp
Polled(d) == loop.at \in {"asking", "telling"} /\ d \in Range(loop.asked)
(* The light of d is at rest, and what is known of it right or being asked.     *)
Calmed(d) ==
  /\ ~Pending(d) /\ gear[d].ramp = 0
  /\ loop.at \in {"asking", "telling"} =>
       \A i \in 1 .. Len(loop.got) : loop.asked[i] = d => loop.got[i] \in {Unknown, gear[d].level}
  /\ ctl[d].due = First \/ Polled(d) \/ Good(d)
FollowInv == \A d \in D : Covered(d) \/ Calmed(d)

SyncInv == LevelInv /\ GearInv /\ OrderInv /\ FreshInv /\ LoopInv /\ WireInv /\ FollowInv

---------------------------------------------------------------------------
(* How the lists of commands and of messages grow and shrink.                   *)

LEMMA AppendIs ==
  ASSUME NEW S, NEW F \in Seq(S), NEW c \in S
  PROVE  /\ Append(F, c) \in Seq(S) /\ Len(F) \in Nat /\ Len(Append(F, c)) = Len(F) + 1
         /\ Append(F, c)[Len(F) + 1] = c /\ \A i \in 1 .. Len(F) : Append(F, c)[i] = F[i]
  OBVIOUS

LEMMA TailIs ==
  ASSUME NEW S, NEW F \in Seq(S), F # <<>>
  PROVE  /\ Tail(F) \in Seq(S) /\ Len(F) \in Nat \ {0} /\ Len(Tail(F)) = Len(F) - 1 /\ Head(F) = F[1] /\ F[1] \in S
         /\ \A i \in 1 .. Len(F) - 1 : Tail(F)[i] = F[i + 1]
  OBVIOUS

LEMMA FadeAppend ==
  ASSUME NEW F \in Seq(Commands), NEW c \in Commands, NEW d, NEW f0, NEW f, NEW i \in 1 .. Len(F) + 1, FadeAt(F, d, f0, i, f)
  PROVE  FadeAt(Append(F, c), d, f0, i, f)
<1> DEFINE G == Append(F, c)
<1>1. Len(F) \in Nat /\ \A j \in 1 .. i - 1 : G[j] = F[j]
  BY AppendIs
<1> HIDE DEF G
<1> QED BY <1>1 DEF FadeAt, G

LEMMA FadeNext ==
  ASSUME NEW F \in Seq(Commands), NEW c \in Commands, NEW d, NEW f0, NEW f, FadeAt(F, d, f0, Len(F) + 1, f)
  PROVE  FadeAt(Append(F, c), d, f0, Len(F) + 2, IF Fades(c, d) THEN c.v ELSE f)
<1> DEFINE G == Append(F, c)
           n == Len(F)
<1>1. n \in Nat /\ G[n + 1] = c /\ \A j \in 1 .. n : G[j] = F[j]
  BY AppendIs
<1>2. FadeAt(F, d, f0, n + 1, f)
  OBVIOUS
<1> HIDE DEF G, n
<1>3. CASE Fades(c, d)
  <2>1. n + 1 \in 1 .. n + 2 - 1 /\ Fades(G[n + 1], d) /\ G[n + 1].v = c.v /\ \A k \in n + 1 + 1 .. n + 2 - 1 : ~Fades(G[k], d)
    BY <1>1, <1>3
  <2> QED BY <1>3, <2>1 DEF FadeAt, G, n
<1>4. CASE ~Fades(c, d)
  <2>1. CASE f = f0 /\ \A j \in 1 .. n + 1 - 1 : ~Fades(F[j], d)
    <3>1. \A j \in 1 .. n + 2 - 1 : ~Fades(G[j], d)
      BY <1>1, <1>4, <2>1
    <3> QED BY <1>4, <2>1, <3>1 DEF FadeAt, G, n
  <2>2. CASE \E j \in 1 .. n + 1 - 1 : Fades(F[j], d) /\ F[j].v = f /\ \A k \in j + 1 .. n + 1 - 1 : ~Fades(F[k], d)
    <3>1. PICK j \in 1 .. n : Fades(F[j], d) /\ F[j].v = f /\ \A k \in j + 1 .. n : ~Fades(F[k], d)
      BY <1>1, <2>2
    <3>2. j \in 1 .. n + 2 - 1 /\ Fades(G[j], d) /\ G[j].v = f
      BY <1>1, <3>1
    <3>3. \A k \in j + 1 .. n + 2 - 1 : ~Fades(G[k], d)
      BY <1>1, <1>4, <3>1
    <3> QED BY <1>4, <3>2, <3>3 DEF FadeAt, G, n
  <2> QED BY <1>2, <2>1, <2>2 DEF FadeAt
<1> QED BY <1>3, <1>4

LEMMA UnmovedAppend ==
  ASSUME NEW F \in Seq(Commands), NEW c \in Commands, NEW d
  PROVE  Unmoved(Append(F, c), d) <=> Unmoved(F, d) /\ ~Moves(c, d)
<1> DEFINE G == Append(F, c)
           n == Len(F)
<1>1. n \in Nat /\ Len(G) = n + 1 /\ G[n + 1] = c /\ \A j \in 1 .. n : G[j] = F[j]
  BY AppendIs
<1> HIDE DEF G, n
<1> QED BY <1>1 DEF Unmoved, G, n

LEMMA SettlesAppend ==
  ASSUME NEW F \in Seq(Commands), NEW c \in Commands, NEW d, NEW f0, NEW r, Settles(F, d, f0, r), ~Moves(c, d)
  PROVE  Settles(Append(F, c), d, f0, r)
<1> DEFINE G == Append(F, c)
           n == Len(F)
<1>1. n \in Nat /\ Len(G) = n + 1 /\ G[n + 1] = c /\ \A j \in 1 .. n : G[j] = F[j]
  BY AppendIs
<1>2. PICK i \in 1 .. n : /\ Moves(F[i], d) /\ \A k \in i + 1 .. n : ~Moves(F[k], d)
                          /\ \E f \in Nat : FadeAt(F, d, f0, i, f) /\ SettleFor(Basis(F[i].op), f) > r
  BY DEF Settles
<1>3. PICK f \in Nat : FadeAt(F, d, f0, i, f) /\ SettleFor(Basis(F[i].op), f) > r
  BY <1>2
<1>4. FadeAt(G, d, f0, i, f)
  BY <1>1, <1>3, FadeAppend
<1> HIDE DEF G, n
<1>5. i \in 1 .. Len(G) /\ Moves(G[i], d) /\ \A k \in i + 1 .. Len(G) : ~Moves(G[k], d)
  BY <1>1, <1>2
<1>6. SettleFor(Basis(G[i].op), f) > r
  BY <1>1, <1>3
<1> QED BY <1>4, <1>5, <1>6 DEF Settles, G

LEMMA SettlesNew ==
  ASSUME NEW F \in Seq(Commands), NEW c \in Commands, NEW d, NEW f0, NEW f \in Nat, NEW r,
         FadeAt(F, d, f0, Len(F) + 1, f), Moves(c, d), SettleFor(Basis(c.op), f) > r
  PROVE  Settles(Append(F, c), d, f0, r)
<1> DEFINE G == Append(F, c)
           n == Len(F)
<1>1. n \in Nat /\ Len(G) = n + 1 /\ G[n + 1] = c
  BY AppendIs
<1>2. FadeAt(G, d, f0, n + 1, f)
  BY <1>1, FadeAppend
<1> HIDE DEF G, n
<1>3. n + 1 \in 1 .. Len(G) /\ Moves(G[n + 1], d) /\ \A k \in n + 1 + 1 .. Len(G) : ~Moves(G[k], d)
  BY <1>1
<1>4. SettleFor(Basis(G[n + 1].op), f) > r
  BY <1>1
<1> QED BY <1>2, <1>3, <1>4 DEF Settles, G

(* The fade of d when the first command has been handled.                       *)
Faded(F, d, f0) == IF Fades(F[1], d) THEN F[1].v ELSE f0

LEMMA FadeTail ==
  ASSUME NEW F \in Seq(Commands), F # <<>>, NEW d, NEW f0, NEW f, NEW i \in 2 .. Len(F) + 1, FadeAt(F, d, f0, i, f)
  PROVE  FadeAt(Tail(F), d, Faded(F, d, f0), i - 1, f)
<1> DEFINE G == Tail(F)
           n == Len(F)
<1>1. n \in Nat \ {0} /\ \A j \in 1 .. n - 1 : G[j] = F[j + 1]
  BY TailIs
<1>2. i \in 2 .. n + 1
  OBVIOUS
<1> HIDE DEF G, n
<1>3. CASE f = f0 /\ \A j \in 1 .. i - 1 : ~Fades(F[j], d)
  <2>1. Faded(F, d, f0) = f
    BY <1>1, <1>2, <1>3 DEF Faded
  <2>2. \A j \in 1 .. i - 1 - 1 : ~Fades(G[j], d)
    BY <1>1, <1>2, <1>3
  <2> QED BY <2>1, <2>2 DEF FadeAt, G
<1>4. CASE \E j \in 1 .. i - 1 : Fades(F[j], d) /\ F[j].v = f /\ \A k \in j + 1 .. i - 1 : ~Fades(F[k], d)
  <2>1. PICK j \in 1 .. i - 1 : Fades(F[j], d) /\ F[j].v = f /\ \A k \in j + 1 .. i - 1 : ~Fades(F[k], d)
    BY <1>4
  <2>2. CASE j = 1
    <3>1. Faded(F, d, f0) = f
      BY <2>1, <2>2 DEF Faded
    <3>2. \A k \in 1 .. i - 1 - 1 : ~Fades(G[k], d)
      BY <1>1, <1>2, <2>1, <2>2
    <3> QED BY <3>1, <3>2 DEF FadeAt, G
  <2>3. CASE j # 1
    <3>1. j - 1 \in 1 .. i - 1 - 1 /\ Fades(G[j - 1], d) /\ G[j - 1].v = f
      BY <1>1, <1>2, <2>1, <2>3
    <3>2. \A k \in j - 1 + 1 .. i - 1 - 1 : ~Fades(G[k], d)
      BY <1>1, <1>2, <2>1, <2>3
    <3> QED BY <3>1, <3>2 DEF FadeAt, G
  <2> QED BY <2>2, <2>3
<1> QED BY <1>3, <1>4 DEF FadeAt

LEMMA UnmovedTail ==
  ASSUME NEW F \in Seq(Commands), F # <<>>, NEW d
  PROVE  Unmoved(F, d) <=> Unmoved(Tail(F), d) /\ ~Moves(F[1], d)
<1> DEFINE G == Tail(F)
           n == Len(F)
<1>1. n \in Nat \ {0} /\ Len(G) = n - 1 /\ \A j \in 1 .. n - 1 : G[j] = F[j + 1]
  BY TailIs
<1> HIDE DEF G, n
<1>2. ASSUME Unmoved(F, d) PROVE Unmoved(G, d) /\ ~Moves(F[1], d)
  BY <1>1, <1>2 DEF Unmoved, n
<1>3. ASSUME Unmoved(G, d), ~Moves(F[1], d) PROVE Unmoved(F, d)
  <2>1. ASSUME NEW i \in 1 .. n, i # 1 PROVE ~Moves(F[i], d)
    <3>1. i - 1 \in 1 .. n - 1 /\ i - 1 + 1 = i
      BY <1>1, <2>1
    <3>2. F[i] = G[i - 1] /\ ~Moves(G[i - 1], d)
      BY <1>1, <1>3, <3>1 DEF Unmoved
    <3> QED BY <3>2
  <2> QED BY <1>1, <1>3, <2>1 DEF Unmoved, n
<1> QED BY <1>2, <1>3 DEF G

(* The first command was the last that moves d, or the one that is counts on.   *)
LEMMA SettlesTail ==
  ASSUME NEW F \in Seq(Commands), F # <<>>, NEW d, NEW f0, NEW r, Settles(F, d, f0, r)
  PROVE  \/ Settles(Tail(F), d, Faded(F, d, f0), r)
         \/ Moves(F[1], d) /\ Unmoved(Tail(F), d) /\ SettleFor(Basis(F[1].op), f0) > r
<1> DEFINE G == Tail(F)
           n == Len(F)
<1>1. n \in Nat \ {0} /\ Len(G) = n - 1 /\ \A j \in 1 .. n - 1 : G[j] = F[j + 1]
  BY TailIs
<1>2. PICK i \in 1 .. n : /\ Moves(F[i], d) /\ \A k \in i + 1 .. n : ~Moves(F[k], d)
                          /\ \E f \in Nat : FadeAt(F, d, f0, i, f) /\ SettleFor(Basis(F[i].op), f) > r
  BY DEF Settles
<1>3. PICK f \in Nat : FadeAt(F, d, f0, i, f) /\ SettleFor(Basis(F[i].op), f) > r
  BY <1>2
<1>4. CASE i = 1
  <2>1. f = f0
    BY <1>3, <1>4 DEF FadeAt
  <2>2. Unmoved(G, d)
    <3> HIDE DEF G, n
    <3> QED BY <1>1, <1>2, <1>4 DEF Unmoved
  <2> QED BY <1>2, <1>3, <1>4, <2>1, <2>2
<1>5. CASE i # 1
  <2>1. i \in 2 .. Len(F) + 1
    BY <1>1, <1>5
  <2>2. FadeAt(G, d, Faded(F, d, f0), i - 1, f)
    BY <1>3, <2>1, FadeTail
  <2> HIDE DEF G, n
  <2>3. i - 1 \in 1 .. Len(G) /\ G[i - 1] = F[i]
    BY <1>1, <1>2, <1>5
  <2>4. \A k \in i - 1 + 1 .. Len(G) : ~Moves(G[k], d)
    BY <1>1, <1>2, <1>5
  <2>5. Moves(G[i - 1], d) /\ SettleFor(Basis(G[i - 1].op), f) > r
    BY <1>2, <1>3, <2>3
  <2>6. Settles(G, d, Faded(F, d, f0), r)
    BY <2>2, <2>3, <2>4, <2>5 DEF Settles
  <2> QED BY <2>6 DEF G
<1> QED BY <1>4, <1>5

LEMMA ListAppend ==
  ASSUME NEW q, IsList(q), NEW o
  PROVE  /\ IsList(Append(q, o)) /\ Len(q) \in Nat /\ DOMAIN q = 1 .. Len(q) /\ Len(Append(q, o)) = Len(q) + 1
         /\ DOMAIN Append(q, o) = 1 .. Len(q) + 1
         /\ Append(q, o)[Len(q) + 1] = o /\ \A i \in 1 .. Len(q) : Append(q, o)[i] = q[i]
<1>1. PICK S : q \in Seq(S)
  BY DEF IsList
<1> DEFINE T == S \cup {o}
<1>2. q \in Seq(T) /\ o \in T
  BY <1>1
<1> HIDE DEF T
<1> QED BY <1>2 DEF IsList

LEMMA ListTail ==
  ASSUME NEW q, IsList(q), q # <<>>
  PROVE  /\ IsList(Tail(q)) /\ Len(q) \in Nat \ {0} /\ DOMAIN q = 1 .. Len(q) /\ Len(Tail(q)) = Len(q) - 1
         /\ DOMAIN Tail(q) = 1 .. Len(q) - 1 /\ Head(q) = q[1] /\ \A i \in 1 .. Len(q) - 1 : Tail(q)[i] = q[i + 1]
<1>1. PICK S : q \in Seq(S)
  BY DEF IsList
<1> QED BY <1>1 DEF IsList

LEMMA ListJoin ==
  ASSUME NEW q, IsList(q), NEW p, IsList(p)
  PROVE  /\ IsList(q \o p) /\ Len(q) \in Nat /\ Len(p) \in Nat /\ Len(q \o p) = Len(q) + Len(p)
         /\ DOMAIN q = 1 .. Len(q) /\ DOMAIN p = 1 .. Len(p) /\ DOMAIN (q \o p) = 1 .. Len(q) + Len(p)
         /\ \A i \in 1 .. Len(q) : (q \o p)[i] = q[i]
<1>1. PICK S : q \in Seq(S)
  BY DEF IsList
<1>2. PICK T : p \in Seq(T)
  BY DEF IsList
<1> DEFINE U == S \cup T
<1>3. q \in Seq(U) /\ p \in Seq(U)
  BY <1>1, <1>2
<1> HIDE DEF U
<1>4. q \o p \in Seq(U) /\ Len(q \o p) = Len(q) + Len(p)
  BY <1>3
<1>5. \A i \in 1 .. Len(q) : (q \o p)[i] = q[i]
  BY <1>3
<1>6. Len(q) \in Nat /\ Len(p) \in Nat /\ DOMAIN q = 1 .. Len(q) /\ DOMAIN p = 1 .. Len(p)
  BY <1>3
<1>7. DOMAIN (q \o p) = 1 .. Len(q) + Len(p)
  BY <1>4
<1> QED BY <1>4, <1>5, <1>6, <1>7 DEF IsList

(* What r holds behind its n-th element is p.                                   *)
Behind(r, n, p) == \A i \in 1 .. Len(p) : r[n + i] = p[i]

LEMMA ListBehind ==
  ASSUME NEW q, IsList(q), NEW p, IsList(p)
  PROVE  Behind(q \o p, Len(q), p)
<1>1. PICK S : q \in Seq(S)
  BY DEF IsList
<1>2. PICK T : p \in Seq(T)
  BY DEF IsList
<1> DEFINE U == S \cup T
<1>3. q \in Seq(U) /\ p \in Seq(U)
  BY <1>1, <1>2
<1> HIDE DEF U
<1>4. \A i \in 1 .. Len(p) : (q \o p)[Len(q) + i] = p[i]
  BY <1>3
<1> QED BY <1>4 DEF Behind

(* What follows in the line does not change what is shown, or it decides it.    *)
LEMMA EndsJoin ==
  ASSUME NEW q, IsList(q), NEW p, IsList(p), NEW w, NEW d, NEW f, NEW v, Ends(w, q, d, f, v),
         \A i \in 1 .. Len(p) : ~Puts(p[i], d, f)
  PROVE  Ends(w, q \o p, d, f, v)
<1> DEFINE n == Len(q)
           m == Len(p)
           r == q \o p
<1>1. n \in Nat /\ m \in Nat /\ Len(r) = n + m /\ \A i \in 1 .. n : r[i] = q[i]
  BY ListJoin
<1>2. \A i \in n + 1 .. n + m : ~Puts(r[i], d, f)
  <2>1. \A i \in 1 .. m : r[n + i] = p[i]
    <3>1. Behind(r, n, p)
      BY ListBehind
    <3> QED BY <3>1 DEF Behind
  <2> HIDE DEF n, m, r
  <2> TAKE i \in n + 1 .. n + m
  <2>2. i - n \in 1 .. m /\ n + (i - n) = i
    BY <1>1
  <2> QED BY <2>1, <2>2 DEF m
<1> HIDE DEF n, m, r
<1>3. CASE v = w /\ \A j \in 1 .. n : ~Puts(q[j], d, f)
  <2>1. \A j \in 1 .. n + m : ~Puts(r[j], d, f)
    BY <1>1, <1>2, <1>3
  <2> QED BY <1>1, <1>3, <2>1 DEF Ends, r
<1>4. CASE \E j \in 1 .. n : Puts(q[j], d, f) /\ q[j].puts[f] = v /\ \A k \in j + 1 .. n : ~Puts(q[k], d, f)
  <2>1. PICK j \in 1 .. n : Puts(q[j], d, f) /\ q[j].puts[f] = v /\ \A k \in j + 1 .. n : ~Puts(q[k], d, f)
    BY <1>4
  <2>2. j \in 1 .. n + m /\ Puts(r[j], d, f) /\ r[j].puts[f] = v
    BY <1>1, <2>1
  <2>3. \A k \in j + 1 .. n + m : ~Puts(r[k], d, f)
    BY <1>1, <1>2, <2>1
  <2> QED BY <1>1, <2>2, <2>3 DEF Ends, r
<1> QED BY <1>3, <1>4 DEF Ends, n

LEMMA EndsIn ==
  ASSUME NEW q, IsList(q), NEW p, IsList(p), NEW w, NEW d, NEW f, NEW i \in 1 .. Len(p), Puts(p[i], d, f),
         \A k \in 1 .. Len(p) : k # i => ~Puts(p[k], d, f)
  PROVE  Ends(w, q \o p, d, f, p[i].puts[f])
<1> DEFINE n == Len(q)
           m == Len(p)
           r == q \o p
<1>1. n \in Nat /\ m \in Nat /\ Len(r) = n + m
  BY ListJoin
<1>2. \A k \in 1 .. m : r[n + k] = p[k]
  <2>1. Behind(r, n, p)
    BY ListBehind
  <2> QED BY <2>1 DEF Behind
<1> HIDE DEF n, m, r
<1>3. n + i \in 1 .. n + m /\ Puts(r[n + i], d, f) /\ r[n + i].puts[f] = p[i].puts[f]
  BY <1>1, <1>2 DEF m
<1>4. ASSUME NEW k \in n + i + 1 .. n + m PROVE ~Puts(r[k], d, f)
  <2>1. k - n \in 1 .. m /\ n + (k - n) = k /\ k - n # i
    BY <1>1 DEF m
  <2> QED BY <1>2, <2>1 DEF m
<1> QED BY <1>1, <1>3, <1>4 DEF Ends, r

LEMMA EndsAppend ==
  ASSUME NEW q, IsList(q), NEW o, NEW w, NEW d, NEW f, NEW v, Ends(w, q, d, f, v), ~Puts(o, d, f)
  PROVE  Ends(w, Append(q, o), d, f, v)
<1> DEFINE n == Len(q)
           r == Append(q, o)
<1>1. n \in Nat /\ Len(r) = n + 1 /\ r[n + 1] = o /\ \A i \in 1 .. n : r[i] = q[i]
  BY ListAppend
<1> HIDE DEF n, r
<1>3. CASE v = w /\ \A j \in 1 .. n : ~Puts(q[j], d, f)
  <2>1. \A j \in 1 .. n + 1 : ~Puts(r[j], d, f)
    BY <1>1, <1>3
  <2> QED BY <1>1, <1>3, <2>1 DEF Ends, r
<1>4. CASE \E j \in 1 .. n : Puts(q[j], d, f) /\ q[j].puts[f] = v /\ \A k \in j + 1 .. n : ~Puts(q[k], d, f)
  <2>1. PICK j \in 1 .. n : Puts(q[j], d, f) /\ q[j].puts[f] = v /\ \A k \in j + 1 .. n : ~Puts(q[k], d, f)
    BY <1>4
  <2>2. j \in 1 .. n + 1 /\ Puts(r[j], d, f) /\ r[j].puts[f] = v
    BY <1>1, <2>1
  <2>3. \A k \in j + 1 .. n + 1 : ~Puts(r[k], d, f)
    BY <1>1, <2>1
  <2> QED BY <1>1, <2>2, <2>3 DEF Ends, r
<1> QED BY <1>3, <1>4 DEF Ends, n

LEMMA EndsNew ==
  ASSUME NEW q, IsList(q), NEW o, NEW w, NEW d, NEW f, Puts(o, d, f)
  PROVE  Ends(w, Append(q, o), d, f, o.puts[f])
<1> DEFINE n == Len(q)
           r == Append(q, o)
<1>1. n \in Nat /\ Len(r) = n + 1 /\ r[n + 1] = o
  BY ListAppend
<1> HIDE DEF n, r
<1>2. n + 1 \in 1 .. n + 1 /\ Puts(r[n + 1], d, f) /\ r[n + 1].puts[f] = o.puts[f]
      /\ \A k \in n + 1 + 1 .. n + 1 : ~Puts(r[k], d, f)
  BY <1>1
<1> QED BY <1>1, <1>2 DEF Ends, r

(* Publishing the first message of the line.                                    *)
LEMMA EndsTail ==
  ASSUME NEW q, IsList(q), q # <<>>, NEW w, NEW d, NEW f, NEW v, Ends(w, q, d, f, v)
  PROVE  Ends(IF Puts(q[1], d, f) THEN q[1].puts[f] ELSE w, Tail(q), d, f, v)
<1> DEFINE n == Len(q)
           r == Tail(q)
           u == IF Puts(q[1], d, f) THEN q[1].puts[f] ELSE w
<1>1. n \in Nat \ {0} /\ Len(r) = n - 1 /\ \A i \in 1 .. n - 1 : r[i] = q[i + 1]
  BY ListTail
<1>2. u = IF Puts(q[1], d, f) THEN q[1].puts[f] ELSE w
  OBVIOUS
<1> HIDE DEF n, r, u
<1>3. CASE v = w /\ \A j \in 1 .. n : ~Puts(q[j], d, f)
  <2>1. v = u /\ \A j \in 1 .. n - 1 : ~Puts(r[j], d, f)
    BY <1>1, <1>2, <1>3
  <2> QED BY <1>1, <2>1 DEF Ends, r, u
<1>4. CASE \E j \in 1 .. n : Puts(q[j], d, f) /\ q[j].puts[f] = v /\ \A k \in j + 1 .. n : ~Puts(q[k], d, f)
  <2>1. PICK j \in 1 .. n : Puts(q[j], d, f) /\ q[j].puts[f] = v /\ \A k \in j + 1 .. n : ~Puts(q[k], d, f)
    BY <1>4
  <2>2. CASE j = 1
    <3>1. v = u /\ \A k \in 1 .. n - 1 : ~Puts(r[k], d, f)
      BY <1>1, <1>2, <2>1, <2>2
    <3> QED BY <1>1, <3>1 DEF Ends, r, u
  <2>3. CASE j # 1
    <3>1. j - 1 \in 1 .. n - 1 /\ Puts(r[j - 1], d, f) /\ r[j - 1].puts[f] = v
      BY <1>1, <2>1, <2>3
    <3>2. \A k \in j - 1 + 1 .. n - 1 : ~Puts(r[k], d, f)
      BY <1>1, <2>1, <2>3
    <3> QED BY <1>1, <3>1, <3>2 DEF Ends, r, u
  <2> QED BY <2>2, <2>3
<1> QED BY <1>3, <1>4 DEF Ends, n

---------------------------------------------------------------------------
(* What a batch of commands does to the gear.                                   *)

LEMMA GoesSound ==
  ASSUME NEW g, Sound(g), NEW to, NEW ticks \in Nat
  PROVE  Sound(Goes(g, to, ticks)) /\ Goes(g, to, ticks).fade = g.fade /\ Goes(g, to, ticks).ramp = ticks
<1>1. CASE ticks = 0
  BY <1>1 DEF Goes, Sound
<1>2. CASE ticks # 0
  BY <1>2 DEF Goes, Sound
<1> QED BY <1>1, <1>2

LEMMA ObeysIs ==
  ASSUME NEW g, Sound(g), NEW c \in Commands, c.op = "fade" => c.v \in Nat
  PROVE  /\ Sound(Obeys(g, c))
         /\ Obeys(g, c).fade = IF c.op = "fade" THEN c.v ELSE g.fade
         /\ c.op \in Light => SettleFor(Basis(c.op), g.fade) > Obeys(g, c).ramp
         /\ c.op \notin Light => Obeys(g, c).level = g.level /\ Obeys(g, c).ramp = g.ramp
<1> DEFINE o == Obeys(g, c)
<1>0. g.fade \in Nat /\ FadeTicks(g.fade) \in Nat /\ 0 \in Nat /\ StepTicks \in Nat /\ FadeTicks(g.fade) + Margin > FadeTicks(g.fade)
      /\ StepTicks + Margin > StepTicks /\ Margin > 0
  BY DEF Sound, FadeTicks, StepTicks, Margin
<1>1. CASE c.op \in {"dapc", "scene"}
  <2>1. \E to : o = Goes(g, to, FadeTicks(g.fade))
    BY <1>1 DEF Obeys
  <2>2. SettleFor(Basis(c.op), g.fade) = FadeTicks(g.fade) + Margin
    BY <1>1 DEF SettleFor, Basis
  <2> HIDE DEF o
  <2>3. Sound(o) /\ o.fade = g.fade /\ o.ramp = FadeTicks(g.fade)
    BY <1>0, <2>1, GoesSound
  <2> QED BY <1>0, <1>1, <2>2, <2>3 DEF Light, o
<1>2. CASE c.op \in {"off", "stepUp"}
  <2>1. \E to : o = Goes(g, to, 0)
    BY <1>2 DEF Obeys
  <2>2. SettleFor(Basis(c.op), g.fade) = Margin
    BY <1>2 DEF SettleFor, Basis
  <2> HIDE DEF o
  <2>3. Sound(o) /\ o.fade = g.fade /\ o.ramp = 0
    BY <1>0, <2>1, GoesSound
  <2> QED BY <1>0, <1>2, <2>2, <2>3 DEF Light, o
<1>3. CASE c.op = "up"
  <2>1. \E to : o = Goes(g, to, StepTicks)
    BY <1>3 DEF Obeys
  <2>2. SettleFor(Basis(c.op), g.fade) = StepTicks + Margin
    BY <1>3 DEF SettleFor, Basis
  <2> HIDE DEF o
  <2>3. Sound(o) /\ o.fade = g.fade /\ o.ramp = StepTicks
    BY <1>0, <2>1, GoesSound
  <2> QED BY <1>0, <1>3, <2>2, <2>3 DEF Light, o
<1>4. CASE c.op = "fade"
  <2>1. o = [g EXCEPT !.fade = c.v]
    BY <1>4 DEF Obeys
  <2> QED BY <1>4, <2>1 DEF Sound, Light
<1>5. CASE c.op \notin Light \cup {"fade"}
  <2>1. o = g
    BY <1>5 DEF Obeys, Light
  <2> QED BY <1>5, <2>1
<1> QED BY <1>1, <1>2, <1>3, <1>4, <1>5 DEF Light

(* The gear after each of the first n commands.                                 *)
ObeyedUpTo(cs, n, a) ==
  a = [i \in 0 .. n |->
         IF i = 0 THEN gear
         ELSE [d \in D |-> IF d \in Range(cs[i].to) THEN Obeys(a[i - 1][d], cs[i]) ELSE a[i - 1][d]]]

LEMMA ObeyedAt ==
  ASSUME NEW cs, NEW n \in Nat, NEW a, ObeyedUpTo(cs, n, a), NEW i \in 0 .. n
  PROVE  a[i] = IF i = 0 THEN gear
                ELSE [d \in D |-> IF d \in Range(cs[i].to) THEN Obeys(a[i - 1][d], cs[i]) ELSE a[i - 1][d]]
<1> DEFINE g == [j \in 0 .. n |-> IF j = 0 THEN gear
                   ELSE [d \in D |-> IF d \in Range(cs[j].to) THEN Obeys(a[j - 1][d], cs[j]) ELSE a[j - 1][d]]]
<1>1. a = g
  BY DEF ObeyedUpTo
<1>2. g[i] = IF i = 0 THEN gear
             ELSE [d \in D |-> IF d \in Range(cs[i].to) THEN Obeys(a[i - 1][d], cs[i]) ELSE a[i - 1][d]]
  OBVIOUS
<1> HIDE DEF g
<1> QED BY <1>1, <1>2

LEMMA ObeyedFirst ==
  ASSUME NEW cs, NEW n \in Nat, NEW a, ObeyedUpTo(cs, n, a)
  PROVE  a[0] = gear
<1> DEFINE g == [j \in 0 .. n |-> IF j = 0 THEN gear
                   ELSE [d \in D |-> IF d \in Range(cs[j].to) THEN Obeys(a[j - 1][d], cs[j]) ELSE a[j - 1][d]]]
<1>1. a = g
  BY DEF ObeyedUpTo
<1>2. g[0] = gear
  OBVIOUS
<1> HIDE DEF g
<1> QED BY <1>1, <1>2

LEMMA ObeyedExists ==
  ASSUME NEW cs, NEW n \in Nat
  PROVE  \E a : ObeyedUpTo(cs, n, a)
<1> DEFINE P(k) == \E a : ObeyedUpTo(cs, k, a)
           Next1(i, g) == [d \in D |-> IF d \in Range(cs[i].to) THEN Obeys(g[d], cs[i]) ELSE g[d]]
<1>1. P(0)
  <2> DEFINE a == [i \in 0 .. 0 |-> gear]
             h == [i \in 0 .. 0 |-> IF i = 0 THEN gear ELSE Next1(i, a[i - 1])]
  <2>1. a = h
    OBVIOUS
  <2>2. ObeyedUpTo(cs, 0, a)
    BY <2>1 DEF ObeyedUpTo
  <2> QED BY <2>2
<1>2. ASSUME NEW k \in Nat, P(k) PROVE P(k + 1)
  <2>1. PICK f : ObeyedUpTo(cs, k, f)
    BY <1>2
  <2> DEFINE g == [i \in 0 .. k + 1 |-> IF i = k + 1 THEN Next1(i, f[k]) ELSE f[i]]
             h == [i \in 0 .. k + 1 |-> IF i = 0 THEN gear ELSE Next1(i, g[i - 1])]
  <2>2. ASSUME NEW i \in 0 .. k + 1 PROVE g[i] = h[i]
    <3>1. CASE i = k + 1
      <4>1. k \in 0 .. k + 1 /\ k # k + 1 /\ i - 1 = k /\ i # 0
        BY <3>1
      <4>2. g[k] = f[k]
        BY <4>1
      <4>3. g[i] = Next1(i, f[k])
        BY <3>1
      <4>4. h[i] = Next1(i, g[k])
        BY <3>1, <4>1
      <4> HIDE DEF Next1, g, h
      <4> QED BY <4>2, <4>3, <4>4
    <3>2. CASE i # k + 1
      <4>1. i \in 0 .. k /\ f[i] = IF i = 0 THEN gear ELSE Next1(i, f[i - 1])
        BY <2>1, <3>2, ObeyedAt
      <4>2. i # 0 => i - 1 \in 0 .. k + 1 /\ i - 1 # k + 1 /\ g[i - 1] = f[i - 1]
        BY <4>1
      <4>3. g[i] = f[i]
        BY <3>2
      <4>4. h[i] = IF i = 0 THEN gear ELSE Next1(i, g[i - 1])
        OBVIOUS
      <4> HIDE DEF Next1, g, h
      <4> QED BY <4>1, <4>2, <4>3, <4>4
    <3> QED BY <3>1, <3>2
  <2>3. g = h
    <3> HIDE DEF Next1
    <3> QED BY <2>2
  <2>4. ObeyedUpTo(cs, k + 1, g)
    BY <2>3 DEF ObeyedUpTo
  <2> QED BY <2>4
<1> DEFINE T == {i \in Nat : ~P(i)}
<1>3. T = {}
  <2> SUFFICES ASSUME T # {} PROVE FALSE
    OBVIOUS
  <2>1. T \in SUBSET Nat
    OBVIOUS
  <2>2. PICK k \in T : \A i \in T : k <= i
    <3> HIDE DEF T
    <3> QED BY <2>1, FirstPosition
  <2> HIDE DEF P
  <2>3. k \in Nat /\ ~P(k) /\ k # 0
    BY <1>1
  <2>4. k - 1 \in Nat /\ ~(k <= k - 1) /\ k - 1 + 1 = k
    BY <2>3
  <2>5. P(k - 1)
    BY <2>2, <2>4
  <2> QED BY <1>2, <2>3, <2>4, <2>5
<1> QED BY <1>3

LEMMA ObeysAllIs ==
  ASSUME NEW cs, Len(cs) \in Nat
  PROVE  \E a : ObeyedUpTo(cs, Len(cs), a) /\ ObeysAll(cs) = a[Len(cs)]
<1> DEFINE a == CHOOSE f : ObeyedUpTo(cs, Len(cs), f)
<1>1. ObeyedUpTo(cs, Len(cs), a)
  BY ObeyedExists
<1>2. ObeysAll(cs) = a[Len(cs)]
  BY DEF ObeysAll, ObeyedUpTo
<1> QED BY <1>1, <1>2

LEMMA PrefixNext ==
  ASSUME NEW S, NEW F \in Seq(S), NEW cs \in Seq(S), NEW i \in Nat, i + 1 <= Len(cs)
  PROVE  /\ F \o SubSeq(cs, 1, i) \in Seq(S) /\ i + 1 \in 1 .. Len(cs) /\ cs[i + 1] \in S
         /\ F \o SubSeq(cs, 1, i + 1) = Append(F \o SubSeq(cs, 1, i), cs[i + 1])
<1> DEFINE p == SubSeq(cs, 1, i)
           q == SubSeq(cs, 1, i + 1)
<1>1. p \in Seq(S) /\ Len(p) = i /\ \A j \in 1 .. i : p[j] = cs[j]
  OBVIOUS
<1>2. q \in Seq(S) /\ Len(q) = i + 1 /\ \A j \in 1 .. i + 1 : q[j] = cs[j]
  OBVIOUS
<1>3. i + 1 \in 1 .. Len(cs) /\ cs[i + 1] \in S
  OBVIOUS
<1> DEFINE c == cs[i + 1]
<1> HIDE DEF p, q
<1>4. q = Append(p, c)
  <2>1. Append(p, c) \in Seq(S) /\ Len(Append(p, c)) = i + 1 /\ \A j \in 1 .. i + 1 : Append(p, c)[j] = cs[j]
    <3>1. c \in S
      BY <1>3
    <3>2. Append(p, c) \in Seq(S) /\ Len(Append(p, c)) = i + 1 /\ Append(p, c)[i + 1] = c /\ \A j \in 1 .. i : Append(p, c)[j] = p[j]
      BY <1>1, <3>1, AppendIs
    <3> QED BY <1>1, <3>2
  <2> DEFINE r == Append(p, c)
  <2> HIDE DEF r, c
  <2>2. r \in Seq(S) /\ Len(r) = i + 1 /\ \A j \in 1 .. i + 1 : r[j] = cs[j]
    BY <2>1 DEF r
  <2>3. q = r
    BY <1>2, <2>2
  <2> QED BY <2>3 DEF r
<1>5. c \in S
  BY <1>3
<1> HIDE DEF c
<1>6. F \o Append(p, c) = Append(F \o p, c) /\ F \o p \in Seq(S)
  BY <1>1, <1>5
<1> QED BY <1>3, <1>4, <1>6 DEF p, q, c

LEMMA PrefixEnds ==
  ASSUME NEW S, NEW F \in Seq(S), NEW cs \in Seq(S)
  PROVE  F \o SubSeq(cs, 1, 0) = F /\ F \o SubSeq(cs, 1, Len(cs)) = F \o cs /\ Len(cs) \in Nat
<1>1. SubSeq(cs, 1, 0) = <<>> /\ Len(cs) \in Nat
  OBVIOUS
<1>2. SubSeq(cs, 1, Len(cs)) = cs
  <2> DEFINE q == SubSeq(cs, 1, Len(cs))
  <2>1. q \in Seq(S) /\ Len(q) = Len(cs) /\ \A j \in 1 .. Len(cs) : q[j] = cs[j]
    OBVIOUS
  <2> HIDE DEF q
  <2>2. q = cs
    BY <2>1
  <2> QED BY <2>2 DEF q
<1>3. F \o <<>> = F
  OBVIOUS
<1> QED BY <1>1, <1>2, <1>3

(* One more command: the gear obeys, the list grows.                            *)
LEMMA CommandAdds ==
  ASSUME NEW F \in Seq(Commands), NEW c \in Commands, c.op = "fade" => c.v \in Nat,
         NEW d, NEW f0, NEW g, Sound(g), FadeAt(F, d, f0, Len(F) + 1, g.fade)
  PROVE  LET G == Append(F, c)
             h == IF d \in Range(c.to) THEN Obeys(g, c) ELSE g
         IN /\ Sound(h) /\ FadeAt(G, d, f0, Len(G) + 1, h.fade)
            /\ Moves(c, d) => Settles(G, d, f0, h.ramp)
            /\ ~Moves(c, d) => /\ h.level = g.level /\ h.ramp = g.ramp
                               /\ Settles(F, d, f0, g.ramp) => Settles(G, d, f0, h.ramp)
                               /\ Unmoved(F, d) => Unmoved(G, d)
<1> DEFINE G == Append(F, c)
           h == IF d \in Range(c.to) THEN Obeys(g, c) ELSE g
<1>1. /\ Sound(h) /\ h.fade = IF Fades(c, d) THEN c.v ELSE g.fade
      /\ Moves(c, d) => SettleFor(Basis(c.op), g.fade) > h.ramp
      /\ ~Moves(c, d) => h.level = g.level /\ h.ramp = g.ramp
  BY ObeysIs DEF Moves, Fades
<1>2. FadeAt(G, d, f0, Len(G) + 1, h.fade)
  <2>1. Len(G) + 1 = Len(F) + 2
    BY AppendIs
  <2>2. FadeAt(G, d, f0, Len(F) + 2, IF Fades(c, d) THEN c.v ELSE g.fade)
    BY FadeNext
  <2> HIDE DEF G, h
  <2> QED BY <1>1, <2>1, <2>2
<1> HIDE DEF h
<1>3. g.fade \in Nat
  BY DEF Sound
<1>4. ASSUME Moves(c, d) PROVE Settles(G, d, f0, h.ramp)
  BY <1>1, <1>3, <1>4, SettlesNew
<1>5. ASSUME ~Moves(c, d), Settles(F, d, f0, g.ramp) PROVE Settles(G, d, f0, h.ramp)
  BY <1>1, <1>5, SettlesAppend
<1>6. ASSUME ~Moves(c, d), Unmoved(F, d) PROVE Unmoved(G, d)
  BY <1>6, UnmovedAppend
<1> HIDE DEF G
<1> QED BY <1>1, <1>2, <1>4, <1>5, <1>6 DEF G, h

(* What is known of d after i commands of a batch.                              *)
Reached(cs, i, d, g) ==
  LET F == frames \o SubSeq(cs, 1, i)
  IN /\ Sound(g) /\ FadeAt(F, d, fade[d], Len(F) + 1, g.fade)
     /\ \/ Settles(F, d, fade[d], g.ramp)
        \/ /\ ~Settles(frames, d, fade[d], gear[d].ramp)
           /\ \A j \in 1 .. i : ~Moves(cs[j], d)
           /\ Unmoved(frames, d) => Unmoved(F, d)
           /\ g.level = gear[d].level /\ g.ramp = gear[d].ramp

LEMMA ReachedNext ==
  ASSUME frames \in Seq(Commands), NEW cs \in Seq(Commands), NEW i \in Nat, i + 1 <= Len(cs),
         cs[i + 1].op = "fade" => cs[i + 1].v \in Nat, NEW d, NEW g, Reached(cs, i, d, g)
  PROVE  Reached(cs, i + 1, d, IF d \in Range(cs[i + 1].to) THEN Obeys(g, cs[i + 1]) ELSE g)
<1> DEFINE F == frames \o SubSeq(cs, 1, i)
           G == frames \o SubSeq(cs, 1, i + 1)
           c == cs[i + 1]
           h == IF d \in Range(c.to) THEN Obeys(g, c) ELSE g
           f0 == fade[d]
<1>1. F \in Seq(Commands) /\ c \in Commands /\ G = Append(F, c)
  BY PrefixNext
<1>2. /\ Sound(g) /\ FadeAt(F, d, f0, Len(F) + 1, g.fade)
      /\ \/ Settles(F, d, f0, g.ramp)
         \/ /\ ~Settles(frames, d, f0, gear[d].ramp)
            /\ \A j \in 1 .. i : ~Moves(cs[j], d)
            /\ Unmoved(frames, d) => Unmoved(F, d)
            /\ g.level = gear[d].level /\ g.ramp = gear[d].ramp
  BY DEF Reached
<1>3. c.op = "fade" => c.v \in Nat
  OBVIOUS
<1> HIDE DEF F, G, c, f0
<1>4. /\ Sound(h) /\ FadeAt(G, d, f0, Len(G) + 1, h.fade)
      /\ Moves(c, d) => Settles(G, d, f0, h.ramp)
      /\ ~Moves(c, d) => /\ h.level = g.level /\ h.ramp = g.ramp
                         /\ Settles(F, d, f0, g.ramp) => Settles(G, d, f0, h.ramp)
                         /\ Unmoved(F, d) => Unmoved(G, d)
  BY <1>1, <1>2, <1>3, CommandAdds, SMTT(20)
<1> HIDE DEF h
<1>5. (\A j \in 1 .. i : ~Moves(cs[j], d)) /\ ~Moves(c, d) => \A j \in 1 .. i + 1 : ~Moves(cs[j], d)
  BY DEF c
<1>6. /\ Sound(h) /\ FadeAt(G, d, f0, Len(G) + 1, h.fade)
      /\ \/ Settles(G, d, f0, h.ramp)
         \/ /\ ~Settles(frames, d, f0, gear[d].ramp)
            /\ \A j \in 1 .. i + 1 : ~Moves(cs[j], d)
            /\ Unmoved(frames, d) => Unmoved(G, d)
            /\ h.level = gear[d].level /\ h.ramp = gear[d].ramp
  BY <1>2, <1>4, <1>5
<1>7. Reached(cs, i + 1, d, h)
  BY <1>6 DEF Reached, G, f0
<1> QED BY <1>7 DEF h, c

(* A batch: what it moves will be polled, what it does not move stays.          *)
LEMMA BatchIs ==
  ASSUME frames \in Seq(Commands), NEW cs \in Seq(Commands), \A i \in 1 .. Len(cs) : cs[i].op = "fade" => cs[i].v \in Nat,
         NEW d \in D, Sound(gear[d]), FadeAt(frames, d, fade[d], Len(frames) + 1, gear[d].fade)
  PROVE  Reached(cs, Len(cs), d, ObeysAll(cs)[d])
<1> DEFINE n == Len(cs)
<1>0. n \in Nat
  OBVIOUS
<1>1. PICK a : ObeyedUpTo(cs, n, a) /\ ObeysAll(cs) = a[n]
  BY <1>0, ObeysAllIs
<1> DEFINE P(i) == Reached(cs, i, d, a[i][d])
<1>2. P(0)
  <2>1. a[0] = gear
    BY <1>0, <1>1, ObeyedFirst
  <2>2. frames \o SubSeq(cs, 1, 0) = frames
    BY PrefixEnds
  <2>3. \A j \in 1 .. 0 : ~Moves(cs[j], d)
    OBVIOUS
  <2>4. Reached(cs, 0, d, gear[d])
    BY <2>2, <2>3, Zenon DEF Reached
  <2> QED BY <2>1, <2>4
<1>3. ASSUME NEW i \in Nat, i + 1 <= n, P(i) PROVE P(i + 1)
  <2>1. i + 1 \in 0 .. n /\ i + 1 \in 1 .. n /\ i + 1 # 0 /\ i + 1 - 1 = i
    BY <1>0, <1>3
  <2>2. a[i + 1] = [x \in D |-> IF x \in Range(cs[i + 1].to) THEN Obeys(a[i][x], cs[i + 1]) ELSE a[i][x]]
    BY <1>0, <1>1, <2>1, ObeyedAt, SMTT(20)
  <2>3. a[i + 1][d] = IF d \in Range(cs[i + 1].to) THEN Obeys(a[i][d], cs[i + 1]) ELSE a[i][d]
    BY <2>2
  <2>4. Reached(cs, i + 1, d, IF d \in Range(cs[i + 1].to) THEN Obeys(a[i][d], cs[i + 1]) ELSE a[i][d])
    BY <1>3, <2>1, ReachedNext
  <2> QED BY <2>3, <2>4
<1> DEFINE T == {i \in 0 .. n : ~P(i)}
<1>4. T = {}
  <2> SUFFICES ASSUME T # {} PROVE FALSE
    OBVIOUS
  <2>1. T \in SUBSET Nat
    BY <1>0
  <2>2. PICK k \in T : \A i \in T : k <= i
    <3> HIDE DEF T
    <3> QED BY <2>1, FirstPosition
  <2> HIDE DEF P
  <2>3. k \in 0 .. n /\ ~P(k) /\ k # 0
    BY <1>2
  <2>4. k - 1 \in 0 .. n /\ k - 1 \in Nat /\ ~(k <= k - 1) /\ k - 1 + 1 = k /\ k <= n
    BY <1>0, <2>3
  <2>5. P(k - 1)
    BY <2>2, <2>4
  <2> QED BY <1>3, <2>3, <2>4, <2>5
<1> HIDE DEF P
<1>5. P(n)
  BY <1>0, <1>4
<1> QED BY <1>1, <1>5 DEF P

---------------------------------------------------------------------------
(* Lists joined to one.                                                         *)

LEMMA RangeJoined ==
  ASSUME NEW S, NEW p \in Seq(S), NEW q \in Seq(S)
  PROVE  Range(p \o q) = Range(p) \cup Range(q)
<1> DEFINE r == p \o q
           n == Len(p)
           m == Len(q)
<1>1. IsList(p) /\ IsList(q)
  BY DEF IsList
<1>2. n \in Nat /\ m \in Nat /\ DOMAIN p = 1 .. n /\ DOMAIN q = 1 .. m /\ DOMAIN r = 1 .. n + m
      /\ \A i \in 1 .. n : r[i] = p[i]
  BY <1>1, ListJoin
<1>3. \A i \in 1 .. m : r[n + i] = q[i]
  <2>1. Behind(r, n, q)
    BY <1>1, ListBehind
  <2> QED BY <2>1 DEF Behind
<1> HIDE DEF r, n, m
<1>4. ASSUME NEW x \in Range(p) PROVE x \in Range(r)
  <2>1. PICK i \in 1 .. n : x = p[i]
    BY <1>2, <1>4 DEF Range
  <2>2. i \in 1 .. n + m /\ x = r[i]
    BY <1>2, <2>1
  <2> QED BY <1>2, <2>2 DEF Range
<1>5. ASSUME NEW x \in Range(q) PROVE x \in Range(r)
  <2>1. PICK i \in 1 .. m : x = q[i]
    BY <1>2, <1>5 DEF Range
  <2>2. n + i \in 1 .. n + m /\ x = r[n + i]
    BY <1>2, <1>3, <2>1
  <2> QED BY <1>2, <2>2 DEF Range
<1>6. ASSUME NEW x \in Range(r) PROVE x \in Range(p) \cup Range(q)
  <2>1. PICK i \in 1 .. n + m : x = r[i]
    BY <1>2, <1>6 DEF Range
  <2>2. CASE i <= n
    <3>1. i \in 1 .. n /\ x = p[i]
      BY <1>2, <2>1, <2>2
    <3> QED BY <1>2, <3>1 DEF Range
  <2>3. CASE ~(i <= n)
    <3>1. i - n \in 1 .. m /\ n + (i - n) = i
      BY <1>2, <2>1, <2>3
    <3>2. x = q[i - n]
      BY <1>3, <2>1, <3>1
    <3> QED BY <1>2, <3>1, <3>2 DEF Range
  <2> QED BY <2>2, <2>3
<1> QED BY <1>4, <1>5, <1>6 DEF r

LEMMA JoinedHolds ==
  ASSUME NEW S, NEW ss \in Seq(Seq(S)), NEW f, JoinedUpTo(ss, Len(ss), f), NEW j \in 1 .. Len(ss), NEW n \in j .. Len(ss)
  PROVE  Range(ss[j]) \subseteq Range(f[n])
<1> DEFINE m == Len(ss)
           T == {i \in j .. m : ~(Range(ss[j]) \subseteq Range(f[i]))}
<1>0. /\ m \in Nat /\ j \in 1 .. m
      /\ \A i \in 1 .. m : f[i] \in Seq(S) /\ ss[i] \in Seq(S) /\ f[i] = IF i = 1 THEN ss[i] ELSE f[i - 1] \o ss[i]
  <2>1. \A p, q \in Seq(S) : p \o q \in Seq(S)
    OBVIOUS
  <2>2. ASSUME NEW i \in 1 .. Len(ss) PROVE f[i] \in Seq(S)
    <3> DEFINE Q == Seq(S)
    <3>1. (\A p, q \in Q : p \o q \in Q) /\ ss \in Seq(Q)
      BY <2>1
    <3> HIDE DEF Q
    <3>2. f[i] \in Q
      BY <3>1, JoinedIsIn
    <3> QED BY <3>2 DEF Q
  <2>3. ASSUME NEW i \in 1 .. Len(ss) PROVE f[i] = IF i = 1 THEN ss[i] ELSE f[i - 1] \o ss[i]
    BY JoinedAt
  <2> QED BY <2>2, <2>3
<1>1. T = {}
  <2> SUFFICES ASSUME T # {} PROVE FALSE
    OBVIOUS
  <2>1. T \in SUBSET Nat
    OBVIOUS
  <2>2. PICK k \in T : \A i \in T : k <= i
    <3> HIDE DEF T
    <3> QED BY <2>1, FirstPosition
  <2> HIDE DEF m
  <2>3. k \in j .. m /\ k \in 1 .. m /\ ~(Range(ss[j]) \subseteq Range(f[k]))
    BY <1>0
  <2>4. CASE k = 1
    BY <1>0, <2>3, <2>4
  <2>5. CASE k # 1
    <3>0. m \in Nat /\ j \in 1 .. m
      BY <1>0
    <3>1. k - 1 \in 1 .. m
      BY <2>3, <2>5, <3>0
    <3>2. Range(f[k]) = Range(f[k - 1]) \cup Range(ss[k])
      <4>1. f[k] = f[k - 1] \o ss[k] /\ f[k - 1] \in Seq(S) /\ ss[k] \in Seq(S)
        BY <1>0, <2>3, <2>5, <3>1
      <4> QED BY <4>1, RangeJoined
    <3>3. k # j
      BY <2>3, <3>2
    <3>4. k - 1 \in j .. m /\ ~(k <= k - 1)
      BY <2>3, <3>0, <3>3
    <3>5. Range(ss[j]) \subseteq Range(f[k - 1])
      BY <2>2, <3>4
    <3> QED BY <2>3, <3>2, <3>5
  <2> QED BY <2>4, <2>5
<1> HIDE DEF T
<1>2. n \in j .. m
  OBVIOUS
<1> QED BY <1>1, <1>2 DEF T

LEMMA FlattenHolds ==
  ASSUME NEW S, NEW ss \in Seq(Seq(S)), NEW j \in 1 .. Len(ss)
  PROVE  Range(ss[j]) \subseteq Range(FlattenSeq(ss))
<1> DEFINE fl == CHOOSE f : JoinedUpTo(ss, Len(ss), f)
<1>1. Len(ss) \in Nat \ {0} /\ Len(ss) \in 0 .. Len(ss) /\ Len(ss) \in j .. Len(ss)
  OBVIOUS
<1>2. FlattenSeq(ss) = fl[Len(ss)]
  BY <1>1 DEF FlattenSeq, JoinedUpTo
<1>3. JoinedUpTo(ss, Len(ss), fl)
  BY <1>1, JoinedExists
<1> HIDE DEF fl
<1>4. Range(ss[j]) \subseteq Range(fl[Len(ss)])
  BY <1>1, <1>3, JoinedHolds
<1> QED BY <1>2, <1>4

LEMMA InOrderHolds ==
  ASSUME NEW s, NEW d \in D, d \in s
  PROVE  d \in Range(InOrder(s))
<1> DEFINE ss == [i \in DOMAIN Devices |-> IF Devices[i] \in s THEN <<Devices[i]>> ELSE <<>>]
<1>1. Devices \in Seq(D) /\ DOMAIN Devices = 1 .. Len(Devices) /\ Len(Devices) \in Nat
  BY DevicesAssumption
<1>2. ss \in Seq(Seq(D)) /\ Len(ss) = Len(Devices)
  <2>1. \A i \in 1 .. Len(Devices) : ss[i] \in Seq(D)
    BY <1>1
  <2>2. ss = [i \in 1 .. Len(Devices) |-> ss[i]]
    BY <1>1
  <2> HIDE DEF ss
  <2> QED BY <1>1, <2>1, <2>2
<1>3. PICK j \in 1 .. Len(Devices) : Devices[j] = d
  BY <1>1 DEF D, Range
<1>4. ss[j] = <<d>>
  BY <1>1, <1>3
<1>5. InOrder(s) = FlattenSeq(ss)
  BY DEF InOrder
<1> HIDE DEF ss
<1>6. Range(ss[j]) \subseteq Range(InOrder(s))
  BY <1>2, <1>3, <1>5, FlattenHolds
<1>7. d \in Range(<<d>>)
  BY DEF Range
<1> QED BY <1>4, <1>6, <1>7

---------------------------------------------------------------------------
(* The batches that are sent.                                                   *)

(* A fade is set right after its register, and nobody asks.                     *)
Tidied == {cs \in Seq(Commands) : \A i \in 1 .. Len(cs) :
             /\ cs[i].op # "query"
             /\ cs[i].op = "fade" => i > 1 /\ cs[i].v \in Nat /\ cs[i - 1].op = "dtr0" /\ cs[i - 1].v = cs[i].v}
Narrow == {cs \in Tidied : \A i \in 1 .. Len(cs) : Len(cs[i].to) < 2}

LEMMA TidiedJoin ==
  ASSUME NEW p \in Tidied, NEW q \in Tidied
  PROVE  p \o q \in Tidied
<1> DEFINE r == p \o q
           n == Len(p)
           m == Len(q)
<1>0. p \in Seq(Commands) /\ q \in Seq(Commands)
  BY DEF Tidied
<1>1. IsList(p) /\ IsList(q)
  BY <1>0 DEF IsList
<1>2. n \in Nat /\ m \in Nat /\ Len(r) = n + m /\ \A i \in 1 .. n : r[i] = p[i]
  BY <1>1, ListJoin
<1>3. \A i \in 1 .. m : r[n + i] = q[i]
  <2>1. Behind(r, n, q)
    BY <1>1, ListBehind
  <2> QED BY <2>1 DEF Behind
<1>4. r \in Seq(Commands)
  BY <1>0
<1>5. /\ \A i \in 1 .. n : /\ p[i].op # "query"
                           /\ p[i].op = "fade" => i > 1 /\ p[i].v \in Nat /\ p[i - 1].op = "dtr0" /\ p[i - 1].v = p[i].v
      /\ \A i \in 1 .. m : /\ q[i].op # "query"
                           /\ q[i].op = "fade" => i > 1 /\ q[i].v \in Nat /\ q[i - 1].op = "dtr0" /\ q[i - 1].v = q[i].v
  BY DEF Tidied
<1> HIDE DEF r, n, m
<1>6. ASSUME NEW i \in 1 .. n + m
      PROVE  /\ r[i].op # "query"
             /\ r[i].op = "fade" => i > 1 /\ r[i].v \in Nat /\ r[i - 1].op = "dtr0" /\ r[i - 1].v = r[i].v
  <2>1. CASE i <= n
    <3>1. i \in 1 .. n /\ r[i] = p[i]
      BY <1>2, <2>1
    <3>2. i > 1 => i - 1 \in 1 .. n /\ r[i - 1] = p[i - 1]
      BY <1>2, <3>1
    <3> QED BY <1>5, <3>1, <3>2
  <2>2. CASE ~(i <= n)
    <3>1. PICK j \in 1 .. m : i = n + j
      <4>1. i - n \in 1 .. m /\ i = n + (i - n)
        BY <1>2, <2>2
      <4> QED BY <4>1
    <3>2. r[i] = q[j]
      BY <1>3, <3>1
    <3>3. j > 1 => j - 1 \in 1 .. m /\ n + (j - 1) = i - 1 /\ i > 1
      BY <1>2, <3>1
    <3>4. j > 1 => r[i - 1] = q[j - 1]
      BY <1>3, <3>3
    <3> QED BY <1>5, <3>1, <3>2, <3>3, <3>4
  <2> QED BY <2>1, <2>2
<1>7. r \in Tidied
  BY <1>2, <1>4, <1>6 DEF Tidied
<1> QED BY <1>7 DEF r

LEMMA NarrowJoin ==
  ASSUME NEW p \in Narrow, NEW q \in Narrow
  PROVE  p \o q \in Narrow
<1> DEFINE r == p \o q
           n == Len(p)
           m == Len(q)
<1>0. p \in Tidied /\ q \in Tidied /\ p \in Seq(Commands) /\ q \in Seq(Commands)
  BY DEF Narrow, Tidied
<1>1. IsList(p) /\ IsList(q)
  BY <1>0 DEF IsList
<1>2. n \in Nat /\ m \in Nat /\ Len(r) = n + m /\ \A i \in 1 .. n : r[i] = p[i]
  BY <1>1, ListJoin
<1>3. \A i \in 1 .. m : r[n + i] = q[i]
  <2>1. Behind(r, n, q)
    BY <1>1, ListBehind
  <2> QED BY <2>1 DEF Behind
<1>4. r \in Tidied
  BY <1>0, TidiedJoin
<1>5. (\A i \in 1 .. n : Len(p[i].to) < 2) /\ \A i \in 1 .. m : Len(q[i].to) < 2
  BY DEF Narrow
<1> HIDE DEF r, n, m
<1>6. ASSUME NEW i \in 1 .. n + m PROVE Len(r[i].to) < 2
  <2>1. CASE i <= n
    BY <1>2, <1>5, <2>1
  <2>2. CASE ~(i <= n)
    <3>1. i - n \in 1 .. m /\ i = n + (i - n)
      BY <1>2, <2>2
    <3> QED BY <1>3, <1>5, <3>1
  <2> QED BY <2>1, <2>2
<1>7. r \in Narrow
  BY <1>2, <1>4, <1>6 DEF Narrow
<1> QED BY <1>7 DEF r

LEMMA NothingNarrow == <<>> \in Narrow
  BY DEF Narrow, Tidied

LEMMA NarrowWide ==
  ASSUME NEW cs \in Narrow
  PROVE  WideLast(cs)
<1>1. ASSUME NEW i \in 1 .. Len(cs) PROVE cs[i].op # "query" /\ ~(Len(cs[i].to) > 1)
  <2>1. cs[i].op # "query" /\ Len(cs[i].to) < 2 /\ cs[i] \in Commands
    BY DEF Narrow, Tidied
  <2>2. cs[i].to = <<>> \/ cs[i].to \in Targets
    BY <2>1 DEF Commands
  <2>3. Len(cs[i].to) \in Nat
    BY <2>2 DEF Targets
  <2> QED BY <2>1, <2>3
<1> QED BY <1>1 DEF WideLast

(* The parts of a batch.                                                        *)
Setting(f, to) == <<[op |-> "dtr0", v |-> f, to |-> <<>>], [op |-> "fade", v |-> f, to |-> to]>>

LEMMA SettingTidied ==
  ASSUME NEW f \in Nat, NEW to \in Targets
  PROVE  Setting(f, to) \in Tidied /\ (Len(to) < 2 => Setting(f, to) \in Narrow)
<1> DEFINE a == [op |-> "dtr0", v |-> f, to |-> <<>>]
           b == [op |-> "fade", v |-> f, to |-> to]
           s == Setting(f, to)
<1>1. a \in Commands /\ b \in Commands
  BY DEF Commands
<1>2. a.op = "dtr0" /\ a.v = f /\ Len(a.to) = 0 /\ b.op = "fade" /\ b.v = f /\ b.to = to
  OBVIOUS
<1>3. s = <<a, b>>
  BY DEF Setting
<1> HIDE DEF a, b, s
<1>4. s \in Seq(Commands) /\ Len(s) = 2 /\ s[1] = a /\ s[2] = b
  BY <1>1, <1>3
<1>5. ASSUME NEW i \in 1 .. Len(s)
      PROVE  /\ s[i].op # "query"
             /\ s[i].op = "fade" => i > 1 /\ s[i].v \in Nat /\ s[i - 1].op = "dtr0" /\ s[i - 1].v = s[i].v
             /\ Len(to) < 2 => Len(s[i].to) < 2
  <2>1. i = 1 \/ i = 2
    BY <1>4
  <2>2. CASE i = 1
    BY <1>2, <1>4, <2>2
  <2>3. CASE i = 2
    <3>1. s[i - 1] = a
      BY <1>4, <2>3
    <3> QED BY <1>2, <1>4, <2>3, <3>1
  <2> QED BY <2>1, <2>2, <2>3
<1> QED BY <1>4, <1>5 DEF Tidied, Narrow, s

LEMMA SingleTidied ==
  ASSUME NEW c \in Commands, c.op \in Light
  PROVE  <<c>> \in Tidied /\ (Len(c.to) < 2 => <<c>> \in Narrow) /\ WideLast(<<c>>)
<1> DEFINE s == <<c>>
<1>1. s \in Seq(Commands) /\ Len(s) = 1 /\ s[1] = c /\ \A i \in 1 .. Len(s) : i = 1
  OBVIOUS
<1> HIDE DEF s
<1> QED BY <1>1 DEF Tidied, Narrow, WideLast, Light, s

(* OnOffControl.get_setup_commands: a write that is carried out moves its light, *)
(* one that is not is what the switch has.                                      *)
LEMMA SetupIs ==
  ASSUME GearInv, NEW x \in Shown, NEW v
  PROVE  LET cs == SetupCommands(x, v)
         IN /\ cs \in Tidied /\ WideLast(cs)
            /\ x \in D => cs \in Narrow /\ (\/ \E c \in Range(cs) : Moves(c, x)
                                            \/ ~ctl[x].onerr /\ ctl[x].on = (v = "1"))
<1> DEFINE to  == IF x = Group THEN InOrder(Candidates(grp)) ELSE <<x>>
           on  == [op |-> "dapc", v |-> MaxLevel, to |-> to]
           off == [op |-> "off", to |-> to]
           cs  == SetupCommands(x, v)
           c   == IF v = "1" THEN on ELSE off
           prior == IF x = Group THEN NoFade ELSE fade[x]
           done == LET s == IF x = Group THEN grp ELSE ctl[x] IN ~s.onerr /\ s.on = (v = "1")
<1>1. to \in Seq(D) /\ (x \in D => to = <<x>> /\ to # <<>> /\ Len(to) = 1 /\ x \in Range(to))
  BY InOrderIsList, DevicesAssumption DEF Shown, Range
<1>11. x \in D => Len(to) < 2
  <2>1. Len(<<x>>) < 2
    OBVIOUS
  <2> HIDE DEF to
  <2> QED BY <1>1, <2>1
<1>2. cs = IF done \/ to = <<>> THEN <<>> ELSE IF v = "1" THEN WithFade(x, to, on) ELSE <<off>>
  BY DEF SetupCommands, SwitchCommands
<1>3. x \in D => (done <=> ~ctl[x].onerr /\ ctl[x].on = (v = "1"))
  BY DevicesAssumption
<1>4. WithFade(x, to, on) = IF OnFade = NoFade THEN <<on>>
                            ELSE (IF prior # OnFade THEN Setting(OnFade, to) ELSE <<>>) \o <<on>>
                                 \o (IF prior \notin {NoFade, OnFade} THEN Setting(prior, to) ELSE <<>>)
  BY DEF WithFade, Setting
<1>5. to # <<>> => /\ to \in Targets /\ on \in Commands /\ off \in Commands
                   /\ on.op \in Light /\ off.op \in Light /\ on.to = to /\ off.to = to
  <2>1. to # <<>> => to \in Targets
    BY <1>1 DEF Targets
  <2> HIDE DEF to
  <2> QED BY <2>1, LevelAssumption DEF Commands, Light
<1>6. x \in D => prior \in Nat
  BY DevicesAssumption DEF GearInv
<1>7. x \notin D => prior = NoFade
  BY DEF Shown
<1> HIDE DEF to, on, off, cs, done, prior
<1>8. CASE done \/ to = <<>>
  <2>1. cs = <<>>
    BY <1>2, <1>8
  <2>2. x \in D => done
    BY <1>1, <1>8
  <2>3. <<>> \in Tidied /\ WideLast(<<>>)
    BY NothingNarrow DEF Narrow, WideLast
  <2> QED BY <1>3, <2>1, <2>2, <2>3, NothingNarrow DEF cs
<1>9. CASE ~(done \/ to = <<>>) /\ v # "1"
  <2>1. cs = <<off>>
    BY <1>2, <1>9
  <2>2. off \in Range(<<off>>)
    BY DEF Range
  <2>3. x \in D => Moves(off, x)
    BY <1>1, <1>5, <1>9 DEF Moves
  <2>4. /\ <<off>> \in Tidied /\ WideLast(<<off>>)
        /\ x \in D => <<off>> \in Narrow
    <3>1. off \in Commands /\ off.op \in Light /\ off.to = to
      BY <1>5, <1>9
    <3>2. <<off>> \in Tidied /\ (Len(off.to) < 2 => <<off>> \in Narrow) /\ WideLast(<<off>>)
      BY <3>1, SingleTidied
    <3> QED BY <1>11, <3>1, <3>2
  <2> QED BY <2>1, <2>2, <2>3, <2>4 DEF cs
<1>10. CASE ~(done \/ to = <<>>) /\ v = "1"
  <2>0. to \in Targets /\ on \in Commands /\ on.op \in Light /\ on.to = to /\ cs = WithFade(x, to, on)
    BY <1>2, <1>5, <1>10
  <2>1. x \in D => Moves(on, x)
    BY <1>1, <2>0 DEF Moves
  <2>2. <<on>> \in Tidied /\ WideLast(<<on>>) /\ (x \in D => <<on>> \in Narrow)
    <3>2. <<on>> \in Tidied /\ (Len(on.to) < 2 => <<on>> \in Narrow) /\ WideLast(<<on>>)
      BY <2>0, SingleTidied
    <3> QED BY <1>11, <2>0, <3>2
  <2>3. CASE OnFade = NoFade
    <3>1. cs = <<on>>
      BY <1>4, <2>0, <2>3
    <3>2. on \in Range(<<on>>)
      BY DEF Range
    <3> QED BY <2>1, <2>2, <3>1, <3>2 DEF cs
  <2>4. CASE OnFade # NoFade /\ x \in D
    <3> DEFINE p == IF prior # OnFade THEN Setting(OnFade, to) ELSE <<>>
               q == IF prior \notin {NoFade, OnFade} THEN Setting(prior, to) ELSE <<>>
               o == <<on>>
    <3>0. OnFade \in Nat /\ Len(to) < 2
      BY <1>11, <2>4, FadeAssumption
    <3>1. p \in Narrow
      BY <2>0, <3>0, SettingTidied, NothingNarrow
    <3>2. q \in Narrow
      BY <1>6, <2>0, <2>4, <3>0, SettingTidied, NothingNarrow
    <3>3. cs = p \o o \o q /\ o \in Narrow
      BY <1>4, <2>0, <2>2, <2>4
    <3>4. on \in Range(o)
      BY DEF Range
    <3> HIDE DEF p, q, o
    <3>5. p \o o \in Narrow
      BY <3>1, <3>3, NarrowJoin
    <3>6. cs \in Narrow
      BY <3>2, <3>3, <3>5, NarrowJoin
    <3>7. Range(o) \subseteq Range(cs)
      <4>1. p \in Seq(Commands) /\ q \in Seq(Commands) /\ o \in Seq(Commands) /\ p \o o \in Seq(Commands)
        BY <3>1, <3>2, <3>3, <3>5 DEF Narrow, Tidied
      <4>2. Range(p \o o) = Range(p) \cup Range(o)
        BY <4>1, RangeJoined
      <4>3. Range(p \o o \o q) = Range(p \o o) \cup Range(q)
        BY <4>1, RangeJoined, ZenonT(20)
      <4> QED BY <3>3, <4>2, <4>3
    <3>8. cs \in Tidied /\ WideLast(cs)
      BY <3>6, NarrowWide DEF Narrow
    <3> QED BY <2>1, <2>4, <3>4, <3>6, <3>7, <3>8 DEF cs
  <2>5. CASE OnFade # NoFade /\ x \notin D
    <3> DEFINE p == Setting(OnFade, to)
               o == <<on>>
    <3>0. OnFade \in Nat /\ prior = NoFade /\ prior # OnFade
      BY <1>7, <2>5, FadeAssumption DEF NoFade
    <3>1. p \in Tidied /\ o \in Tidied /\ p \in Seq(Commands) /\ o \in Seq(Commands)
      <4>1. p \in Tidied /\ o \in Tidied
        BY <2>0, <2>2, <3>0, SettingTidied
      <4> HIDE DEF p, o
      <4> QED BY <4>1 DEF Tidied
    <3>2. cs = p \o o \o <<>>
      BY <1>4, <2>0, <2>5, <3>0
    <3>3. /\ Len(p) = 2 /\ p[1].op = "dtr0" /\ p[2].op = "fade" /\ Len(o) = 1
          /\ o[1].op = on.op
      BY DEF Setting
    <3> HIDE DEF p, o
    <3>4. p \o o \in Tidied /\ p \o o \in Seq(Commands) /\ cs = p \o o
      BY <3>1, <3>2, TidiedJoin
    <3>5. Len(cs) = 3 /\ cs[1] = p[1] /\ cs[2] = p[2] /\ cs[3] = o[1]
      <4>1. IsList(p) /\ IsList(o)
        BY <3>1 DEF IsList
      <4>2. Len(p \o o) = Len(p) + Len(o) /\ \A i \in 1 .. Len(p) : (p \o o)[i] = p[i]
        BY <4>1, ListJoin
      <4>3. \A i \in 1 .. Len(o) : (p \o o)[Len(p) + i] = o[i]
        <5>1. Behind((p \o o), Len(p), o)
          BY <4>1, ListBehind
        <5> QED BY <5>1 DEF Behind
      <4>4. (p \o o)[3] = o[1]
        <5>1. PICK i \in 1 .. Len(o) : i = 1
          BY <3>3
        <5>2. (p \o o)[Len(p) + i] = o[i]
          BY <4>3
        <5>3. Len(p) + i = 3
          BY <3>3, <5>1
        <5> QED BY <5>1, <5>2, <5>3
      <4> QED BY <3>3, <3>4, <4>2, <4>4
    <3>6. WideLast(cs)
      <4>1. ASSUME NEW i \in 1 .. Len(cs) PROVE cs[i].op # "query" /\ (cs[i].op \in Light /\ Len(cs[i].to) > 1 => i = Len(cs))
        <5>1. i = 1 \/ i = 2 \/ i = 3
          BY <3>5
        <5> QED BY <2>0, <3>3, <3>5, <5>1 DEF Light
      <4> QED BY <4>1 DEF WideLast
    <3> QED BY <2>5, <3>4, <3>6 DEF cs
  <2> QED BY <2>3, <2>4, <2>5
<1> QED BY <1>8, <1>9, <1>10

LEMMA LoadedJoin ==
  ASSUME NEW F \in Seq(Commands), NEW r, Loaded(F, r), NEW cs \in Tidied
  PROVE  Loaded(F \o cs, r)
<1> DEFINE G == F \o cs
           n == Len(F)
           m == Len(cs)
<1>0. cs \in Seq(Commands)
  BY DEF Tidied
<1>1. IsList(F) /\ IsList(cs)
  BY <1>0 DEF IsList
<1>2. n \in Nat /\ m \in Nat /\ Len(G) = n + m /\ \A i \in 1 .. n : G[i] = F[i]
  BY <1>1, ListJoin
<1>3. \A i \in 1 .. m : G[n + i] = cs[i]
  <2>1. Behind(G, n, cs)
    BY <1>1, ListBehind
  <2> QED BY <2>1 DEF Behind
<1>4. \A i \in 1 .. n : F[i].op = "fade" =>
        F[i].v \in Nat /\ IF i = 1 THEN r = F[i].v ELSE F[i - 1].op = "dtr0" /\ F[i - 1].v = F[i].v
  BY DEF Loaded
<1>5. \A i \in 1 .. m : cs[i].op = "fade" => i > 1 /\ cs[i].v \in Nat /\ cs[i - 1].op = "dtr0" /\ cs[i - 1].v = cs[i].v
  BY DEF Tidied
<1> HIDE DEF G, n, m
<1>6. ASSUME NEW i \in 1 .. n + m, G[i].op = "fade"
      PROVE  G[i].v \in Nat /\ IF i = 1 THEN r = G[i].v ELSE G[i - 1].op = "dtr0" /\ G[i - 1].v = G[i].v
  <2>1. CASE i <= n
    <3>1. i \in 1 .. n /\ G[i] = F[i]
      BY <1>2, <2>1
    <3>2. i # 1 => i - 1 \in 1 .. n /\ G[i - 1] = F[i - 1]
      BY <1>2, <3>1
    <3>3. F[i].op = "fade"
      BY <1>6, <3>1
    <3> QED BY <1>4, <3>1, <3>2, <3>3
  <2>2. CASE ~(i <= n)
    <3>1. PICK j \in 1 .. m : i = n + j
      <4>1. i - n \in 1 .. m /\ i = n + (i - n)
        BY <1>2, <2>2
      <4> QED BY <4>1
    <3>2. G[i] = cs[j]
      BY <1>3, <3>1
    <3>3. j > 1 /\ cs[j].v \in Nat /\ cs[j - 1].op = "dtr0" /\ cs[j - 1].v = cs[j].v
      BY <1>5, <1>6, <3>2
    <3>4. j - 1 \in 1 .. m /\ n + (j - 1) = i - 1 /\ i # 1
      BY <1>2, <3>1, <3>3
    <3>5. G[i - 1] = cs[j - 1]
      BY <1>3, <3>4
    <3> QED BY <3>2, <3>3, <3>4, <3>5
  <2> QED BY <2>1, <2>2
<1> QED BY <1>2, <1>6 DEF Loaded, G

LEMMA WideJoin ==
  ASSUME NEW F \in Seq(Commands), WideLast(F), \A i \in 1 .. Len(F) : Len(F[i].to) < 2,
         NEW cs \in Seq(Commands), WideLast(cs)
  PROVE  WideLast(F \o cs)
<1> DEFINE G == F \o cs
           n == Len(F)
           m == Len(cs)
<1>1. IsList(F) /\ IsList(cs)
  BY DEF IsList
<1>2. n \in Nat /\ m \in Nat /\ Len(G) = n + m /\ \A i \in 1 .. n : G[i] = F[i]
  BY <1>1, ListJoin
<1>3. \A i \in 1 .. m : G[n + i] = cs[i]
  <2>1. Behind(G, n, cs)
    BY <1>1, ListBehind
  <2> QED BY <2>1 DEF Behind
<1>4. \A i \in 1 .. n : F[i].op # "query" /\ Len(F[i].to) < 2 /\ Len(F[i].to) \in Nat
  <2> TAKE i \in 1 .. n
  <2>1. F[i].to = <<>> \/ F[i].to \in Targets
    <3>1. F[i] \in Commands
      OBVIOUS
    <3> QED BY <3>1 DEF Commands
  <2>2. Len(F[i].to) \in Nat
    BY <2>1 DEF Targets
  <2> QED BY <2>2 DEF WideLast
<1>5. \A i \in 1 .. m : cs[i].op # "query" /\ (cs[i].op \in Light /\ Len(cs[i].to) > 1 => i = m)
  BY DEF WideLast
<1> HIDE DEF G, n, m
<1>6. ASSUME NEW i \in 1 .. n + m
      PROVE  G[i].op # "query" /\ (G[i].op \in Light /\ Len(G[i].to) > 1 => i = n + m)
  <2>1. CASE i <= n
    <3>1. i \in 1 .. n /\ G[i] = F[i]
      BY <1>2, <2>1
    <3>2. G[i].op # "query" /\ Len(G[i].to) < 2 /\ Len(G[i].to) \in Nat
      BY <1>4, <3>1
    <3> QED BY <3>2
  <2>2. CASE ~(i <= n)
    <3>1. PICK j \in 1 .. m : i = n + j
      <4>1. i - n \in 1 .. m /\ i = n + (i - n)
        BY <1>2, <2>2
      <4> QED BY <4>1
    <3>2. G[i] = cs[j]
      BY <1>3, <3>1
    <3> QED BY <1>5, <3>1, <3>2
  <2> QED BY <2>1, <2>2
<1> QED BY <1>2, <1>6 DEF WideLast, G

(* Sending a batch, as far as the light of d is concerned.                      *)
LEMMA SendIs ==
  ASSUME Calm, frames \in Seq(Commands), GearInv, OrderInv, NEW cs \in Tidied, WideLast(cs), Send(cs)
  PROVE  /\ frames' = frames \o cs /\ tasks = <<>> /\ Loaded(frames', dtr) /\ WideLast(frames')
         /\ \A d \in D : /\ Sound(gear'[d]) /\ FadeAt(frames', d, fade[d], Len(frames') + 1, gear'[d].fade)
                         /\ \/ Settles(frames', d, fade[d], gear'[d].ramp)
                            \/ /\ ~Settles(frames, d, fade[d], gear[d].ramp)
                               /\ \A j \in 1 .. Len(cs) : ~Moves(cs[j], d)
                               /\ Unmoved(frames, d) => Unmoved(frames', d)
                               /\ gear'[d].level = gear[d].level /\ gear'[d].ramp = gear[d].ramp
<1>0. cs \in Seq(Commands) /\ DOMAIN cs = 1 .. Len(cs)
      /\ \A i \in 1 .. Len(cs) : cs[i].op # "query" /\ (cs[i].op = "fade" => cs[i].v \in Nat)
  BY DEF Tidied
<1>1. Synced(cs) = cs
  BY <1>0 DEF Synced
<1>2. gear' = ObeysAll(cs) /\ frames' = frames \o cs /\ Spread
  BY <1>1 DEF Send
<1>3. Loaded(frames', dtr) /\ WideLast(frames')
  <2>1. \A i \in 1 .. Len(frames) : Len(frames[i].to) < 2
    BY <1>2 DEF Spread
  <2> QED BY <1>0, <1>2, <2>1, LoadedJoin, WideJoin DEF OrderInv
<1>4. ASSUME NEW d \in D PROVE Reached(cs, Len(cs), d, gear'[d])
  BY <1>0, <1>2, BatchIs DEF GearInv, OrderInv
<1>5. frames \o SubSeq(cs, 1, Len(cs)) = frames'
  BY <1>0, <1>2, PrefixEnds
<1>6. ASSUME NEW d \in D
      PROVE  /\ Sound(gear'[d]) /\ FadeAt(frames', d, fade[d], Len(frames') + 1, gear'[d].fade)
             /\ \/ Settles(frames', d, fade[d], gear'[d].ramp)
                \/ /\ ~Settles(frames, d, fade[d], gear[d].ramp)
                   /\ \A j \in 1 .. Len(cs) : ~Moves(cs[j], d)
                   /\ Unmoved(frames, d) => Unmoved(frames', d)
                   /\ gear'[d].level = gear[d].level /\ gear'[d].ramp = gear[d].ramp
  BY <1>4, <1>5, Zenon DEF Reached
<1> QED BY <1>2, <1>3, <1>6 DEF Spread

(* A question on the bus changes nothing here.                                  *)
LEMMA AskIs ==
  ASSUME NEW to \in Targets, Send(<<[op |-> "query", to |-> to]>>), frames \in Seq(Commands)
  PROVE  frames' = frames /\ \A d \in D : gear'[d] = gear[d]
<1> DEFINE c == [op |-> "query", to |-> to]
           cs == <<c>>
<1>1. DOMAIN cs = {1} /\ Len(cs) = 1 /\ cs[1] = c
  OBVIOUS
<1>2. c.op = "query" /\ \A g : Obeys(g, c) = g
  BY DEF Obeys
<1>3. gear' = ObeysAll(cs) /\ frames' = frames \o Synced(cs)
  BY DEF Send
<1> HIDE DEF c, cs
<1>4. Synced(cs) = <<>>
  BY <1>1, <1>2 DEF Synced
<1>5. frames' = frames
  BY <1>3, <1>4
<1>12. Len(cs) \in Nat
  BY <1>1
<1>13. \E a : ObeyedUpTo(cs, Len(cs), a) /\ ObeysAll(cs) = a[Len(cs)]
  BY <1>12, ObeysAllIs
<1>6. PICK a : ObeyedUpTo(cs, 1, a) /\ ObeysAll(cs) = a[1]
  BY <1>1, <1>13
<1>7. a[0] = gear
  BY <1>6, ObeyedFirst
<1>8. PICK o \in 0 .. 1 : o = 1
  OBVIOUS
<1>9. a[o] = [d \in D |-> IF d \in Range(cs[o].to) THEN Obeys(a[o - 1][d], cs[o]) ELSE a[o - 1][d]]
  BY <1>6, <1>8, ObeyedAt
<1>10. o - 1 = 0 /\ cs[o] = c
  BY <1>1, <1>8
<1>11. \A d \in D : gear'[d] = gear[d]
  BY <1>2, <1>3, <1>6, <1>7, <1>8, <1>9, <1>10
<1> QED BY <1>5, <1>11

---------------------------------------------------------------------------
(* What an event does to its device, and to what is published of it.            *)

LEMMA NotifyRest ==
  ASSUME NEW c, DOMAIN c = ControlFields, NEW e
  PROVE  LET n == Notify(c, e)
             t == Takes(e, c.onerr)
         IN /\ ~t => n.on = c.on /\ n.onerr = c.onerr
            /\ t /\ e.failed => n.onerr = TRUE
            /\ t /\ ~e.failed => n.on = (e.raw # 0) /\ n.onerr = FALSE
            /\ n.due = IF e.settle = NoTime \/ c.due = First THEN c.due ELSE e.settle
<1> DEFINE s == IF e.settle = NoTime THEN c ELSE PollAt(c, e.settle)
           l == NotifyLevel(c, e)
           o == NotifyOnOff(l, e)
           n == NotifyWanted(o, e)
           t == Takes(e, c.onerr)
<1>1. /\ DOMAIN s = ControlFields /\ s.on = c.on /\ s.onerr = c.onerr
      /\ s.due = IF e.settle = NoTime \/ c.due = First THEN c.due ELSE e.settle
  BY DEF PollAt, ControlFields
<1>2. DOMAIN l = ControlFields /\ l.on = s.on /\ l.onerr = s.onerr /\ l.due = s.due
  <2>1. l = IF ~Takes(e, s.lerr) THEN s ELSE IF e.failed THEN [s EXCEPT !.lerr = TRUE]
            ELSE [s EXCEPT !.level = e.raw, !.last = e.raw, !.lerr = FALSE]
    BY DEF NotifyLevel
  <2> HIDE DEF s, l
  <2> QED BY <1>1, <2>1 DEF ControlFields
<1> HIDE DEF s, l
<1>3. /\ DOMAIN o = ControlFields /\ o.due = l.due
      /\ ~t => o.on = l.on /\ o.onerr = l.onerr
      /\ t /\ e.failed => o.onerr = TRUE
      /\ t /\ ~e.failed => o.on = (e.raw # 0) /\ o.onerr = FALSE
  <2>1. o = IF ~t THEN l ELSE IF e.failed THEN [l EXCEPT !.onerr = TRUE] ELSE [l EXCEPT !.on = e.raw # 0, !.onerr = FALSE]
    BY <1>1, <1>2 DEF NotifyOnOff
  <2> HIDE DEF o, t
  <2> QED BY <1>2, <2>1 DEF ControlFields
<1> HIDE DEF o
<1>4. n.on = o.on /\ n.onerr = o.onerr /\ n.due = o.due
  BY <1>3 DEF NotifyWanted, ControlFields
<1>5. n = Notify(c, e)
  BY DEF Notify, o, l
<1> HIDE DEF n, t
<1>6. /\ ~t => n.on = c.on /\ n.onerr = c.onerr
      /\ t /\ e.failed => n.onerr = TRUE
      /\ t /\ ~e.failed => n.on = (e.raw # 0) /\ n.onerr = FALSE
      /\ n.due = IF e.settle = NoTime \/ c.due = First THEN c.due ELSE e.settle
  BY <1>1, <1>2, <1>3, <1>4
<1> QED BY <1>5, <1>6 DEF t

(* Messages that do not touch d leave what will be shown of it.                 *)
Silent(d) == \A w, f, v : Ends(w, outbox, d, f, v) => Ends(w, outbox', d, f, v)

(* EventSyncCoordinator._dispatch                                               *)
Dispatched(all, d, e) ==
  /\ DOMAIN ctl' = D /\ ctl'[d] = Notify(all[d], e) /\ \A x \in D \ {d} : ctl'[x] = all[x] /\ Silent(x)
  /\ Messages(outbox')
  /\ \A f \in Changed(all[d], e) : \A w : Ends(w, outbox', d, f, ctl'[d][f])
  /\ \A f \in ShownFields \ Changed(all[d], e) : \A w, v : Ends(w, outbox, d, f, v) => Ends(w, outbox', d, f, v)

LEMMA DispatchIs ==
  ASSUME Messages(outbox), NEW all, DOMAIN all = D, \A x \in D : DOMAIN all[x] = ControlFields,
         NEW d \in D, NEW e, e.failed \in BOOLEAN, NEW by, Dispatch(all, d, e, by)
  PROVE  Dispatched(all, d, e)
<1> DEFINE f == Changed(all[d], e)
           c == Notify(all[d], e)
           r == GroupNotify(grp, d, c, e, f)
           o == [by |-> by, device |-> d, puts |-> [k \in f |-> c[k]], group |-> [k \in r.changed |-> r.g[k]]]
<1>1. f # {} /\ f \subseteq ShownFields
  BY DEF Changed, LevelF, OnF, Takes, ShownFields
<1>2. ctl' = [all EXCEPT ![d] = c]
  BY DEF Dispatch
<1>3. outbox' = Append(outbox, o)
  BY <1>1, Zenon DEF Dispatch
<1>4. o.device = d /\ DOMAIN o.puts = f /\ \A k \in f : o.puts[k] = c[k]
  OBVIOUS
<1>5. DOMAIN ctl' = D /\ ctl'[d] = c /\ \A x \in D \ {d} : ctl'[x] = all[x]
  BY <1>2
<1> HIDE DEF f, c, r, o
<1>6. IsList(outbox)
  BY DEF Messages
<1>7. ASSUME NEW x \in D \ {d} PROVE Silent(x)
  <2>1. ASSUME NEW w, NEW k, NEW v, Ends(w, outbox, x, k, v) PROVE Ends(w, outbox', x, k, v)
    <3>1. ~Puts(o, x, k)
      BY <1>4 DEF Puts
    <3>2. Ends(w, Append(outbox, o), x, k, v)
      BY <1>6, <2>1, <3>1, EndsAppend
    <3> QED BY <1>3, <3>2
  <2> QED BY <2>1 DEF Silent
<1>8. Messages(outbox')
  <2>1. /\ IsList(Append(outbox, o)) /\ Len(outbox) \in Nat /\ DOMAIN outbox = 1 .. Len(outbox)
        /\ DOMAIN Append(outbox, o) = 1 .. Len(outbox) + 1
        /\ Append(outbox, o)[Len(outbox) + 1] = o /\ \A i \in 1 .. Len(outbox) : Append(outbox, o)[i] = outbox[i]
    BY <1>6, ListAppend
  <2> DEFINE q == Append(outbox, o)
  <2>2. q = outbox'
    BY <1>3
  <2> HIDE DEF q
  <2>3. o.device \in Shown /\ DOMAIN o.puts \subseteq ShownFields
    BY <1>1, <1>4 DEF Shown
  <2>4. ASSUME NEW j \in DOMAIN q PROVE q[j].device \in Shown /\ DOMAIN q[j].puts \subseteq ShownFields
    <3>1. CASE j = Len(outbox) + 1
      BY <2>1, <2>3, <3>1 DEF q
    <3>2. CASE j # Len(outbox) + 1
      <4>1. j \in DOMAIN outbox /\ q[j] = outbox[j]
        BY <2>1, <3>2 DEF q
      <4> QED BY <4>1 DEF Messages
    <3> QED BY <3>1, <3>2
  <2>5. Messages(q)
    BY <2>1, <2>4 DEF Messages, q
  <2> QED BY <2>2, <2>5
<1>9. ASSUME NEW k \in f, NEW w PROVE Ends(w, outbox', d, k, ctl'[d][k])
  <2>1. Puts(o, d, k) /\ o.puts[k] = ctl'[d][k]
    BY <1>4, <1>5 DEF Puts
  <2>2. Ends(w, Append(outbox, o), d, k, o.puts[k])
    BY <1>6, <2>1, EndsNew
  <2> QED BY <1>3, <2>1, <2>2
<1>10. ASSUME NEW k \in ShownFields \ f, NEW w, NEW v, Ends(w, outbox, d, k, v) PROVE Ends(w, outbox', d, k, v)
  <2>1. ~Puts(o, d, k)
    BY <1>4 DEF Puts
  <2>2. Ends(w, Append(outbox, o), d, k, v)
    BY <1>6, <1>10, <2>1, EndsAppend
  <2> QED BY <1>3, <2>2
<1> QED BY <1>5, <1>7, <1>8, <1>9, <1>10 DEF Dispatched, f, c

(* What will be shown of the level and the setpoint follows the controls.       *)
LEMMA DispatchMirrors ==
  ASSUME WireInv, Messages(outbox), NEW all, SameShown(ctl, all), NEW d \in D, NEW e, e.failed \in BOOLEAN, NEW by,
         Dispatch(all, d, e, by)
  PROVE  \A x \in D : \A f \in Mirrored : Ends(wire[x][f], outbox', x, f, ctl'[x][f])
<1> DEFINE g == Changed(all[d], e)
<1>1. DOMAIN all = D /\ \A x \in D : DOMAIN all[x] = ControlFields /\ all[x].level = ctl[x].level
                                      /\ all[x].lerr = ctl[x].lerr /\ all[x].wanted = ctl[x].wanted
  BY DEF SameShown
<1>2. /\ ctl'[d] = Notify(all[d], e) /\ \A x \in D \ {d} : ctl'[x] = all[x] /\ Silent(x)
      /\ \A f \in g : \A w : Ends(w, outbox', d, f, ctl'[d][f])
      /\ \A f \in ShownFields \ g : \A w, v : Ends(w, outbox, d, f, v) => Ends(w, outbox', d, f, v)
  <2>1. Dispatched(all, d, e)
    BY <1>1, DispatchIs
  <2> QED BY <2>1 DEF Dispatched
<1>3. /\ ~Takes(e, all[d].lerr) => ctl'[d].level = all[d].level /\ ctl'[d].lerr = all[d].lerr
      /\ ctl'[d].wanted = IF e.failed THEN all[d].wanted ELSE e.raw
  <2> DEFINE c == all[d]
             n == Notify(c, e)
  <2>0. DOMAIN c = ControlFields
    BY <1>1
  <2> HIDE DEF c
  <2>1. /\ ~Takes(e, c.lerr) => n.level = c.level /\ n.lerr = c.lerr
        /\ n.wanted = IF e.failed THEN c.wanted ELSE e.raw
    BY <2>0, NotifyIs
  <2> HIDE DEF n
  <2> QED BY <1>2, <2>1 DEF n, c
<1>4. /\ "level" \in g <=> Takes(e, all[d].lerr)
      /\ "lerr" \in g <=> Takes(e, all[d].lerr)
      /\ "wanted" \in g <=> ~e.failed
  BY DEF Changed, LevelF, OnF
<1> HIDE DEF g
<1>5. ASSUME NEW f \in Mirrored PROVE Ends(wire[d][f], outbox', d, f, ctl'[d][f])
  <2>1. CASE f \in g
    BY <1>2, <2>1
  <2>2. CASE f \notin g
    <3>1. ctl'[d][f] = ctl[d][f]
      <4>1. f = "level" \/ f = "lerr" \/ f = "wanted"
        BY DEF Mirrored
      <4> QED BY <1>1, <1>3, <1>4, <2>2, <4>1
    <3>2. f \in ShownFields
      BY DEF Mirrored, ShownFields, LevelF
    <3>3. Ends(wire[d][f], outbox, d, f, ctl[d][f])
      BY DEF WireInv
    <3> QED BY <1>2, <2>2, <3>1, <3>2, <3>3
  <2> QED BY <2>1, <2>2
<1>6. ASSUME NEW x \in D \ {d}, NEW f \in Mirrored PROVE Ends(wire[x][f], outbox', x, f, ctl'[x][f])
  <2>1. ctl'[x][f] = ctl[x][f]
    <3>1. f = "level" \/ f = "lerr" \/ f = "wanted"
      BY DEF Mirrored
    <3>2. ctl'[x] = all[x]
      BY <1>2
    <3> QED BY <1>1, <3>1, <3>2
  <2>2. Ends(wire[x][f], outbox, x, f, ctl[x][f])
    BY DEF WireInv
  <2> QED BY <1>2, <2>1, <2>2 DEF Silent
<1> QED BY <1>5, <1>6

---------------------------------------------------------------------------
(* A command reaches the devices it is about.                                   *)

LEMMA SettleNat ==
  ASSUME NEW b, NEW f \in Nat
  PROVE  SettleFor(b, f) \in Nat /\ SettleFor(b, f) \notin {NoTime, First, Resync}
<1>1. CASE b = "immediate"
  BY <1>1 DEF SettleFor, Margin, NoTime, First, Resync
<1>2. CASE b = "step"
  BY <1>2 DEF SettleFor, Margin, StepTicks, NoTime, First, Resync
<1>3. CASE b \notin {"immediate", "step"}
  <2>1. SettleFor(b, f) = 2 * f + 1
    BY <1>3 DEF SettleFor, Margin, FadeTicks
  <2> QED BY <2>1 DEF NoTime, First, Resync
<1> QED BY <1>1, <1>2, <1>3

LEMMA UptoFirst ==
  ASSUME NEW x, NEW to \in Targets, NEW i \in 1 .. Upto(x, to) - 1
  PROVE  ~Told(x, to[i])
<1> DEFINE I == {j \in 1 .. Len(to) : Told(x, to[j])}
<1>1. to \in Seq(D) /\ Len(to) \in Nat /\ DOMAIN to = 1 .. Len(to) /\ I \in SUBSET Nat /\ Upto(x, to) \in 1 .. Len(to)
  BY UptoIs DEF Targets
<1>2. CASE I # {}
  <2> HIDE DEF I
  <2>1. Min(I) \in I /\ \A j \in I : Min(I) <= j
    BY <1>1, <1>2, FirstPosition DEF Min
  <2>2. Upto(x, to) = Min(I)
    BY <1>1, <1>2 DEF Upto, SelectInSeq, I
  <2>3. i \notin I /\ i \in 1 .. Len(to)
    BY <1>1, <2>1, <2>2
  <2> QED BY <2>3 DEF I
<1>3. CASE I = {}
  BY <1>1, <1>3
<1> QED BY <1>2, <1>3

LEMMA RangeCut ==
  ASSUME NEW to \in Seq(D), NEW n \in 1 .. Len(to)
  PROVE  LET p == SubSeq(to, 1, n)
             q == SubSeq(to, n + 1, Len(to))
         IN /\ Range(p) \subseteq Range(to) /\ Range(q) \subseteq Range(to)
            /\ \A e \in Range(p) : \E i \in 1 .. n : e = to[i]
            /\ \A e \in Range(to) : e \in Range(q) \/ (e \in Range(p) /\ \E i \in 1 .. n : e = to[i])
<1> DEFINE p == SubSeq(to, 1, n)
           q == SubSeq(to, n + 1, Len(to))
           m == Len(to)
<1>1. m \in Nat /\ DOMAIN to = 1 .. m /\ n \in 1 .. m
  OBVIOUS
<1>2. DOMAIN p = 1 .. n /\ \A i \in 1 .. n : p[i] = to[i]
  OBVIOUS
<1>3. DOMAIN q = 1 .. m - n /\ \A i \in 1 .. m - n : q[i] = to[n + i]
  OBVIOUS
<1> HIDE DEF p, q, m
<1>4. ASSUME NEW e \in Range(p) PROVE \E i \in 1 .. n : e = to[i]
  BY <1>2, <1>4 DEF Range
<1>5. ASSUME NEW e \in Range(p) PROVE e \in Range(to)
  <2>1. PICK i \in 1 .. n : e = to[i]
    BY <1>4, <1>5
  <2>2. i \in 1 .. m
    BY <1>1
  <2> QED BY <1>1, <2>1, <2>2 DEF Range
<1>6. ASSUME NEW e \in Range(q) PROVE e \in Range(to)
  <2>1. PICK i \in 1 .. m - n : e = to[n + i]
    BY <1>3, <1>6 DEF Range
  <2>2. n + i \in 1 .. m
    BY <1>1
  <2> QED BY <1>1, <2>1, <2>2 DEF Range
<1>7. ASSUME NEW e \in Range(to) PROVE e \in Range(q) \/ (e \in Range(p) /\ \E i \in 1 .. n : e = to[i])
  <2>1. PICK i \in 1 .. m : e = to[i]
    BY <1>1, <1>7 DEF Range
  <2>2. CASE i <= n
    <3>1. i \in 1 .. n /\ e = p[i]
      BY <1>1, <1>2, <2>1, <2>2
    <3> QED BY <1>2, <2>1, <3>1 DEF Range
  <2>3. CASE ~(i <= n)
    <3>1. i - n \in 1 .. m - n /\ n + (i - n) = i
      BY <1>1, <2>1, <2>3
    <3>2. e = q[i - n]
      BY <1>3, <2>1, <3>1
    <3> QED BY <1>3, <3>1, <3>2 DEF Range
  <2> QED BY <2>2, <2>3
<1> QED BY <1>4, <1>5, <1>6, <1>7 DEF p, q, m

(* _apply_level: a device is scheduled for a poll after its light has settled,  *)
(* or it is still in the list; one that is not concerned stays as it is.        *)
Applied(x, to) ==
  /\ Messages(outbox') /\ \A d \in D : \A f \in Mirrored : Ends(wire[d][f], outbox', d, f, ctl'[d][f])
  /\ \A d \in D \ Range(to) : ctl'[d] = ctl[d] /\ Silent(d)
  /\ \A d \in Range(to) : ctl'[d].due = SettleFor(Basis(x.op), fade[d])
                          \/ (d \in Range(Rest(x, to)) /\ ctl'[d].due = ctl[d].due)

LEMMA ApplyIs ==
  ASSUME GroupInv, WireInv, Messages(outbox), fade \in [D -> Nat], ~Fresh,
         NEW x, NEW to \in Targets, NEW by, ApplyLevel(x, to, by)
  PROVE  Applied(x, to)
<1> DEFINE n     == Upto(x, to)
           d     == to[n]
           p     == SubSeq(to, 1, n)
           r     == Rest(x, to)
           at(e) == SettleFor(Basis(x.op), fade[e])
           past  == [e \in D |-> IF e \in Range(p) /\ ~Told(x, e) THEN PollAt(ctl[e], at(e)) ELSE ctl[e]]
<1>1. n \in 1 .. Len(to) /\ to \in Seq(D) /\ d \in D
  BY UptoIs DEF Targets
<1>2. /\ Range(p) \subseteq Range(to) /\ Range(r) \subseteq Range(to)
      /\ \A e \in Range(p) : \E i \in 1 .. n : e = to[i]
      /\ \A e \in Range(to) : e \in Range(r) \/ (e \in Range(p) /\ \E i \in 1 .. n : e = to[i])
  <2> DEFINE q == SubSeq(to, n + 1, Len(to))
  <2>1. /\ Range(p) \subseteq Range(to) /\ Range(q) \subseteq Range(to)
        /\ \A e \in Range(p) : \E i \in 1 .. n : e = to[i]
        /\ \A e \in Range(to) : e \in Range(q) \/ (e \in Range(p) /\ \E i \in 1 .. n : e = to[i])
    <3> HIDE DEF n
    <3> QED BY <1>1, RangeCut
  <2>2. r = q
    BY DEF Rest
  <2> QED BY <2>1, <2>2
<1>3. Range(to) \subseteq D
  BY <1>1 DEF Range
<1>4. ASSUME NEW e \in D PROVE DOMAIN ctl[e] = ControlFields /\ ctl[e].due # First /\ at(e) \in Nat /\ at(e) # NoTime
  <2>1. fade[e] \in Nat
    OBVIOUS
  <2> QED BY <2>1, SettleNat DEF GroupInv, ControlShape, Fresh
<1>5. SameShown(ctl, past)
  BY <1>4, PolledAt DEF SameShown
<1>6. ASSUME NEW i \in 1 .. n - 1 PROVE ~Told(x, to[i])
  BY UptoFirst
<1>7. DOMAIN past = D /\ \A e \in D : past[e] = IF e \in Range(p) /\ ~Told(x, e) THEN [ctl[e] EXCEPT !.due = at(e)] ELSE ctl[e]
  BY <1>4 DEF PollAt
<1>8. ASSUME NEW e \in D
      PROVE  /\ past[e].due = IF e \in Range(p) /\ ~Told(x, e) THEN at(e) ELSE ctl[e].due
             /\ e \notin Range(to) => past[e] = ctl[e]
  BY <1>2, <1>4, <1>7 DEF ControlFields
<1>9. CASE Told(x, d)
  <2> DEFINE e == ObservedEvent(Predict(ctl[d], d, x), at(d))
  <2>1. Dispatch(past, d, e, by) /\ e.failed \in BOOLEAN /\ e.settle = at(d)
    BY <1>9 DEF ApplyLevel, ObservedEvent
  <2> HIDE DEF n, p, r, at, past, e, d
  <2>2. DOMAIN past = D /\ \A y \in D : DOMAIN past[y] = ControlFields
    BY <1>5 DEF SameShown
  <2>3. Dispatched(past, d, e)
    BY <1>1, <2>1, <2>2, DispatchIs
  <2>4. \A y \in D : \A f \in Mirrored : Ends(wire[y][f], outbox', y, f, ctl'[y][f])
    BY <1>1, <1>5, <2>1, DispatchMirrors
  <2>5. ctl'[d].due = at(d)
    <3>1. past[d].due = ctl[d].due
      BY <1>1, <1>8, <1>9
    <3> DEFINE c == past[d]
               k == Notify(c, e)
    <3>2. DOMAIN c = ControlFields /\ c.due # First /\ e.settle # NoTime
      BY <1>1, <1>4, <2>1, <2>2, <3>1
    <3>3. ctl'[d] = k
      BY <2>3 DEF Dispatched
    <3> HIDE DEF c
    <3>4. k.due = e.settle
      BY <3>2, NotifyRest
    <3> HIDE DEF k
    <3> QED BY <2>1, <3>3, <3>4
  <2>6. ASSUME NEW y \in D \ Range(to) PROVE ctl'[y] = ctl[y] /\ Silent(y)
    <3>1. d \in Range(to)
      BY <1>1 DEF Range, d
    <3>2. ctl'[y] = past[y] /\ Silent(y)
      BY <2>3, <3>1 DEF Dispatched
    <3> QED BY <1>8, <3>2
  <2>7. ASSUME NEW y \in Range(to) PROVE ctl'[y].due = at(y) \/ (y \in Range(r) /\ ctl'[y].due = ctl[y].due)
    <3>0. y \in D
      BY <1>3
    <3>1. CASE y = d
      BY <2>5, <3>1
    <3>2. CASE y # d
      <4>1. ctl'[y] = past[y]
        BY <2>3, <3>0, <3>2 DEF Dispatched
      <4>2. CASE y \in Range(p)
        <5>1. PICK i \in 1 .. n : y = to[i]
          BY <1>2, <4>2
        <5>2. i # n
          BY <3>2, <5>1 DEF d
        <5>3. i \in 1 .. n - 1
          BY <1>1, <5>2
        <5>4. ~Told(x, y)
          BY <1>6, <5>1, <5>3
        <5> QED BY <1>8, <3>0, <4>1, <4>2, <5>4
      <4>3. CASE y \notin Range(p)
        <5>1. y \in Range(r)
          BY <1>2, <4>3
        <5> QED BY <1>8, <3>0, <4>1, <4>3, <5>1
      <4> QED BY <4>2, <4>3
    <3> QED BY <3>1, <3>2
  <2>8. Messages(outbox')
    BY <2>3 DEF Dispatched
  <2> QED BY <2>4, <2>6, <2>7, <2>8 DEF Applied, at, r
<1>10. CASE ~Told(x, d)
  <2>1. ctl' = past /\ outbox' = outbox
    BY <1>10 DEF ApplyLevel
  <2> HIDE DEF n, p, r, at, past, d
  <2>2. ASSUME NEW y \in Range(to) PROVE ctl'[y].due = at(y) \/ (y \in Range(r) /\ ctl'[y].due = ctl[y].due)
    <3>0. y \in D
      BY <1>3
    <3>1. CASE y \in Range(p)
      <4>1. PICK i \in 1 .. n : y = to[i]
        BY <1>2, <3>1
      <4>2. i = n \/ i \in 1 .. n - 1
        BY <1>1
      <4>3. ~Told(x, y)
        BY <1>6, <1>10, <4>1, <4>2 DEF d
      <4> QED BY <1>8, <2>1, <3>0, <3>1, <4>3
    <3>2. CASE y \notin Range(p)
      <4>1. y \in Range(r)
        BY <1>2, <3>2
      <4> QED BY <1>8, <2>1, <3>0, <3>2, <4>1
    <3> QED BY <3>1, <3>2
  <2>3. ASSUME NEW y \in D \ Range(to) PROVE ctl'[y] = ctl[y] /\ Silent(y)
    BY <1>8, <2>1 DEF Silent
  <2>4. ASSUME NEW y \in D, NEW f \in Mirrored PROVE Ends(wire[y][f], outbox', y, f, ctl'[y][f])
    <3>1. ctl'[y][f] = ctl[y][f]
      <4>1. f = "level" \/ f = "lerr" \/ f = "wanted"
        BY DEF Mirrored
      <4> QED BY <1>5, <2>1, <4>1 DEF SameShown
    <3>2. Ends(wire[y][f], outbox, y, f, ctl[y][f])
      BY DEF WireInv
    <3> QED BY <2>1, <3>1, <3>2
  <2>5. Messages(outbox')
    BY <2>1
  <2> QED BY <2>2, <2>3, <2>4, <2>5 DEF Applied, at, r
<1> QED BY <1>9, <1>10

---------------------------------------------------------------------------
(* What is sent.                                                                *)

LEMMA ForeignIs ==
  ASSUME Calm, frames \in Seq(Commands), Foreign
  PROVE  \/ frames' = frames /\ \A d \in D : gear'[d] = gear[d]
         \/ \E cs \in Tidied : WideLast(cs) /\ Send(cs) /\ (~Fresh \/ \A j \in 1 .. Len(cs) : cs[j].op \notin Light)
<1>1. PICK to \in {<<d>> : d \in D} \cup {Devices} :
        \/ ~Fresh /\ \E op \in {"off", "stepUp", "up", "scene", "query"} : Send(<<[op |-> op, to |-> to]>>)
        \/ ~Fresh /\ \E v \in 0 .. MaxLevel : Send(<<[op |-> "dapc", v |-> v, to |-> to]>>)
        \/ \E f \in {0, 1} : Send(Setting(f, to))
  BY DEF Foreign, Setting
<1>2. to \in Targets
  <2>1. CASE to = Devices
    BY <2>1, DevicesAssumption DEF Targets
  <2>2. CASE \E d \in D : to = <<d>>
    <3>1. PICK d \in D : to = <<d>>
      BY <2>2
    <3>2. <<d>> \in Seq(D) /\ <<d>> # <<>>
      OBVIOUS
    <3> QED BY <3>1, <3>2 DEF Targets
  <2> QED BY <1>1, <2>1, <2>2
<1>3. ASSUME NEW c \in Commands, c.op \in Light, ~Fresh, Send(<<c>>)
      PROVE  \E cs \in Tidied : WideLast(cs) /\ Send(cs) /\ (~Fresh \/ \A j \in 1 .. Len(cs) : cs[j].op \notin Light)
  <2> DEFINE cs == <<c>>
  <2>1. cs \in Tidied /\ WideLast(cs) /\ Send(cs)
    BY <1>3, SingleTidied
  <2> HIDE DEF cs
  <2> QED BY <1>3, <2>1
<1>4. CASE ~Fresh /\ \E op \in {"off", "stepUp", "up", "scene", "query"} : Send(<<[op |-> op, to |-> to]>>)
  <2>1. PICK op \in {"off", "stepUp", "up", "scene", "query"} : Send(<<[op |-> op, to |-> to]>>)
    BY <1>4
  <2>2. CASE op = "query"
    BY <1>2, <2>1, <2>2, AskIs
  <2>3. CASE op # "query"
    <3> DEFINE c == [op |-> op, to |-> to]
    <3>1. c \in Commands /\ c.op \in Light
      BY <1>2, <2>3 DEF Commands, Light
    <3>2. Send(<<c>>)
      BY <2>1
    <3> HIDE DEF c
    <3> QED BY <1>3, <1>4, <3>1, <3>2
  <2> QED BY <2>2, <2>3
<1>5. CASE ~Fresh /\ \E v \in 0 .. MaxLevel : Send(<<[op |-> "dapc", v |-> v, to |-> to]>>)
  <2>1. PICK v \in 0 .. MaxLevel : Send(<<[op |-> "dapc", v |-> v, to |-> to]>>)
    BY <1>5
  <2> DEFINE c == [op |-> "dapc", v |-> v, to |-> to]
  <2>2. c \in Commands /\ c.op \in Light
    BY <1>2, LevelAssumption DEF Commands, Light
  <2>3. Send(<<c>>)
    BY <2>1
  <2> HIDE DEF c
  <2> QED BY <1>3, <1>5, <2>2, <2>3
<1>6. CASE \E f \in {0, 1} : Send(Setting(f, to))
  <2>1. PICK f \in {0, 1} : Send(Setting(f, to))
    BY <1>6
  <2> DEFINE cs == Setting(f, to)
  <2>2. cs \in Tidied
    BY <1>2, SettingTidied
  <2>3. Len(cs) = 2 /\ cs[1].op = "dtr0" /\ cs[2].op = "fade"
    BY DEF Setting
  <2>4. Send(cs)
    BY <2>1
  <2> HIDE DEF cs
  <2>5. ASSUME NEW j \in 1 .. Len(cs) PROVE cs[j].op \notin Light /\ cs[j].op # "query"
    <3>1. j = 1 \/ j = 2
      BY <2>3
    <3> QED BY <2>3, <3>1 DEF Light
  <2>6. WideLast(cs)
    BY <2>5 DEF WideLast
  <2> QED BY <2>2, <2>4, <2>5, <2>6
<1> QED BY <1>1, <1>4, <1>5, <1>6

LEMMA FlattenOne ==
  ASSUME NEW s, NEW ss, ss = <<s>>
  PROVE  FlattenSeq(ss) = s
<1> DEFINE fl == CHOOSE f : JoinedUpTo(ss, Len(ss), f)
<1>1. Len(ss) = 1 /\ ss[1] = s
  OBVIOUS
<1>2. FlattenSeq(ss) = fl[Len(ss)]
  BY <1>1 DEF FlattenSeq, JoinedUpTo
<1>3. JoinedUpTo(ss, Len(ss), fl)
  BY <1>1, JoinedExists
<1> HIDE DEF fl
<1>4. PICK n : n = Len(ss)
  OBVIOUS
<1>5. PICK i \in 1 .. n : i = 1
  BY <1>1, <1>4
<1>6. fl[i] = IF i = 1 THEN ss[i] ELSE fl[i - 1] \o ss[i]
  BY <1>1, <1>3, <1>4, JoinedAt
<1> QED BY <1>1, <1>2, <1>4, <1>5, <1>6

(* The EXECUTE_CONTROL branch: what is written and not sent is what is there.   *)
LEMMA ExecuteIs ==
  ASSUME LevelInv, GearInv, FreshInv, Execute
  PROVE  \E cs \in Tidied, lost \in {0} \cup DOMAIN queue :
           /\ WideLast(cs) /\ Send(cs)
           /\ loop' = [at |-> "writing", asked |-> queue,
                       got |-> [i \in DOMAIN queue |-> IF i = lost THEN NoWrite ELSE want[queue[i]]]]
           /\ \A i \in DOMAIN queue : queue[i] \in D /\ i # lost =>
                (\E c \in Range(cs) : Moves(c, queue[i]))
                \/ (~ctl[queue[i]].onerr /\ ctl[queue[i]].on = (want[queue[i]] = "1"))
<1> DEFINE vs == [i \in DOMAIN queue |-> want[queue[i]]]
<1>1. PICK lost \in {0} \cup DOMAIN queue :
        /\ Send(FlattenSeq([i \in DOMAIN queue |-> IF i = lost THEN <<>> ELSE SetupCommands(queue[i], vs[i])]))
        /\ loop' = [at |-> "writing", asked |-> queue, got |-> [i \in DOMAIN queue |-> IF i = lost THEN NoWrite ELSE vs[i]]]
  BY DEF Execute
<1> DEFINE ss == [i \in DOMAIN queue |-> IF i = lost THEN <<>> ELSE SetupCommands(queue[i], vs[i])]
           cs == FlattenSeq(ss)
           Rests(i) == ~ctl[queue[i]].onerr /\ ctl[queue[i]].on = (vs[i] = "1")
<1>2. DOMAIN queue = 1 .. Len(queue) /\ Len(queue) \in Nat /\ \A i \in DOMAIN queue : queue[i] \in Shown
  BY DEF LevelInv, ListsInv
<1>3. loop' = [at |-> "writing", asked |-> queue,
               got |-> [i \in DOMAIN queue |-> IF i = lost THEN NoWrite ELSE want[queue[i]]]]
  BY <1>1
<1>4. \A i \in DOMAIN queue : vs[i] = want[queue[i]]
  OBVIOUS
<1> HIDE DEF vs
<1>5. ss = [i \in 1 .. Len(queue) |-> ss[i]] /\ Len(ss) = Len(queue)
  BY <1>2
<1>6. ASSUME NEW i \in 1 .. Len(queue)
      PROVE  /\ ss[i] \in Tidied /\ WideLast(ss[i])
             /\ queue[i] \in D => /\ ss[i] \in Narrow
                                  /\ i = lost \/ (\E c \in Range(ss[i]) : Moves(c, queue[i])) \/ Rests(i)
  <2>1. CASE i = lost
    <3>1. ss[i] = <<>>
      BY <1>2, <2>1
    <3>2. <<>> \in Tidied /\ WideLast(<<>>)
      BY NothingNarrow DEF Narrow, WideLast
    <3> QED BY <2>1, <3>1, <3>2, NothingNarrow
  <2>2. CASE i # lost
    <3> DEFINE x == queue[i]
               v == vs[i]
               s == SetupCommands(x, v)
    <3>1. ss[i] = s /\ x \in Shown
      BY <1>2, <2>2
    <3> HIDE DEF x, v, ss
    <3>2. /\ s \in Tidied /\ WideLast(s)
          /\ x \in D => s \in Narrow /\ (\/ \E c \in Range(s) : Moves(c, x)
                                         \/ ~ctl[x].onerr /\ ctl[x].on = (v = "1"))
      BY <3>1, SetupIs
    <3> HIDE DEF s
    <3> QED BY <3>1, <3>2 DEF x, v
  <2> QED BY <2>1, <2>2
<1>7. Send(cs)
  BY <1>1
<1> HIDE DEF ss, cs
<1>8. CASE Group \in Range(queue)
  <2>1. Len(queue) = 1 /\ queue[1] = Group
    <3>1. Len(queue) = 1
      BY <1>8 DEF FreshInv
    <3>2. PICK i \in 1 .. Len(queue) : queue[i] = Group
      BY <1>2, <1>8 DEF Range
    <3> QED BY <3>1, <3>2
  <2>2. ss = <<ss[1]>>
    <3>1. ss = [i \in 1 .. 1 |-> ss[i]]
      BY <1>5, <2>1
    <3> QED BY <3>1
  <2>3. cs = ss[1]
    BY <2>2, FlattenOne DEF cs
  <2>4. cs \in Tidied /\ WideLast(cs)
    BY <1>6, <2>1, <2>3
  <2>5. \A i \in DOMAIN queue : queue[i] \notin D
    BY <1>2, <2>1, DevicesAssumption
  <2> QED BY <1>3, <1>7, <2>4, <2>5
<1>9. CASE Group \notin Range(queue)
  <2>1. ASSUME NEW i \in 1 .. Len(queue) PROVE queue[i] \in D
    <3>1. queue[i] \in Range(queue)
      BY <1>2 DEF Range
    <3> QED BY <1>2, <1>9, <3>1 DEF Shown
  <2>2. ss \in Seq(Narrow)
    <3>1. \A i \in 1 .. Len(queue) : ss[i] \in Narrow
      BY <1>6, <2>1
    <3> HIDE DEF Narrow
    <3> QED BY <1>2, <1>5, <3>1
  <2>3. cs \in Narrow
    BY <2>2, NothingNarrow, NarrowJoin, FlattenIsIn DEF cs
  <2>4. cs \in Tidied /\ WideLast(cs)
    BY <2>3, NarrowWide DEF Narrow
  <2>5. ASSUME NEW i \in 1 .. Len(queue) PROVE Range(ss[i]) \subseteq Range(cs)
    <3>1. ss \in Seq(Seq(Commands))
      <4>1. \A j \in 1 .. Len(queue) : ss[j] \in Seq(Commands)
        BY <1>6 DEF Tidied
      <4> DEFINE Q == Seq(Commands)
      <4> HIDE DEF Q
      <4>2. ss \in Seq(Q)
        BY <1>2, <1>5, <4>1 DEF Q
      <4> QED BY <4>2 DEF Q
    <3> QED BY <1>5, <3>1, FlattenHolds DEF cs
  <2>6. ASSUME NEW i \in DOMAIN queue, i # lost
        PROVE  (\E c \in Range(cs) : Moves(c, queue[i])) \/ Rests(i)
    BY <1>2, <1>6, <2>1, <2>5, <2>6
  <2> QED BY <1>3, <1>4, <1>7, <2>4, <2>6
<1> QED BY <1>8, <1>9

---------------------------------------------------------------------------
(* The steps that handle a command.                                             *)

(* A task has handled x for the first of the devices to, or has handled them all. *)
Handled(x, to) ==
  /\ x.op \in Light /\ to \in Targets /\ ~Fresh /\ Applied(x, to)
  /\ UNCHANGED <<gear, fade, dtr, wire, loop, queue>>
  /\ \/ Rest(x, to) = <<>> /\ tasks' = <<>>
     \/ frames' = <<>> /\ DOMAIN tasks' = {1} /\ Len(tasks') = 1 /\ tasks'[1].cmd = x /\ tasks'[1].todo = Rest(x, to)

(* A command about one device is handled in one go.                             *)
LEMMA OneIsAll ==
  ASSUME NEW x, NEW to \in Targets, Rest(x, to) # <<>>
  PROVE  Len(to) > 1
<1>1. to \in Seq(D) /\ Len(to) \in Nat /\ Upto(x, to) \in 1 .. Len(to)
  BY UptoIs DEF Targets
<1>2. ASSUME ~(Len(to) > 1) PROVE FALSE
  <2>1. Upto(x, to) = 1 /\ Len(to) = 1
    <3>1. PICK n, m : n = Upto(x, to) /\ m = Len(to)
      OBVIOUS
    <3>2. m \in Nat /\ n \in 1 .. m /\ ~(m > 1)
      BY <1>1, <1>2, <3>1
    <3>3. n = 1 /\ m = 1
      BY <3>2
    <3> QED BY <3>1, <3>3
  <2>2. Rest(x, to) = SubSeq(to, 2, 1)
    BY <2>1 DEF Rest
  <2>3. SubSeq(to, 2, 1) = <<>>
    BY <1>1
  <2> QED BY <2>2, <2>3
<1> QED BY <1>2

LEMMA StartIs ==
  ASSUME LevelInv, GearInv, OrderInv, FreshInv, WireInv, StartTask
  PROVE  LET x == frames[1]
         IN /\ frames # <<>> /\ frames' = Tail(frames) /\ tasks = <<>> /\ x \in Commands
            /\ \/ x.op = "dtr0" /\ dtr' = x.v /\ UNCHANGED <<gear, fade, ctl, tasks, outbox, wire, loop, queue>>
               \/ /\ x.op = "fade" /\ fade' = [d \in D |-> IF d \in Range(x.to) THEN x.v ELSE fade[d]] /\ x.v \in Nat
                  /\ UNCHANGED <<gear, dtr, ctl, tasks, outbox, wire, loop, queue>>
               \/ Handled(x, x.to)
<1> DEFINE x == frames[1]
           id == Min((1 .. MaxEvents + 1) \ {tasks[i].id : i \in DOMAIN tasks})
<1>1. frames \in Seq(Commands) /\ frames # <<>> /\ Head(frames) = x /\ x \in Commands /\ frames' = Tail(frames) /\ 1 \in 1 .. Len(frames)
  BY TailIs DEF StartTask, LevelInv, ListsInv
<1>2. tasks = <<>>
  BY <1>1 DEF OrderInv
<1>3. x.op # "query" /\ (x.op \in Light /\ Len(x.to) > 1 => Len(frames) = 1)
  BY <1>1 DEF OrderInv, WideLast
<1>4. x.op = "fade" => x.v \in Nat /\ dtr = x.v
  BY <1>1 DEF OrderInv, Loaded
<1>5. /\ UNCHANGED <<gear, wire, loop, queue>>
      /\ x.op = "dtr0" => dtr' = x.v /\ UNCHANGED <<fade, ctl, tasks, outbox>>
      /\ x.op = "fade" => fade' = [d \in D |-> IF d \in Range(x.to) THEN dtr ELSE fade[d]] /\ UNCHANGED <<dtr, ctl, tasks, outbox>>
      /\ x.op \notin {"dtr0", "fade"} =>
           /\ ApplyLevel(x, x.to, id) /\ UNCHANGED <<fade, dtr>>
           /\ tasks' = IF Rest(x, x.to) = <<>> THEN tasks
                       ELSE Append(tasks, [id |-> id, cmd |-> x, todo |-> Rest(x, x.to)])
  BY <1>1 DEF StartTask
<1> HIDE DEF x, id
<1>6. CASE x.op \in {"dtr0", "fade"}
  BY <1>1, <1>2, <1>4, <1>5, <1>6 DEF x
<1>7. CASE x.op \notin {"dtr0", "fade"}
  <2>1. x.op \in Light /\ x.to \in Targets
    BY <1>1, <1>3, <1>7 DEF Commands, Light
  <2>2. ~Fresh
    <3>1. x.to \in Seq(D) /\ x.to # <<>>
      BY <2>1 DEF Targets
    <3>2. PICK d : d = x.to[1]
      OBVIOUS
    <3>3. d \in D /\ d \in Range(x.to)
      BY <3>1, <3>2 DEF Range
    <3>4. ~Unmoved(frames, d)
      BY <1>1, <2>1, <3>3 DEF Unmoved, Moves, x
    <3> QED BY <3>3, <3>4 DEF FreshInv
  <2>3. ApplyLevel(x, x.to, id)
    BY <1>5, <1>7
  <2>4. Applied(x, x.to)
    BY <2>1, <2>2, <2>3, ApplyIs DEF LevelInv, GearInv, WireInv
  <2> DEFINE job == [id |-> id, cmd |-> x, todo |-> Rest(x, x.to)]
  <2>5. job.cmd = x /\ job.todo = Rest(x, x.to)
    OBVIOUS
  <2> HIDE DEF job
  <2>6. CASE Rest(x, x.to) = <<>>
    <3>1. tasks' = <<>>
      BY <1>2, <1>5, <1>7, <2>6
    <3>2. UNCHANGED <<gear, fade, dtr, wire, loop, queue>>
      BY <1>5, <1>7
    <3>3. Handled(x, x.to)
      BY <2>1, <2>2, <2>4, <2>6, <3>1, <3>2 DEF Handled
    <3> QED BY <1>1, <1>2, <3>3 DEF x
  <2>7. CASE Rest(x, x.to) # <<>>
    <3>1. tasks' = <<job>>
      BY <1>2, <1>5, <1>7, <2>7 DEF job
    <3>2. DOMAIN tasks' = {1} /\ Len(tasks') = 1 /\ tasks'[1].cmd = x /\ tasks'[1].todo = Rest(x, x.to)
      BY <2>5, <3>1
    <3>3. frames' = <<>>
      <4>1. Len(x.to) > 1
        BY <2>1, <2>7, OneIsAll
      <4>2. Len(frames) = 1
        BY <1>3, <2>1, <4>1
      <4>3. Tail(frames) \in Seq(Commands) /\ Len(Tail(frames)) = 0
        BY <1>1, <4>2, TailIs
      <4> QED BY <1>1, <4>3
    <3>4. UNCHANGED <<gear, fade, dtr, wire, loop, queue>>
      BY <1>5, <1>7
    <3>5. Handled(x, x.to)
      BY <2>1, <2>2, <2>4, <3>2, <3>3, <3>4 DEF Handled
    <3> QED BY <1>1, <1>2, <3>5 DEF x
  <2> QED BY <2>6, <2>7
<1> QED BY <1>6, <1>7

LEMMA StepIs ==
  ASSUME LevelInv, GearInv, OrderInv, FreshInv, WireInv, StepTask
  PROVE  /\ frames = <<>> /\ frames' = <<>> /\ DOMAIN tasks = {1}
         /\ Handled(tasks[1].cmd, tasks[1].todo)
<1>1. PICK i \in DOMAIN tasks :
        /\ ApplyLevel(tasks[i].cmd, tasks[i].todo, tasks[i].id)
        /\ tasks' = IF Rest(tasks[i].cmd, tasks[i].todo) = <<>> THEN RemoveAt(tasks, i)
                    ELSE [tasks EXCEPT ![i].todo = Rest(tasks[i].cmd, tasks[i].todo)]
  BY DEF StepTask
<1>2. tasks \in Seq(Jobs)
  BY DEF LevelInv, ListsInv
<1>3. tasks # <<>>
  BY <1>1, <1>2
<1>4. Len(tasks) = 1 /\ frames = <<>> /\ tasks[1].cmd.op \in Light
  BY <1>3 DEF OrderInv
<1>5. i = 1 /\ DOMAIN tasks = {1}
  BY <1>1, <1>2, <1>4
<1> DEFINE k == tasks[1]
           x == k.cmd
           to == k.todo
           r == Rest(x, to)
<1>6. k \in Jobs
  BY <1>1, <1>2, <1>5, SMTT(20)
<1>7. to \in Targets /\ DOMAIN k = {"id", "cmd", "todo"}
  BY <1>6 DEF Jobs
<1>8. ~Fresh /\ UNCHANGED <<gear, fade, dtr, frames, wire, loop, queue>>
  BY <1>3 DEF FreshInv, StepTask
<1>9. Applied(x, to)
  BY <1>1, <1>5, <1>7, <1>8, ApplyIs DEF LevelInv, GearInv, WireInv
<1>10. \/ r = <<>> /\ tasks' = <<>>
       \/ DOMAIN tasks' = {1} /\ Len(tasks') = 1 /\ tasks'[1].cmd = x /\ tasks'[1].todo = r
  <2>1. CASE r = <<>>
    <3>1. tasks' = SubSeq(tasks, 1, 0) \o SubSeq(tasks, 2, 1)
      BY <1>1, <1>4, <1>5, <2>1 DEF RemoveAt
    <3>2. SubSeq(tasks, 1, 0) = <<>> /\ SubSeq(tasks, 2, 1) = <<>>
      BY <1>2
    <3> QED BY <2>1, <3>1, <3>2
  <2>2. CASE r # <<>>
    <3> DEFINE n == [k EXCEPT !.todo = r]
    <3>1. n.cmd = x /\ n.todo = r
      BY <1>7
    <3>2. tasks' = [tasks EXCEPT ![1] = n]
      BY <1>1, <1>5, <2>2
    <3> HIDE DEF n, k, r
    <3>3. DOMAIN tasks' = {1} /\ tasks'[1] = n
      BY <1>5, <3>2
    <3>4. Len(tasks') = 1
      BY <1>4, <3>2
    <3> QED BY <3>1, <3>3, <3>4 DEF k, r
  <2> QED BY <2>1, <2>2
<1>11. Handled(x, to)
  BY <1>4, <1>7, <1>8, <1>9, <1>10 DEF Handled
<1> QED BY <1>4, <1>5, <1>8, <1>11

---------------------------------------------------------------------------
(* The parts of the invariant.                                                  *)

LEMMA LoadedTail ==
  ASSUME NEW F \in Seq(Commands), F # <<>>, NEW r, Loaded(F, r)
  PROVE  Loaded(Tail(F), IF F[1].op = "dtr0" THEN F[1].v ELSE r)
<1> DEFINE G == Tail(F)
           n == Len(F)
           s == IF F[1].op = "dtr0" THEN F[1].v ELSE r
<1>1. n \in Nat \ {0} /\ Len(G) = n - 1 /\ \A i \in 1 .. n - 1 : G[i] = F[i + 1]
  BY TailIs
<1>2. \A i \in 1 .. n : F[i].op = "fade" =>
        F[i].v \in Nat /\ IF i = 1 THEN r = F[i].v ELSE F[i - 1].op = "dtr0" /\ F[i - 1].v = F[i].v
  BY DEF Loaded
<1> HIDE DEF G, n
<1>3. ASSUME NEW i \in 1 .. n - 1, G[i].op = "fade"
      PROVE  G[i].v \in Nat /\ IF i = 1 THEN s = G[i].v ELSE G[i - 1].op = "dtr0" /\ G[i - 1].v = G[i].v
  <2>1. PICK j \in 1 .. n : j = i + 1 /\ j # 1
    <3>1. i + 1 \in 1 .. n /\ i + 1 # 1
      BY <1>1
    <3> QED BY <3>1
  <2>2. G[i] = F[j] /\ j - 1 = i
    BY <1>1, <2>1
  <2>3. F[j].v \in Nat /\ F[i].op = "dtr0" /\ F[i].v = F[j].v
    BY <1>2, <1>3, <2>1, <2>2
  <2>4. CASE i = 1
    BY <2>2, <2>3, <2>4
  <2>5. CASE i # 1
    <3>1. i - 1 \in 1 .. n - 1 /\ i - 1 + 1 = i
      BY <1>1, <2>5
    <3>2. G[i - 1] = F[i]
      BY <1>1, <3>1
    <3> QED BY <2>2, <2>3, <2>5, <3>2
  <2> QED BY <2>4, <2>5
<1> QED BY <1>1, <1>3 DEF Loaded, G

LEMMA WideTail ==
  ASSUME NEW F \in Seq(Commands), F # <<>>, WideLast(F)
  PROVE  WideLast(Tail(F))
<1> DEFINE G == Tail(F)
           n == Len(F)
<1>1. n \in Nat \ {0} /\ Len(G) = n - 1 /\ \A i \in 1 .. n - 1 : G[i] = F[i + 1]
  BY TailIs
<1>2. \A i \in 1 .. n : F[i].op # "query" /\ (F[i].op \in Light /\ Len(F[i].to) > 1 => i = n)
  BY DEF WideLast
<1> HIDE DEF G, n
<1>3. ASSUME NEW i \in 1 .. n - 1 PROVE G[i].op # "query" /\ (G[i].op \in Light /\ Len(G[i].to) > 1 => i = n - 1)
  <2>1. PICK j \in 1 .. n : j = i + 1
    <3>1. i + 1 \in 1 .. n
      BY <1>1
    <3> QED BY <3>1
  <2>2. G[i] = F[j]
    BY <1>1, <2>1
  <2>3. F[j].op # "query" /\ (F[j].op \in Light /\ Len(F[j].to) > 1 => j = n)
    BY <1>2
  <2>4. j = n => i = n - 1
    BY <1>1, <2>1
  <2> QED BY <2>2, <2>3, <2>4
<1> QED BY <1>1, <1>3 DEF WideLast, G

(* A batch that goes out: the gear obeys it, whoever sends it.                  *)
LEMMA Sent ==
  ASSUME Calm, LevelInv, GearInv, OrderInv, FreshInv, Foreign \/ Execute
  PROVE  /\ \/ frames' = frames /\ \A d \in D : gear'[d] = gear[d]
            \/ \E cs \in Tidied : WideLast(cs) /\ Send(cs) /\ (~Fresh \/ \A j \in 1 .. Len(cs) : cs[j].op \notin Light)
         /\ UNCHANGED <<fade, dtr, ctl, tasks, wire, outbox>>
<1>0. frames \in Seq(Commands)
  BY DEF LevelInv, ListsInv
<1>1. CASE Foreign
  BY <1>0, <1>1, ForeignIs DEF Foreign
<1>2. CASE Execute
  <2>1. \E cs \in Tidied : WideLast(cs) /\ Send(cs)
    BY <1>2, ExecuteIs
  <2>2. ~Fresh
    BY <1>2 DEF FreshInv, Execute
  <2>3. UNCHANGED <<fade, dtr, ctl, tasks, wire, outbox>>
    BY <1>2 DEF Execute
  <2> QED BY <2>1, <2>2, <2>3
<1> QED BY <1>1, <1>2

LEMMA OrderStep ==
  ASSUME Calm, SyncInv, [Next]_vars
  PROVE  OrderInv'
<1> USE DEF SyncInv
<1>0. /\ frames \in Seq(Commands) /\ Loaded(frames, dtr) /\ WideLast(frames)
      /\ \A d \in D : FadeAt(frames, d, fade[d], Len(frames) + 1, gear[d].fade)
      /\ tasks # <<>> => Len(tasks) = 1 /\ frames = <<>> /\ tasks[1].cmd.op \in Light
  BY DEF OrderInv, LevelInv, ListsInv
<1> HIDE DEF SyncInv
<1>1. CASE UNCHANGED <<frames, tasks, dtr, fade, gear>>
  BY <1>0, <1>1, Zenon DEF OrderInv
<1>2. CASE Tick
  <2>1. ASSUME NEW d \in D PROVE gear'[d].fade = gear[d].fade
    <3> DEFINE g == gear[d]
    <3>1. Sound(g)
      BY DEF SyncInv, GearInv
    <3>2. gear'[d] = IF g.ramp <= 1 THEN Goes(g, g.target, 0) ELSE [g EXCEPT !.ramp = @ - 1]
      BY <1>2 DEF Tick
    <3> HIDE DEF g
    <3>3. Goes(g, g.target, 0).fade = g.fade
      BY <3>1, GoesSound
    <3>4. [g EXCEPT !.ramp = @ - 1].fade = g.fade
      BY <3>1 DEF Sound
    <3> QED BY <3>2, <3>3, <3>4 DEF g
  <2>2. UNCHANGED <<frames, tasks, dtr, fade>>
    BY <1>2 DEF Tick
  <2> QED BY <1>0, <2>1, <2>2, Zenon DEF OrderInv
<1>3. CASE Foreign \/ Execute
  <2>1. UNCHANGED <<fade, dtr, tasks>>
    BY <1>3, Sent DEF SyncInv
  <2>2. CASE frames' = frames /\ \A d \in D : gear'[d] = gear[d]
    BY <1>0, <2>1, <2>2, Zenon DEF OrderInv
  <2>3. CASE \E cs \in Tidied : WideLast(cs) /\ Send(cs)
    <3>1. PICK cs \in Tidied : WideLast(cs) /\ Send(cs)
      BY <2>3
    <3>2. /\ tasks = <<>> /\ Loaded(frames', dtr) /\ WideLast(frames')
          /\ \A d \in D : FadeAt(frames', d, fade[d], Len(frames') + 1, gear'[d].fade)
      BY <1>0, <3>1, SendIs DEF SyncInv
    <3> QED BY <2>1, <3>2, Zenon DEF OrderInv
  <2> QED BY <1>3, <2>2, <2>3, Sent DEF SyncInv
<1>4. CASE StartTask
  <2> DEFINE x == frames[1]
             F == Tail(frames)
  <2>1. /\ frames # <<>> /\ frames' = F /\ tasks = <<>> /\ x \in Commands
        /\ \/ x.op = "dtr0" /\ dtr' = x.v /\ UNCHANGED <<gear, fade, ctl, tasks, outbox, wire, loop, queue>>
           \/ /\ x.op = "fade" /\ fade' = [d \in D |-> IF d \in Range(x.to) THEN x.v ELSE fade[d]] /\ x.v \in Nat
              /\ UNCHANGED <<gear, dtr, ctl, tasks, outbox, wire, loop, queue>>
           \/ Handled(x, x.to)
    BY <1>4, StartIs DEF SyncInv
  <2>2. Loaded(F, IF x.op = "dtr0" THEN x.v ELSE dtr) /\ WideLast(F)
    BY <1>0, <2>1, LoadedTail, WideTail
  <2>3. ASSUME NEW d \in D PROVE FadeAt(F, d, Faded(frames, d, fade[d]), Len(F) + 1, gear[d].fade)
    <3>1. Len(frames) + 1 \in 2 .. Len(frames) + 1 /\ Len(frames) + 1 - 1 = Len(F) + 1
      BY <1>0, <2>1, TailIs
    <3>2. FadeAt(frames, d, fade[d], Len(frames) + 1, gear[d].fade)
      BY <1>0
    <3>3. FadeAt(F, d, Faded(frames, d, fade[d]), Len(frames) + 1 - 1, gear[d].fade)
      BY <1>0, <2>1, <3>1, <3>2, FadeTail
    <3> QED BY <3>1, <3>3
  <2> HIDE DEF F
  <2>4. CASE x.op = "dtr0" /\ dtr' = x.v /\ UNCHANGED <<gear, fade, ctl, tasks, outbox, wire, loop, queue>>
    <3>1. \A d \in D : Faded(frames, d, fade[d]) = fade'[d]
      BY <2>4 DEF Faded, Fades
    <3>2. Loaded(F, dtr')
      BY <2>2, <2>4
    <3>3. \A d \in D : FadeAt(F, d, fade'[d], Len(F) + 1, gear'[d].fade)
      BY <2>3, <2>4, <3>1
    <3> QED BY <2>1, <2>2, <2>4, <3>2, <3>3, Zenon DEF OrderInv
  <2>5. CASE /\ x.op = "fade" /\ fade' = [d \in D |-> IF d \in Range(x.to) THEN x.v ELSE fade[d]]
             /\ UNCHANGED <<gear, dtr, ctl, tasks, outbox, wire, loop, queue>>
    <3>1. \A d \in D : Faded(frames, d, fade[d]) = fade'[d]
      BY <2>5 DEF Faded, Fades
    <3>2. Loaded(F, dtr')
      BY <2>2, <2>5
    <3>3. \A d \in D : FadeAt(F, d, fade'[d], Len(F) + 1, gear'[d].fade)
      BY <2>3, <2>5, <3>1
    <3> QED BY <2>1, <2>2, <2>5, <3>2, <3>3, Zenon DEF OrderInv
  <2>6. CASE Handled(x, x.to)
    <3>0. x.op \in Light /\ UNCHANGED <<gear, fade, dtr>>
          /\ (tasks' = <<>> \/ (frames' = <<>> /\ Len(tasks') = 1 /\ tasks'[1].cmd = x))
      BY <2>6 DEF Handled
    <3>1. \A d \in D : Faded(frames, d, fade[d]) = fade'[d]
      BY <3>0 DEF Faded, Fades, Light
    <3>2. Loaded(F, dtr')
      BY <2>2, <3>0 DEF Light
    <3>3. \A d \in D : FadeAt(F, d, fade'[d], Len(F) + 1, gear'[d].fade)
      BY <2>3, <3>0, <3>1
    <3>4. tasks' # <<>> => Len(tasks') = 1 /\ frames' = <<>> /\ tasks'[1].cmd.op \in Light
      BY <3>0
    <3> QED BY <2>1, <2>2, <3>2, <3>3, <3>4, Zenon DEF OrderInv
  <2> QED BY <2>1, <2>4, <2>5, <2>6
<1>5. CASE StepTask
  <2>1. frames' = frames /\ frames = <<>> /\ DOMAIN tasks = {1} /\ Handled(tasks[1].cmd, tasks[1].todo)
    BY <1>5, StepIs DEF SyncInv
  <2>2. /\ tasks[1].cmd.op \in Light /\ UNCHANGED <<gear, fade, dtr>>
        /\ tasks' = <<>> \/ (Len(tasks') = 1 /\ tasks'[1].cmd = tasks[1].cmd)
    BY <2>1 DEF Handled
  <2>3. tasks' # <<>> => Len(tasks') = 1 /\ frames' = <<>> /\ tasks'[1].cmd.op \in Light
    BY <2>1, <2>2
  <2> QED BY <1>0, <2>1, <2>2, <2>3, Zenon DEF OrderInv
<1> QED
  BY <1>1, <1>2, <1>3, <1>4, <1>5
  DEF Next, vars, Publish, ComesRound, PollStart, PollAnswer, PollTell, Write, Executed, Rebuild, Regroup


(* The next answer of a poll is told, or there is none left.                    *)
ToldNext ==
  LET d == loop.asked[1]
      e == ReadEvent(loop.got[1])
  IN /\ loop.asked # <<>> /\ loop.asked \in Seq(D) /\ loop.got # <<>> /\ d \in D
     /\ Dispatched(ctl, d, e) /\ loop' = [loop EXCEPT !.asked = Tail(@), !.got = Tail(@)]
     /\ \A x \in D : \A f \in Mirrored : Ends(wire[x][f], outbox', x, f, ctl'[x][f])
     /\ \A x \in D : ctl'[x].due = ctl[x].due

LEMMA PollTellIs ==
  ASSUME LevelInv, WireInv, LoopInv, PollTell
  PROVE  \/ loop.asked = <<>> /\ loop' = Idle /\ UNCHANGED <<ctl, outbox>>
         \/ ToldNext
<1>1. CASE loop.asked = <<>>
  BY <1>1 DEF PollTell
<1>2. CASE loop.asked # <<>>
  <2> DEFINE h == loop.asked[1]
             g == loop.got[1]
             e == ReadEvent(g)
  <2>1. loop.asked \in Seq(D) /\ IsList(loop.got) /\ Len(loop.got) = Len(loop.asked) /\ GroupInv /\ Messages(outbox)
    BY DEF PollTell, LevelInv, ListsInv, LoopInv, WireInv
  <2>2. loop.got # <<>>
    <3>1. Len(loop.asked) # 0
      BY <1>2, <2>1
    <3> QED BY <2>1, <3>1
  <2>3. Head(loop.asked) = h /\ h \in D
    BY <1>2, <2>1
  <2>4. Head(loop.got) = g
    BY <2>1, <2>2, ListTail
  <2>5. Dispatch(ctl, h, e, 0) /\ loop' = [loop EXCEPT !.asked = Tail(@), !.got = Tail(@)]
    BY <1>2, <2>3, <2>4, Zenon DEF PollTell
  <2>6. e.failed \in BOOLEAN /\ e.settle = NoTime
    BY DEF ReadEvent
  <2> HIDE DEF h, g, e
  <2>7. DOMAIN ctl = D /\ \A x \in D : DOMAIN ctl[x] = ControlFields
    BY <2>1 DEF GroupInv, ControlShape
  <2>8. Dispatched(ctl, h, e)
    BY <2>1, <2>3, <2>5, <2>6, <2>7, DispatchIs
  <2>9. SameShown(ctl, ctl)
    BY <2>7 DEF SameShown
  <2>10. \A x \in D : \A f \in Mirrored : Ends(wire[x][f], outbox', x, f, ctl'[x][f])
    BY <2>1, <2>3, <2>5, <2>6, <2>9, DispatchMirrors
  <2>11. ctl'[h] = Notify(ctl[h], e) /\ \A x \in D \ {h} : ctl'[x] = ctl[x]
    BY <2>8 DEF Dispatched
  <2>12. ctl'[h].due = ctl[h].due
    <3> DEFINE c == ctl[h]
    <3>1. DOMAIN c = ControlFields
      BY <2>3, <2>7
    <3> HIDE DEF c
    <3>2. Notify(c, e).due = IF e.settle = NoTime \/ c.due = First THEN c.due ELSE e.settle
      BY <3>1, NotifyRest
    <3>3. Notify(c, e).due = c.due
      BY <2>6, <3>2
    <3> QED BY <2>11, <3>3 DEF c
  <2>13. \A x \in D : ctl'[x].due = ctl[x].due
    BY <2>11, <2>12
  <2> QED BY <1>2, <2>1, <2>2, <2>3, <2>5, <2>8, <2>10, <2>13, Zenon DEF ToldNext, h, g, e
<1> QED BY <1>1, <1>2

(* The writes under way are over: what each of them leaves.                     *)
Wrote(p) ==
  /\ \A d \in D : DOMAIN ctl'[d] = ControlFields /\ \A f \in ControlFields \ {"on"} : ctl'[d][f] = ctl[d][f]
  /\ \A i \in 1 .. Len(loop.asked) :
       loop.asked[i] \in D /\ loop.got[i] # NoWrite => ctl'[loop.asked[i]].on = (loop.got[i] = "1")
  /\ \A d \in D : (\A i \in 1 .. Len(loop.asked) : loop.asked[i] = d => loop.got[i] = NoWrite) => ctl'[d].on = ctl[d].on
  /\ IsList(p) /\ Len(p) = Len(loop.asked) /\ outbox' = outbox \o p
  /\ \A i \in 1 .. Len(p) : p[i].device = loop.asked[i] /\ p[i].puts = [onerr |-> loop.got[i] = NoWrite]

LEMMA ExecutedIs ==
  ASSUME LevelInv, LoopInv, Executed
  PROVE  \E p : Wrote(p)
<1> DEFINE at(x) == SelectInSeq(loop.asked, LAMBDA y : y = x)
           v(x)  == loop.got[at(x)]
           kept(x) == x \in Range(loop.asked) /\ v(x) # NoWrite
           s == loop.asked
           n == Len(loop.asked)
           p == [i \in DOMAIN s |->
                   LET x == s[i]
                   IN [by |-> MaxEvents + 2, device |-> x, puts |-> [onerr |-> v(x) = NoWrite],
                       group |-> IF x = Group THEN [onerr |-> v(x) = NoWrite] ELSE <<>>]]
<1>1. ctl' = [d \in D |-> IF kept(d) THEN [ctl[d] EXCEPT !.on = v(d) = "1"] ELSE ctl[d]] /\ outbox' = outbox \o p
  BY DEF Executed
<1>2. s \in Seq(Shown) /\ IsInjective(s) /\ n \in Nat /\ DOMAIN s = 1 .. n /\ \A d \in D : DOMAIN ctl[d] = ControlFields
  <2>1. s \in Seq(Shown) /\ IsInjective(s)
    BY DEF LoopInv, Executed
  <2>2. \A d \in D : DOMAIN ctl[d] = ControlFields
    BY DEF LevelInv, GroupInv, ControlShape
  <2>3. n \in Nat /\ DOMAIN s = 1 .. n
    BY <2>1
  <2> QED BY <2>1, <2>2, <2>3
<1>3. ASSUME NEW i \in 1 .. n PROVE at(s[i]) = i
  <2> DEFINE I == {j \in 1 .. n : s[j] = s[i]}
  <2>1. I = {i}
    BY <1>2 DEF IsInjective
  <2>2. Min(I) = i
    BY <2>1 DEF Min
  <2>3. at(s[i]) = IF I # {} THEN Min(I) ELSE 0
    BY DEF SelectInSeq
  <2> HIDE DEF I
  <2> QED BY <2>1, <2>2, <2>3
<1> HIDE DEF at
<1>4. \A i \in 1 .. n : v(s[i]) = loop.got[i]
  BY <1>3
<1>5. \A x : x \in Range(s) <=> \E i \in 1 .. n : s[i] = x
  BY <1>2 DEF Range
<1>6. DOMAIN p = 1 .. n /\ \A i \in 1 .. n : p[i].device = s[i] /\ p[i].puts = [onerr |-> v(s[i]) = NoWrite]
  BY <1>2
<1>7. IsList(p) /\ Len(p) = n
  <2>1. \A i \in 1 .. n : p[i] \in {p[j] : j \in 1 .. n}
    OBVIOUS
  <2>2. p = [i \in 1 .. n |-> p[i]]
    BY <1>2
  <2> HIDE DEF p
  <2>3. p \in Seq({p[j] : j \in 1 .. n}) /\ Len(p) = n
    BY <1>2, <2>1, <2>2
  <2> QED BY <2>3 DEF IsList
<1> HIDE DEF v, p
<1>8. ASSUME NEW d \in D
      PROVE  DOMAIN ctl'[d] = ControlFields /\ \A f \in ControlFields \ {"on"} : ctl'[d][f] = ctl[d][f]
  <2>1. PICK w : ctl'[d] = [ctl[d] EXCEPT !.on = w] \/ ctl'[d] = ctl[d]
    BY <1>1
  <2>2. DOMAIN [ctl[d] EXCEPT !.on = w] = ControlFields
    BY <1>2
  <2>3. \A f \in ControlFields \ {"on"} : [ctl[d] EXCEPT !.on = w][f] = ctl[d][f]
    BY <1>2 DEF ControlFields
  <2> QED BY <1>2, <2>1, <2>2, <2>3
<1>9. ASSUME NEW i \in 1 .. n, s[i] \in D, loop.got[i] # NoWrite
      PROVE  ctl'[s[i]].on = (loop.got[i] = "1")
  <2>1. kept(s[i]) /\ v(s[i]) = loop.got[i]
    BY <1>4, <1>5, <1>9
  <2>2. ctl'[s[i]] = [ctl[s[i]] EXCEPT !.on = (v(s[i]) = "1")]
    BY <1>1, <1>9, <2>1
  <2> QED BY <1>2, <1>9, <2>1, <2>2 DEF ControlFields
<1>10. ASSUME NEW d \in D, \A i \in 1 .. n : s[i] = d => loop.got[i] = NoWrite
       PROVE  ctl'[d].on = ctl[d].on
  <2>1. ~kept(d)
    BY <1>4, <1>5, <1>10
  <2> QED BY <1>1, <2>1
<1>11. \A i \in 1 .. n : p[i].device = s[i] /\ p[i].puts = [onerr |-> loop.got[i] = NoWrite]
  BY <1>4, <1>6
<1>12. outbox' = outbox \o p
  BY <1>1
<1> HIDE DEF kept
<1>13. Wrote(p)
  BY <1>7, <1>8, <1>9, <1>10, <1>11, <1>12, Zenon DEF Wrote, s, n
<1> QED BY <1>13

(* A tick: the gear goes on, what is due comes nearer.                          *)
LEMMA TickIs ==
  ASSUME LevelInv, GearInv, Tick, NEW d \in D
  PROVE  /\ Sound(gear'[d]) /\ gear'[d].fade = gear[d].fade
         /\ gear'[d].ramp = IF gear[d].ramp = 0 THEN 0 ELSE gear[d].ramp - 1
         /\ gear[d].ramp = 0 => gear'[d].level = gear[d].level
         /\ ctl'[d].due = IF ctl[d].due > 0 THEN ctl[d].due - 1 ELSE ctl[d].due
         /\ \A f \in ControlFields \ {"due"} : ctl'[d][f] = ctl[d][f]
<1> DEFINE g == gear[d]
           c == ctl[d]
<1>1. Sound(g)
  BY DEF GearInv
<1>2. gear'[d] = IF g.ramp <= 1 THEN Goes(g, g.target, 0) ELSE [g EXCEPT !.ramp = @ - 1]
  BY DEF Tick
<1>3. ctl'[d] = IF c.due > 0 THEN [c EXCEPT !.due = @ - 1] ELSE c
  BY DEF Tick
<1>4. DOMAIN c = ControlFields
  BY DEF LevelInv, GroupInv, ControlShape
<1> HIDE DEF g, c
<1>5. c.due > 0 => [c EXCEPT !.due = @ - 1].due = c.due - 1
  BY <1>4 DEF ControlFields
<1>6. \A f \in ControlFields \ {"due"} : [c EXCEPT !.due = @ - 1][f] = c[f]
  BY <1>4 DEF ControlFields
<1>7. g.ramp \in Nat
  BY <1>1 DEF Sound
<1>8. CASE g.ramp <= 1
  <2>1. gear'[d] = Goes(g, g.target, 0)
    BY <1>2, <1>8
  <2>2. Sound(gear'[d]) /\ gear'[d].fade = g.fade /\ gear'[d].ramp = 0
    BY <1>1, <2>1, GoesSound
  <2>3. g.ramp = 0 => gear'[d].level = g.level
    BY <1>1, <2>1 DEF Goes, Sound
  <2>4. 0 = IF g.ramp = 0 THEN 0 ELSE g.ramp - 1
    BY <1>7, <1>8
  <2> QED BY <1>3, <1>5, <1>6, <2>2, <2>3, <2>4 DEF g, c
<1>9. CASE ~(g.ramp <= 1)
  <2>1. gear'[d] = [g EXCEPT !.ramp = @ - 1]
    BY <1>2, <1>9
  <2>2. /\ DOMAIN gear'[d] = {"level", "target", "ramp", "fade"} /\ gear'[d].fade = g.fade
        /\ gear'[d].level = g.level /\ gear'[d].ramp = g.ramp - 1
    BY <1>1, <2>1 DEF Sound
  <2>3. g.ramp - 1 \in Nat \ {0} /\ g.ramp # 0
    BY <1>7, <1>9
  <2>4. Sound(gear'[d])
    BY <1>1, <2>2, <2>3 DEF Sound
  <2> QED BY <1>3, <1>5, <1>6, <2>2, <2>3, <2>4 DEF g, c
<1> QED BY <1>8, <1>9

LEMMA GearStep ==
  ASSUME Calm, SyncInv, [Next]_vars
  PROVE  GearInv'
<1>0. /\ GearInv /\ LevelInv /\ OrderInv /\ FreshInv /\ LoopInv /\ WireInv /\ DOMAIN ctl = D
      /\ \A d \in D : Sound(gear[d]) /\ ctl[d].due \in Nat \cup {First, Resync} /\ DOMAIN ctl[d] = ControlFields
      /\ fade \in [D -> Nat]
  BY DEF SyncInv, GearInv, LevelInv, GroupInv, ControlShape
<1>1. CASE UNCHANGED <<gear, fade, ctl>>
  BY <1>0, <1>1 DEF GearInv
<1>2. CASE Tick
  <2>1. fade' = fade
    BY <1>2 DEF Tick
  <2>2. ASSUME NEW d \in D PROVE Sound(gear'[d]) /\ ctl'[d].due \in Nat \cup {First, Resync}
    <3>1. Sound(gear'[d]) /\ ctl'[d].due = IF ctl[d].due > 0 THEN ctl[d].due - 1 ELSE ctl[d].due
      BY <1>0, <1>2, TickIs
    <3>2. ctl[d].due \in Nat \cup {First, Resync}
      BY <1>0
    <3> QED BY <3>1, <3>2 DEF First, Resync
  <2> QED BY <1>0, <2>1, <2>2, Zenon DEF GearInv
<1>3. CASE Foreign \/ Execute
  <2>1. UNCHANGED <<fade, ctl>>
    BY <1>0, <1>3, Sent
  <2>2. \A d \in D : Sound(gear'[d])
    <3>1. CASE \A d \in D : gear'[d] = gear[d]
      BY <1>0, <3>1
    <3>2. CASE \E cs \in Tidied : WideLast(cs) /\ Send(cs)
      <4>1. PICK cs \in Tidied : WideLast(cs) /\ Send(cs)
        BY <3>2
      <4>2. frames \in Seq(Commands)
        BY <1>0 DEF LevelInv, ListsInv
      <4> QED BY <1>0, <4>1, <4>2, SendIs
    <3> QED BY <1>0, <1>3, <3>1, <3>2, Sent
  <2> QED BY <1>0, <2>1, <2>2 DEF GearInv
<1>4. ASSUME NEW x, NEW to, Handled(x, to) PROVE GearInv'
  <2>1. UNCHANGED <<gear, fade>> /\ Applied(x, to)
    BY <1>4 DEF Handled
  <2>2. ASSUME NEW d \in D PROVE ctl'[d].due \in Nat \cup {First, Resync}
    <3>1. SettleFor(Basis(x.op), fade[d]) \in Nat
      BY <1>0, SettleNat
    <3>2. ctl'[d] = ctl[d] \/ ctl'[d].due = SettleFor(Basis(x.op), fade[d]) \/ ctl'[d].due = ctl[d].due
      BY <2>1 DEF Applied
    <3> QED BY <1>0, <3>1, <3>2
  <2> QED BY <1>0, <2>1, <2>2 DEF GearInv
<1>5. CASE StartTask
  <2> DEFINE x == frames[1]
  <2>1. CASE x.op = "dtr0" /\ dtr' = x.v /\ UNCHANGED <<gear, fade, ctl, tasks, outbox, wire, loop, queue>>
    BY <1>1, <2>1
  <2>2. CASE /\ fade' = [d \in D |-> IF d \in Range(x.to) THEN x.v ELSE fade[d]] /\ x.v \in Nat
             /\ UNCHANGED <<gear, dtr, ctl, tasks, outbox, wire, loop, queue>>
    <3>1. fade' \in [D -> Nat]
      BY <1>0, <2>2
    <3> QED BY <1>0, <2>2, <3>1 DEF GearInv
  <2>3. CASE Handled(x, x.to)
    BY <1>4, <2>3
  <2> QED BY <1>0, <1>5, <2>1, <2>2, <2>3, StartIs
<1>6. CASE StepTask
  BY <1>0, <1>4, <1>6, StepIs
<1>7. CASE ComesRound
  <2>1. PICK e \in D : ctl' = [ctl EXCEPT ![e].due = 0]
    BY <1>7 DEF ComesRound
  <2>2. ASSUME NEW d \in D PROVE ctl'[d].due \in Nat \cup {First, Resync}
    BY <1>0, <2>1 DEF ControlFields
  <2> QED BY <1>0, <1>7, <2>2 DEF GearInv, ComesRound
<1>8. CASE PollStart
  <2>1. ASSUME NEW d \in D PROVE ctl'[d].due \in Nat \cup {First, Resync}
    <3>1. ctl'[d] = IF Due(d) THEN [ctl[d] EXCEPT !.due = Resync] ELSE ctl[d]
      BY <1>8 DEF PollStart
    <3>2. [ctl[d] EXCEPT !.due = Resync].due = Resync
      BY <1>0 DEF ControlFields
    <3> QED BY <1>0, <3>1, <3>2
  <2> QED BY <1>0, <1>8, <2>1 DEF GearInv, PollStart
<1>9. CASE PollTell
  <2>1. UNCHANGED <<gear, fade>>
    BY <1>9 DEF PollTell
  <2>2. \A d \in D : ctl'[d].due = ctl[d].due
    BY <1>0, <1>9, PollTellIs DEF ToldNext
  <2> QED BY <1>0, <2>1, <2>2 DEF GearInv
<1>10. CASE Executed
  <2>1. \A d \in D : ctl'[d].due = ctl[d].due
    BY <1>0, <1>10, ExecutedIs DEF Wrote, ControlFields
  <2> QED BY <1>0, <1>10, <2>1 DEF GearInv, Executed
<1>11. CASE Rebuild
  <2>1. PICK e \in D : ctl' = [ctl EXCEPT ![e] = Carried(@)]
    BY <1>11 DEF Rebuild
  <2>2. ASSUME NEW d \in D PROVE ctl'[d].due \in Nat \cup {First, Resync}
    <3>1. Carried(ctl[d]).due = First
      BY <1>0 DEF Carried, ControlFields
    <3> QED BY <1>0, <2>1, <3>1
  <2> QED BY <1>0, <1>11, <2>2 DEF GearInv, Rebuild
<1> QED
  BY <1>1, <1>2, <1>3, <1>5, <1>6, <1>7, <1>8, <1>9, <1>10, <1>11
  DEF Next, vars, Publish, PollAnswer, Write, Regroup

LEMMA UnmovedJoin ==
  ASSUME NEW F \in Seq(Commands), NEW cs \in Seq(Commands), NEW d, Unmoved(F, d), Unmoved(cs, d)
  PROVE  Unmoved(F \o cs, d)
<1> DEFINE G == F \o cs
           n == Len(F)
           m == Len(cs)
<1>1. /\ n \in Nat /\ m \in Nat /\ Len(G) = n + m
      /\ \A i \in 1 .. n + m : G[i] = IF i <= n THEN F[i] ELSE cs[i - n]
  OBVIOUS
<1>2. (\A i \in 1 .. n : ~Moves(F[i], d)) /\ (\A i \in 1 .. m : ~Moves(cs[i], d))
  BY DEF Unmoved
<1> HIDE DEF G, n, m
<1>3. ASSUME NEW i \in 1 .. n + m PROVE ~Moves(G[i], d)
  <2>1. CASE i <= n
    BY <1>1, <1>2, <2>1
  <2>2. CASE ~(i <= n)
    <3>1. PICK j \in 1 .. m : j = i - n
      BY <1>1, <2>2
    <3>2. G[i] = cs[j]
      BY <1>1, <2>2, <3>1
    <3> QED BY <1>2, <3>2
  <2> QED BY <2>1, <2>2
<1> QED BY <1>1, <1>3 DEF Unmoved, G

(* Only a rebuild makes controls that have never been polled.                   *)
LEMMA FreshKept ==
  ASSUME Calm, SyncInv, [Next]_vars, ~Rebuild, Fresh'
  PROVE  Fresh
<1>0. /\ GearInv /\ LevelInv /\ OrderInv /\ FreshInv /\ LoopInv /\ WireInv /\ DOMAIN ctl = D
      /\ \A d \in D : ctl[d].due \in Nat \cup {First, Resync} /\ DOMAIN ctl[d] = ControlFields
      /\ fade \in [D -> Nat]
  BY DEF SyncInv, GearInv, LevelInv, GroupInv, ControlShape
<1> SUFFICES ASSUME NEW d \in D, ctl'[d].due = First PROVE ctl[d].due = First
  BY DEF Fresh
<1>1. CASE UNCHANGED ctl
  BY <1>1
<1>2. CASE Tick
  <2>1. ctl'[d].due = IF ctl[d].due > 0 THEN ctl[d].due - 1 ELSE ctl[d].due
    BY <1>0, <1>2, TickIs
  <2> QED BY <1>0, <2>1 DEF First, Resync
<1>4. ASSUME NEW x, NEW to, Handled(x, to) PROVE ctl[d].due = First
  <2>1. Applied(x, to)
    BY <1>4 DEF Handled
  <2>2. SettleFor(Basis(x.op), fade[d]) # First
    BY <1>0, SettleNat
  <2>3. ctl'[d] = ctl[d] \/ ctl'[d].due = SettleFor(Basis(x.op), fade[d]) \/ ctl'[d].due = ctl[d].due
    BY <2>1 DEF Applied
  <2> QED BY <2>2, <2>3
<1>5. CASE StartTask
  BY <1>0, <1>1, <1>4, <1>5, StartIs
<1>6. CASE StepTask
  BY <1>0, <1>4, <1>6, StepIs
<1>7. CASE ComesRound
  <2>1. PICK e \in D : ctl' = [ctl EXCEPT ![e].due = 0]
    BY <1>7 DEF ComesRound
  <2> QED BY <1>0, <2>1 DEF ControlFields, First
<1>8. CASE PollStart
  <2>1. ctl'[d] = IF Due(d) THEN [ctl[d] EXCEPT !.due = Resync] ELSE ctl[d]
    BY <1>8 DEF PollStart
  <2>2. [ctl[d] EXCEPT !.due = Resync].due = Resync
    BY <1>0 DEF ControlFields
  <2> QED BY <2>1, <2>2 DEF First, Resync
<1>9. CASE PollTell
  <2>1. ctl'[d].due = ctl[d].due
    BY <1>0, <1>9, PollTellIs DEF ToldNext
  <2> QED BY <2>1
<1>10. CASE Executed
  <2>1. ctl'[d].due = ctl[d].due
    BY <1>0, <1>10, ExecutedIs DEF Wrote, ControlFields
  <2> QED BY <2>1
<1> QED
  BY <1>0, <1>1, <1>2, <1>5, <1>6, <1>7, <1>8, <1>9, <1>10, Sent
  DEF Next, vars, Publish, Foreign, Execute, PollAnswer, Write, Regroup

LEMMA FreshStep ==
  ASSUME Calm, SyncInv, [Next]_vars
  PROVE  FreshInv'
<1>0. /\ GearInv /\ LevelInv /\ OrderInv /\ FreshInv /\ LoopInv /\ WireInv
      /\ frames \in Seq(Commands) /\ queue \in Seq(Shown)
  BY DEF SyncInv, LevelInv, ListsInv
<1>1. IsInjective(queue') /\ (Group \in Range(queue') => Len(queue') = 1)
  <2>1. CASE queue' = queue
    BY <1>0, <2>1 DEF FreshInv
  <2>2. CASE queue' = <<>>
    <3>1. \A q : q = <<>> => IsInjective(q) /\ Range(q) = {}
      BY DEF IsInjective, Range
    <3> QED BY <2>2, <3>1
  <2>3. CASE Write
    <3>1. PICK x \in Shown : /\ Group \in {x} \cup Range(queue) => Range(queue) \subseteq {x}
                             /\ queue' = IF want[x] = NoWrite THEN Append(queue, x) ELSE queue
      BY <2>3 DEF Write
    <3>2. CASE want[x] = NoWrite
      <4>1. x \notin Range(queue)
        BY <1>0, <3>2 DEF LevelInv, WriteInv
      <4> DEFINE q == Append(queue, x)
                 n == Len(queue)
      <4>2. n \in Nat /\ DOMAIN queue = 1 .. n /\ Len(q) = n + 1 /\ DOMAIN q = 1 .. n + 1
            /\ q[n + 1] = x /\ \A i \in 1 .. n : q[i] = queue[i]
        BY <1>0
      <4>3. \A i \in 1 .. n : queue[i] # x
        BY <4>1, <4>2 DEF Range
      <4>4. \A i, j \in 1 .. n : queue[i] = queue[j] => i = j
        BY <1>0, <4>2 DEF FreshInv, IsInjective
      <4>5. Range(q) = Range(queue) \cup {x}
        BY <1>0, RangeAppended
      <4> HIDE DEF q, n
      <4>6. IsInjective(q)
        BY <4>2, <4>3, <4>4 DEF IsInjective
      <4>7. ASSUME Group \in Range(q) PROVE Len(q) = 1
        <5>1. Range(queue) \subseteq {x}
          BY <3>1, <4>5, <4>7
        <5>2. \A i \in 1 .. n : queue[i] \in Range(queue)
          BY <4>2 DEF Range
        <5>3. n = 0
          BY <4>2, <4>3, <5>1, <5>2
        <5> QED BY <4>2, <5>3
      <4> QED BY <3>1, <3>2, <4>6, <4>7 DEF q
    <3> QED BY <2>1, <3>1, <3>2
  <2> QED
    BY <2>1, <2>2, <2>3
    DEF Next, vars, Tick, Foreign, Publish, StartTask, StepTask, ComesRound, PollStart, PollAnswer, PollTell, Execute,
        Executed, Rebuild, Regroup
<1>2. ASSUME Fresh' PROVE queue' = <<>> /\ loop'.at # "writing" /\ tasks' = <<>> /\ \A d \in D : Unmoved(frames', d)
  <2>1. CASE Rebuild
    <3>1. frames' = <<>> /\ tasks' = <<>> /\ queue' = <<>> /\ loop' = Idle
      BY <2>1 DEF Rebuild, Steady
    <3>2. \A d : Unmoved(frames', d)
      BY <3>1 DEF Unmoved
    <3> QED BY <3>1, <3>2 DEF Idle
  <2>2. CASE ~Rebuild
    <3>1. Fresh /\ queue = <<>> /\ loop.at # "writing" /\ tasks = <<>> /\ \A d \in D : Unmoved(frames, d)
      <4>1. Fresh
        BY <1>2, <2>2, FreshKept
      <4> QED BY <1>0, <4>1 DEF FreshInv
    <3>2. CASE UNCHANGED <<queue, loop, tasks, frames>>
      BY <3>1, <3>2, Zenon
    <3>3. CASE Foreign
      <4>1. UNCHANGED <<queue, loop, tasks>>
        BY <3>3 DEF Foreign
      <4>2. CASE \E cs \in Tidied : WideLast(cs) /\ Send(cs) /\ \A j \in 1 .. Len(cs) : cs[j].op \notin Light
        <5>1. PICK cs \in Tidied : WideLast(cs) /\ Send(cs) /\ \A j \in 1 .. Len(cs) : cs[j].op \notin Light
          BY <4>2
        <5>2. cs \in Seq(Commands) /\ frames' = frames \o cs
          BY <1>0, <5>1, SendIs DEF Tidied
        <5>3. \A d \in D : Unmoved(cs, d)
          BY <5>1 DEF Unmoved, Moves
        <5> QED BY <1>0, <3>1, <4>1, <5>2, <5>3, UnmovedJoin
      <4> QED BY <1>0, <3>1, <3>2, <3>3, <4>1, <4>2, ForeignIs
    <3>4. CASE StartTask
      <4>1. /\ frames # <<>> /\ frames' = Tail(frames) /\ UNCHANGED <<tasks, loop, queue>>
        BY <1>0, <3>1, <3>4, StartIs DEF Handled
      <4>2. \A d \in D : Unmoved(Tail(frames), d)
        BY <1>0, <3>1, <4>1, UnmovedTail
      <4> QED BY <3>1, <4>1, <4>2
    <3>5. CASE PollStart \/ PollAnswer \/ PollTell
      <4>1. UNCHANGED <<queue, tasks, frames>>
        BY <3>5 DEF PollStart, PollAnswer, PollTell
      <4>2. loop'.at # "writing"
        <5>1. CASE PollStart
          BY <5>1 DEF PollStart
        <5>2. CASE PollAnswer
          <6>1. DOMAIN loop = {"at", "asked", "got"}
            BY <1>0 DEF LevelInv, ListsInv
          <6>2. PICK g, a : a # "writing" /\ loop' = [loop EXCEPT !.got = g, !.at = a]
            <7>1. \A n : (IF n = Len(loop.asked) THEN "telling" ELSE "asking") # "writing"
              OBVIOUS
            <7> QED BY <5>2, <7>1 DEF PollAnswer
          <6> QED BY <6>1, <6>2
        <5>3. CASE PollTell
          <6>1. DOMAIN loop = {"at", "asked", "got"} /\ loop.at = "telling"
            BY <1>0, <5>3 DEF LevelInv, ListsInv, PollTell
          <6>2. loop' = Idle \/ loop' = [loop EXCEPT !.asked = Tail(@), !.got = Tail(@)]
            BY <5>3 DEF PollTell
          <6>3. [loop EXCEPT !.asked = Tail(@), !.got = Tail(@)].at = "telling"
            BY <6>1
          <6>4. Idle.at = "idle"
            BY DEF Idle
          <6> QED BY <6>2, <6>3, <6>4
        <5> QED BY <3>5, <5>1, <5>2, <5>3
      <4> QED BY <3>1, <4>1, <4>2, Zenon
    <3>6. ~StepTask /\ ~Write /\ ~Execute /\ ~Executed
      <4>1. ASSUME StepTask PROVE FALSE
        <5>1. \E i : i \in DOMAIN tasks
          BY <4>1, Zenon DEF StepTask
        <5>2. DOMAIN tasks = {}
          BY <3>1
        <5> QED BY <5>1, <5>2
      <4>2. ~Write
        BY <3>1 DEF Write
      <4>3. ~Execute
        BY <3>1 DEF Execute
      <4>4. ~Executed
        BY <3>1 DEF Executed
      <4> QED BY <4>1, <4>2, <4>3, <4>4
    <3> QED
      BY <2>2, <3>2, <3>3, <3>4, <3>5, <3>6
      DEF Next, vars, Tick, Publish, ComesRound, Regroup
  <2> QED BY <2>1, <2>2
<1> QED BY <1>1, <1>2, Zenon DEF FreshInv

LEMMA LoopStep ==
  ASSUME Calm, SyncInv, [Next]_vars
  PROVE  LoopInv'
<1>0. /\ LevelInv /\ GearInv /\ FreshInv /\ LoopInv /\ WireInv
      /\ DOMAIN loop = {"at", "asked", "got"} /\ queue \in Seq(Shown) /\ IsInjective(queue)
  BY DEF SyncInv, LevelInv, ListsInv, FreshInv
<1>1. CASE UNCHANGED loop
  BY <1>0, <1>1, Zenon DEF LoopInv
<1>2. CASE loop' = Idle
  BY <1>2 DEF LoopInv, Idle
<1>3. CASE PollStart
  <2>1. PICK a : a = InOrder({d \in D : Due(d)}) /\ loop' = [at |-> "asking", asked |-> a, got |-> <<>>]
    BY <1>3 DEF PollStart
  <2>2. a \in Seq(D)
    BY <2>1, InOrderIsList
  <2>3. a \in Seq(Shown)
    BY <2>2 DEF Shown
  <2>4. PICK d \in D : d \in Range(a)
    <3>1. PICK d \in D : Due(d)
      BY <1>3 DEF PollStart
    <3>2. d \in {x \in D : Due(x)}
      BY <3>1
    <3> QED BY <2>1, <3>2, InOrderHolds
  <2>5. Len(a) > 0
    BY <2>3, <2>4 DEF Range
  <2>6. loop'.at = "asking" /\ loop'.asked = a /\ loop'.got = <<>>
    BY <2>1
  <2>7. IsList(<<>>) /\ Len(<<>>) = 0
    <3>1. <<>> \in Seq(D)
      OBVIOUS
    <3> QED BY <3>1 DEF IsList
  <2>8. Len(loop'.got) < Len(loop'.asked)
    BY <2>5, <2>6, <2>7
  <2> QED BY <2>3, <2>6, <2>7, <2>8 DEF LoopInv
<1>4. CASE PollAnswer
  <2> DEFINE s == loop.asked
             n == Len(loop.got)
  <2>1. PICK y : LET q == Append(loop.got, y)
                 IN loop' = [loop EXCEPT !.got = q, !.at = IF Len(q) = Len(s) THEN "telling" ELSE "asking"]
    BY <1>4 DEF PollAnswer
  <2> DEFINE q == Append(loop.got, y)
  <2>2. s \in Seq(Shown) /\ IsList(loop.got) /\ n < Len(s)
    BY <1>0, <1>4 DEF LoopInv, PollAnswer
  <2>3. IsList(q) /\ n \in Nat /\ Len(q) = n + 1
    BY <2>2, ListAppend
  <2>4. Len(s) \in Nat
    BY <2>2
  <2> HIDE DEF q, n
  <2>5. loop'.asked = s /\ loop'.got = q /\ loop'.at = IF Len(q) = Len(s) THEN "telling" ELSE "asking"
    BY <1>0, <2>1 DEF q
  <2>6. loop'.at = "asking" => Len(q) < Len(s)
    BY <2>2, <2>3, <2>4, <2>5 DEF n
  <2>7. loop'.at \in {"asking", "telling"} /\ (loop'.at = "telling" => Len(q) = Len(s))
    BY <2>5
  <2> QED BY <2>2, <2>3, <2>5, <2>6, <2>7 DEF LoopInv
<1>5. CASE PollTell
  <2>1. CASE ToldNext
    <3> DEFINE s == loop.asked
               g == loop.got
    <3>1. s # <<>> /\ g # <<>> /\ s \in Seq(Shown) /\ IsList(g) /\ Len(g) = Len(s) /\ loop.at = "telling"
      BY <1>0, <1>5, <2>1 DEF LoopInv, PollTell, ToldNext
    <3>2. loop' = [loop EXCEPT !.asked = Tail(@), !.got = Tail(@)]
      BY <2>1 DEF ToldNext
    <3>3. loop'.at = "telling" /\ loop'.asked = Tail(s) /\ loop'.got = Tail(g)
      BY <1>0, <3>1, <3>2
    <3>4. IsList(Tail(g)) /\ Len(Tail(g)) = Len(g) - 1
      BY <3>1, ListTail
    <3>5. Tail(s) \in Seq(Shown) /\ Len(Tail(s)) = Len(s) - 1
      BY <3>1
    <3> QED BY <3>1, <3>3, <3>4, <3>5 DEF LoopInv
  <2> QED BY <1>0, <1>2, <1>5, <2>1, PollTellIs
<1>6. CASE Execute
  <2>1. PICK lost : loop' = [at |-> "writing", asked |-> queue,
                             got |-> [i \in DOMAIN queue |-> IF i = lost THEN NoWrite ELSE want[queue[i]]]]
    BY <1>0, <1>6, ExecuteIs
  <2> DEFINE g == [i \in DOMAIN queue |-> IF i = lost THEN NoWrite ELSE want[queue[i]]]
             n == Len(queue)
  <2>2. n \in Nat /\ DOMAIN queue = 1 .. n
    BY <1>0
  <2>3. IsList(g) /\ Len(g) = n
    <3>1. g = [i \in 1 .. n |-> g[i]] /\ \A i \in 1 .. n : g[i] \in {g[j] : j \in 1 .. n}
      BY <2>2
    <3> HIDE DEF g
    <3>2. g \in Seq({g[j] : j \in 1 .. n}) /\ Len(g) = n
      BY <2>2, <3>1
    <3> QED BY <3>2 DEF IsList
  <2>4. loop'.at = "writing" /\ loop'.asked = queue /\ loop'.got = g
    BY <2>1
  <2> HIDE DEF g
  <2> QED BY <1>0, <2>3, <2>4 DEF LoopInv
<1> QED
  BY <1>1, <1>2, <1>3, <1>4, <1>5, <1>6
  DEF Next, vars, Tick, Foreign, Publish, StartTask, StepTask, ComesRound, Write, Executed, Rebuild, Regroup

LEMMA MessagesJoin ==
  ASSUME NEW q, Messages(q), NEW p, Messages(p)
  PROVE  Messages(q \o p)
<1> DEFINE n == Len(q)
           m == Len(p)
           j == q \o p
<1>1. IsList(q) /\ IsList(p)
  BY DEF Messages
<1>2. /\ IsList(j) /\ n \in Nat /\ m \in Nat /\ DOMAIN q = 1 .. n /\ DOMAIN p = 1 .. m /\ DOMAIN j = 1 .. n + m
      /\ \A i \in 1 .. n : j[i] = q[i]
  BY <1>1, ListJoin
<1>3. \A k \in 1 .. m : j[n + k] = p[k]
  <2>1. Behind(j, n, p)
    BY <1>1, ListBehind
  <2> QED BY <2>1 DEF Behind
<1>4. /\ \A i \in 1 .. n : q[i].device \in Shown /\ DOMAIN q[i].puts \subseteq ShownFields
      /\ \A i \in 1 .. m : p[i].device \in Shown /\ DOMAIN p[i].puts \subseteq ShownFields
  BY <1>2 DEF Messages
<1> HIDE DEF n, m, j
<1>5. ASSUME NEW i \in 1 .. n + m PROVE j[i].device \in Shown /\ DOMAIN j[i].puts \subseteq ShownFields
  <2>1. CASE i \in 1 .. n
    BY <1>2, <1>4, <2>1
  <2>2. CASE i \notin 1 .. n
    <3>1. PICK k \in 1 .. m : i = n + k
      <4>1. i - n \in 1 .. m /\ i = n + (i - n)
        BY <1>2, <2>2
      <4> QED BY <4>1
    <3> QED BY <1>3, <1>4, <3>1
  <2> QED BY <2>1, <2>2
<1>6. Messages(j)
  BY <1>2, <1>5 DEF Messages
<1> QED BY <1>6 DEF j

(* Of what the group mirrors, a step that publishes nothing changes nothing.    *)
LEMMA MirrorsKept ==
  ASSUME WireInv, SameShown(ctl, ctl'), UNCHANGED <<wire, outbox>>
  PROVE  WireInv'
<1>1. ASSUME NEW d \in D, NEW f \in Mirrored
      PROVE  Ends(wire'[d][f], outbox', d, f, ctl'[d][f])
  <2>1. Ends(wire[d][f], outbox, d, f, ctl[d][f])
    BY <1>1 DEF WireInv
  <2>2. ctl'[d][f] = ctl[d][f]
    BY <1>1 DEF SameShown, Mirrored
  <2> QED BY <2>1, <2>2
<1> QED BY <1>1, Zenon DEF WireInv

(* What is first in line is published.                                          *)
LEMMA PublishIs ==
  ASSUME WireInv, Publish, NEW d \in D
  PROVE  /\ DOMAIN wire'[d] = ShownFields
         /\ \A f \in ShownFields : \A v : Ends(wire[d][f], outbox, d, f, v) => Ends(wire'[d][f], outbox', d, f, v)
<1> DEFINE o == outbox[1]
           q == outbox
<1>1. IsList(q) /\ q # <<>> /\ \A j \in DOMAIN q : q[j].device \in Shown /\ DOMAIN q[j].puts \subseteq ShownFields
  BY DEF WireInv, Messages, Publish
<1>2. 1 \in DOMAIN q /\ Head(q) = o
  BY <1>1, ListTail
<1>3. o.device \in Shown /\ DOMAIN o.puts \subseteq ShownFields
  BY <1>1, <1>2
<1>4. wire' = [wire EXCEPT ![Group] = Over(o.group, @), ![o.device] = Over(o.puts, @)] /\ outbox' = Tail(q)
  BY <1>2 DEF Publish
<1>5. d # Group /\ d \in Shown /\ DOMAIN wire = Shown /\ DOMAIN wire[d] = ShownFields
  BY DevicesAssumption DEF Shown, WireInv
<1> HIDE DEF o, q
<1>6. wire'[d] = IF o.device = d THEN Over(o.puts, wire[d]) ELSE wire[d]
  BY <1>3, <1>4, <1>5
<1>7. o.device = d => /\ DOMAIN Over(o.puts, wire[d]) = ShownFields
                      /\ \A f \in ShownFields :
                           Over(o.puts, wire[d])[f] = IF f \in DOMAIN o.puts THEN o.puts[f] ELSE wire[d][f]
  BY <1>3, <1>5 DEF Over
<1>8. ASSUME NEW f \in ShownFields, NEW v, Ends(wire[d][f], q, d, f, v)
      PROVE  Ends(wire'[d][f], Tail(q), d, f, v)
  <2>1. wire'[d][f] = IF Puts(o, d, f) THEN o.puts[f] ELSE wire[d][f]
    BY <1>6, <1>7, <1>8 DEF Puts
  <2>2. Ends(IF Puts(o, d, f) THEN o.puts[f] ELSE wire[d][f], Tail(q), d, f, v)
    BY <1>1, <1>8, EndsTail DEF o, q
  <2> QED BY <2>1, <2>2
<1> QED BY <1>4, <1>5, <1>6, <1>7, <1>8 DEF q

LEMMA WireStep ==
  ASSUME Calm, SyncInv, [Next]_vars
  PROVE  WireInv'
<1>0. /\ LevelInv /\ GearInv /\ OrderInv /\ FreshInv /\ LoopInv /\ WireInv /\ DOMAIN ctl = D
      /\ \A d \in D : DOMAIN ctl[d] = ControlFields
      /\ Messages(outbox) /\ DOMAIN wire = Shown /\ \A d \in D : DOMAIN wire[d] = ShownFields
      /\ \A d \in D : \A f \in Mirrored : Ends(wire[d][f], outbox, d, f, ctl[d][f])
  BY DEF SyncInv, LevelInv, GroupInv, ControlShape, WireInv
<1>a. \A d \in D : d # Group /\ d \in Shown
  BY DevicesAssumption DEF Shown
<1>b. Mirrored \subseteq ShownFields /\ Mirrored \subseteq ControlFields
  BY DEF Mirrored, ShownFields, LevelF, OnF, ControlFields
<1>1. CASE UNCHANGED <<ctl, wire, outbox>>
  BY <1>0, <1>1, Zenon DEF WireInv
<1>2. CASE Tick
  <2>1. UNCHANGED <<wire, outbox>> /\ DOMAIN ctl' = D
    BY <1>2 DEF Tick
  <2>2. \A d \in D : \A f \in Mirrored : ctl'[d][f] = ctl[d][f]
    BY <1>0, <1>2, TickIs DEF Mirrored, ControlFields
  <2> QED BY <1>0, <2>1, <2>2, Zenon DEF WireInv
<1>3. CASE Publish
  <2>1. Messages(outbox')
    <3> DEFINE q == outbox
               n == Len(outbox)
    <3>1. IsList(q) /\ q # <<>> /\ \A j \in DOMAIN q : q[j].device \in Shown /\ DOMAIN q[j].puts \subseteq ShownFields
      BY <1>0, <1>3 DEF Messages, Publish
    <3>2. /\ IsList(Tail(q)) /\ n \in Nat \ {0} /\ DOMAIN q = 1 .. n /\ DOMAIN Tail(q) = 1 .. n - 1
          /\ \A i \in 1 .. n - 1 : Tail(q)[i] = q[i + 1]
      BY <3>1, ListTail
    <3> DEFINE t == Tail(q)
    <3> HIDE DEF t, q, n
    <3>3. ASSUME NEW j \in 1 .. n - 1 PROVE t[j].device \in Shown /\ DOMAIN t[j].puts \subseteq ShownFields
      <4>1. j + 1 \in DOMAIN q /\ t[j] = q[j + 1]
        BY <3>2 DEF t
      <4> QED BY <3>1, <4>1
    <3>4. DOMAIN t = 1 .. n - 1 /\ IsList(t)
      BY <3>2 DEF t
    <3>5. Messages(t)
      BY <3>3, <3>4 DEF Messages
    <3>6. outbox' = t
      BY <1>3 DEF Publish, t, q
    <3> QED BY <3>5, <3>6
  <2>2. DOMAIN wire' = Shown /\ ctl' = ctl
    BY <1>0, <1>3 DEF Publish
  <2>3. \A d \in D : DOMAIN wire'[d] = ShownFields
    BY <1>0, <1>3, PublishIs
  <2>4. ASSUME NEW d \in D, NEW f \in Mirrored PROVE Ends(wire'[d][f], outbox', d, f, ctl'[d][f])
    <3>1. Ends(wire[d][f], outbox, d, f, ctl[d][f])
      BY <1>0
    <3>2. f \in ShownFields
      BY <1>b
    <3>3. Ends(wire'[d][f], outbox', d, f, ctl[d][f])
      BY <1>0, <1>3, <3>1, <3>2, PublishIs
    <3> QED BY <2>2, <3>3
  <2> QED BY <2>1, <2>2, <2>3, <2>4, Zenon DEF WireInv
<1>4. ASSUME NEW x, NEW to, Handled(x, to) PROVE WireInv'
  <2>1. wire' = wire /\ Messages(outbox') /\ \A d \in D : \A f \in Mirrored : Ends(wire[d][f], outbox', d, f, ctl'[d][f])
    BY <1>4 DEF Handled, Applied
  <2> QED BY <1>0, <2>1, Zenon DEF WireInv
<1>5. CASE StartTask
  BY <1>0, <1>1, <1>4, <1>5, StartIs
<1>6. CASE StepTask
  BY <1>0, <1>4, <1>6, StepIs
<1>7. CASE ComesRound \/ PollStart
  <2>1. UNCHANGED <<wire, outbox>>
    BY <1>7 DEF ComesRound, PollStart
  <2>2. \A d \in D : \A f \in Mirrored : ctl'[d][f] = ctl[d][f]
    <3>1. CASE ComesRound
      <4>1. PICK e \in D : ctl' = [ctl EXCEPT ![e].due = 0]
        BY <3>1 DEF ComesRound
      <4> QED BY <1>0, <4>1 DEF Mirrored, ControlFields
    <3>2. CASE PollStart
      <4>1. \A d \in D : ctl'[d] = IF Due(d) THEN [ctl[d] EXCEPT !.due = Resync] ELSE ctl[d]
        BY <3>2 DEF PollStart
      <4>2. \A d \in D : \A f \in Mirrored : [ctl[d] EXCEPT !.due = Resync][f] = ctl[d][f]
        BY <1>0 DEF Mirrored, ControlFields
      <4> QED BY <4>1, <4>2
    <3> QED BY <1>7, <3>1, <3>2
  <2> QED BY <1>0, <2>1, <2>2, Zenon DEF WireInv
<1>8. CASE PollTell
  <2>1. wire' = wire
    BY <1>8 DEF PollTell
  <2>2. CASE ToldNext
    <3>1. Messages(outbox') /\ \A d \in D : \A f \in Mirrored : Ends(wire[d][f], outbox', d, f, ctl'[d][f])
      BY <2>2 DEF ToldNext, Dispatched
    <3> QED BY <1>0, <2>1, <3>1, Zenon DEF WireInv
  <2> QED BY <1>0, <1>1, <1>8, <2>1, <2>2, PollTellIs
<1>9. CASE Executed
  <2>1. PICK p : Wrote(p)
    BY <1>0, <1>9, ExecutedIs
  <2>2. wire' = wire /\ outbox' = outbox \o p /\ IsList(p) /\ Len(p) = Len(loop.asked)
    BY <1>9, <2>1 DEF Wrote, Executed
  <2>3. \A i \in 1 .. Len(p) : p[i].device = loop.asked[i] /\ DOMAIN p[i].puts = {"onerr"}
    BY <2>1 DEF Wrote
  <2>4. loop.asked \in Seq(Shown)
    BY <1>0, <1>9 DEF LoopInv, Executed
  <2>5. \A d \in D : \A f \in Mirrored : ctl'[d][f] = ctl[d][f]
    BY <2>1 DEF Wrote, Mirrored, ControlFields
  <2>6. ASSUME NEW d \in D, NEW f \in Mirrored PROVE Ends(wire'[d][f], outbox', d, f, ctl'[d][f])
    <3>1. Ends(wire[d][f], outbox, d, f, ctl[d][f]) /\ IsList(outbox)
      BY <1>0 DEF Messages
    <3>2. \A i \in 1 .. Len(p) : ~Puts(p[i], d, f)
      BY <2>3 DEF Puts, Mirrored
    <3>3. Ends(wire[d][f], outbox \o p, d, f, ctl[d][f])
      BY <2>2, <3>1, <3>2, EndsJoin
    <3> QED BY <2>2, <2>5, <3>3
  <2>7. Messages(outbox \o p)
    <3>1. \A i \in 1 .. Len(p) : p[i].device \in Shown /\ DOMAIN p[i].puts \subseteq ShownFields
      <4>1. \A i \in 1 .. Len(p) : loop.asked[i] \in Shown
        BY <2>2, <2>4
      <4>2. {"onerr"} \subseteq ShownFields
        BY DEF ShownFields, OnF
      <4> QED BY <2>3, <4>1, <4>2
    <3>2. DOMAIN p = 1 .. Len(p)
      BY <2>2, ListAppend
    <3>3. Messages(p)
      BY <2>2, <3>1, <3>2 DEF Messages
    <3> QED BY <1>0, <3>3, MessagesJoin
  <2> QED BY <1>0, <2>2, <2>6, <2>7, Zenon DEF WireInv
<1>10. CASE Rebuild
  <2>1. PICK e \in D : ctl' = [ctl EXCEPT ![e] = Carried(@)] /\ wire' = [wire EXCEPT ![e] = Fields(ctl[e])]
    BY <1>10 DEF Rebuild
  <2>2. outbox' = outbox /\ outbox = <<>>
    BY <1>10 DEF Rebuild
  <2>3. \A f \in Mirrored : Carried(ctl[e])[f] = ctl[e][f] /\ Fields(ctl[e])[f] = ctl[e][f]
    BY <1>0 DEF Carried, Fields, Mirrored, ControlFields, LevelF
  <2>4. DOMAIN wire' = Shown /\ \A d \in D : DOMAIN wire'[d] = ShownFields
    BY <1>0, <1>a, <2>1 DEF Fields, ShownFields
  <2>5. ASSUME NEW d \in D, NEW f \in Mirrored PROVE Ends(wire'[d][f], outbox', d, f, ctl'[d][f])
    <3>1. CASE d = e
      <4>1. wire'[d][f] = ctl[d][f] /\ ctl'[d][f] = ctl[d][f]
        BY <1>0, <1>a, <2>1, <2>3, <3>1
      <4> QED BY <2>2, <4>1 DEF Ends
    <3>2. CASE d # e
      <4>1. wire'[d] = wire[d] /\ ctl'[d] = ctl[d]
        BY <1>0, <1>a, <2>1, <3>2
      <4> QED BY <1>0, <2>2, <4>1
    <3> QED BY <3>1, <3>2
  <2> QED BY <1>0, <2>2, <2>4, <2>5, Zenon DEF WireInv
<1>11. CASE Regroup
  <2>1. ctl' = ctl /\ outbox' = outbox /\ \A d \in D : wire'[d] = wire[d] /\ DOMAIN wire' = DOMAIN wire
    BY <1>0, <1>a, <1>11 DEF Regroup
  <2>2. D # {} => DOMAIN wire' = Shown
    BY <1>0, <2>1
  <2>3. DOMAIN wire' = Shown
    BY <1>0, <1>11 DEF Regroup
  <2> QED BY <1>0, <2>1, <2>3, Zenon DEF WireInv
<1>12. CASE Foreign \/ Execute
  BY <1>0, <1>1, <1>12, Sent
<1> QED
  BY <1>1, <1>2, <1>3, <1>5, <1>6, <1>7, <1>8, <1>9, <1>10, <1>11, <1>12
  DEF Next, vars, PollAnswer, Write

(* What is known of d stays known: nothing about it changes, or is shown, but   *)
(* what was in line already.                                                    *)
Stays(d) ==
  /\ gear'[d].level = gear[d].level /\ \A f \in ShownFields : ctl'[d][f] = ctl[d][f]
  /\ \A f \in OnF : \A v : Ends(wire[d][f], outbox, d, f, v) => Ends(wire'[d][f], outbox', d, f, v)

LEMMA GoodKept ==
  ASSUME NEW d, Good(d), Stays(d), loop' = loop \/ loop'.at # "writing"
  PROVE  Good(d)'
<1>1. gear'[d].level = gear[d].level /\ Lit(d)' = Lit(d)
  BY DEF Stays, Lit
<1>2. /\ ctl'[d].level = ctl[d].level /\ ctl'[d].lerr = ctl[d].lerr /\ ctl'[d].wanted = ctl[d].wanted
      /\ ctl'[d].on = ctl[d].on /\ ctl'[d].onerr = ctl[d].onerr
  BY DEF Stays, ShownFields, LevelF, OnF
<1>3. \A v : Ends(wire[d].onerr, outbox, d, "onerr", v) => Ends(wire'[d].onerr, outbox', d, "onerr", v)
  BY DEF Stays, OnF
<1>4. \A v : Ends(wire[d].on, outbox, d, "on", v) => Ends(wire'[d].on, outbox', d, "on", v)
  BY DEF Stays, OnF
<1>5. ~ctl'[d].lerr => ctl'[d].level = gear'[d].level /\ ctl'[d].wanted = gear'[d].level
  BY <1>1, <1>2 DEF Good
<1>6. ctl'[d].onerr => Ends(wire'[d].onerr, outbox', d, "onerr", TRUE)
  BY <1>2, <1>3 DEF Good
<1>7. ~ctl'[d].onerr => ctl'[d].on = Lit(d)' /\ Ends(wire'[d].on, outbox', d, "on", Lit(d)')
  BY <1>1, <1>2, <1>4 DEF Good
<1>8. loop'.at = "writing" =>
        \A i \in 1 .. Len(loop'.asked) : loop'.asked[i] = d /\ loop'.got[i] # NoWrite
                                         => ~ctl'[d].onerr /\ (loop'.got[i] = "1") = Lit(d)'
  BY <1>1, <1>2 DEF Good
<1> QED BY <1>5, <1>6, <1>7, <1>8, Zenon DEF Good

LEMMA CoveredKept ==
  ASSUME NEW d, Covered(d), UNCHANGED <<frames, tasks, fade>>, gear'[d].ramp = gear[d].ramp, ctl'[d].due = ctl[d].due
  PROVE  Covered(d)'
BY Zenon DEF Covered, Pending, ToTell

LEMMA CalmedKept ==
  ASSUME NEW d, Calmed(d), ~Pending(d)', gear'[d].ramp = gear[d].ramp, ctl[d].due = First => ctl'[d].due = First,
         loop' = loop, Stays(d)
  PROVE  Calmed(d)'
<1>1. Good(d) => Good(d)'
  BY GoodKept
<1>2. Polled(d)' = Polled(d)
  BY DEF Polled
<1>3. ctl'[d].due = First \/ Polled(d)' \/ Good(d)'
  BY <1>1, <1>2 DEF Calmed
<1>4. gear'[d].level = gear[d].level /\ gear'[d].ramp = 0
  BY DEF Stays, Calmed
<1>5. loop'.at \in {"asking", "telling"} =>
        \A i \in 1 .. Len(loop'.got) : loop'.asked[i] = d => loop'.got[i] \in {Unknown, gear'[d].level}
  BY <1>4 DEF Calmed
<1> QED BY <1>3, <1>4, <1>5, Zenon DEF Calmed

Follows(d) == Covered(d) \/ Calmed(d)

LEMMA FollowsKept ==
  ASSUME NEW d, Follows(d), UNCHANGED <<frames, tasks, fade, loop>>, gear'[d].ramp = gear[d].ramp,
         ctl'[d].due = ctl[d].due, Stays(d)
  PROVE  Follows(d)'
<1>1. CASE Covered(d)
  BY <1>1, CoveredKept DEF Follows
<1>2. CASE Calmed(d)
  <2>1. Pending(d)' = Pending(d)
    BY DEF Pending, ToTell
  <2>2. ~Pending(d)'
    BY <1>2, <2>1 DEF Calmed
  <2> QED BY <1>2, <2>2, CalmedKept DEF Follows
<1> QED BY <1>1, <1>2 DEF Follows

(* Nothing seen, nothing to tell: only the poll can cover a light.              *)
LEMMA NothingPending ==
  ASSUME NEW d, frames = <<>>, tasks = <<>>
  PROVE  ~Pending(d) /\ (Covered(d) => ctl[d].due \in Nat /\ ctl[d].due >= gear[d].ramp)
<1>1. DOMAIN tasks = {} /\ Len(frames) = 0
  OBVIOUS
<1>2. ~ToTell(d) /\ Unmoved(frames, d) /\ ~Settles(frames, d, fade[d], gear[d].ramp)
  BY <1>1 DEF ToTell, Unmoved, Settles
<1> QED BY <1>1, <1>2 DEF Pending, Covered

LEMMA FollowTick ==
  ASSUME LevelInv, GearInv, Tick, NEW d \in D, Follows(d)
  PROVE  Follows(d)'
<1>1. frames = <<>> /\ tasks = <<>> /\ UNCHANGED <<frames, tasks, outbox, wire, loop>>
  BY DEF Tick
<1>2. /\ gear'[d].ramp = IF gear[d].ramp = 0 THEN 0 ELSE gear[d].ramp - 1
      /\ gear[d].ramp = 0 => gear'[d].level = gear[d].level
      /\ ctl'[d].due = IF ctl[d].due > 0 THEN ctl[d].due - 1 ELSE ctl[d].due
      /\ \A f \in ControlFields \ {"due"} : ctl'[d][f] = ctl[d][f]
  BY TickIs
<1>3. gear[d].ramp \in Nat
  BY DEF GearInv, Sound
<1>4. ~Pending(d) /\ ~Pending(d)'
  <2>1. ~Pending(d)
    BY <1>1, NothingPending
  <2> QED BY <1>1, <2>1 DEF Pending, ToTell
<1>5. CASE Covered(d)
  <2>1. ctl[d].due \in Nat /\ ctl[d].due >= gear[d].ramp
    BY <1>1, <1>5, NothingPending
  <2>2. ctl'[d].due \in Nat /\ ctl'[d].due >= gear'[d].ramp
    BY <1>2, <1>3, <2>1
  <2> QED BY <1>4, <2>2 DEF Follows, Covered
<1>6. CASE Calmed(d)
  <2>1. gear[d].ramp = 0
    BY <1>6 DEF Calmed
  <2>2. gear'[d].ramp = gear[d].ramp /\ gear'[d].level = gear[d].level
    BY <1>2, <2>1
  <2>3. ShownFields \subseteq ControlFields \ {"due"}
    BY DEF ShownFields, ControlFields, LevelF, OnF
  <2>4. Stays(d)
    BY <1>1, <1>2, <2>2, <2>3 DEF Stays
  <2>5. ctl[d].due = First => ctl'[d].due = First
    BY <1>2 DEF First
  <2> QED BY <1>1, <1>4, <1>6, <2>2, <2>4, <2>5, CalmedKept DEF Follows
<1> QED BY <1>5, <1>6 DEF Follows

LEMMA FollowSent ==
  ASSUME Calm, SyncInv, Foreign \/ Execute, NEW d \in D, Follows(d)
  PROVE  Follows(d)'
<1>0. /\ LevelInv /\ GearInv /\ OrderInv /\ FreshInv /\ LoopInv /\ frames \in Seq(Commands)
      /\ UNCHANGED <<fade, ctl, tasks, wire, outbox>>
  <2>1. LevelInv /\ GearInv /\ OrderInv /\ FreshInv /\ LoopInv
    BY DEF SyncInv
  <2>2. frames \in Seq(Commands)
    BY <2>1 DEF LevelInv, ListsInv
  <2>3. UNCHANGED <<fade, ctl, tasks, wire, outbox>>
    BY <2>1, Sent
  <2> QED BY <2>1, <2>2, <2>3
<1>1. ASSUME gear'[d].level = gear[d].level PROVE Stays(d)
  BY <1>0, <1>1 DEF Stays
<1>2. CASE Foreign /\ frames' = frames /\ \A x \in D : gear'[x] = gear[x]
  <2>1. loop' = loop
    BY <1>2 DEF Foreign
  <2>2. Stays(d)
    BY <1>1, <1>2
  <2> QED BY <1>0, <1>2, <2>1, <2>2, FollowsKept
<1>3. ASSUME NEW cs \in Tidied, WideLast(cs), Send(cs),
             \/ loop' = loop
             \/ (\A j \in 1 .. Len(cs) : ~Moves(cs[j], d)) /\ Good(d)
                => loop.at = "idle" /\ ctl[d].due # First /\ loop'.at = "writing" /\ (gear'[d].level = gear[d].level => Good(d)')
      PROVE  Follows(d)'
  <2>1. /\ tasks = <<>>
        /\ \/ Settles(frames', d, fade[d], gear'[d].ramp)
           \/ /\ ~Settles(frames, d, fade[d], gear[d].ramp)
              /\ \A j \in 1 .. Len(cs) : ~Moves(cs[j], d)
              /\ Unmoved(frames, d) => Unmoved(frames', d)
              /\ gear'[d].level = gear[d].level /\ gear'[d].ramp = gear[d].ramp
    BY <1>0, <1>3, SendIs
  <2>2. CASE Settles(frames', d, fade[d], gear'[d].ramp)
    BY <1>0, <2>2 DEF Follows, Covered
  <2>3. CASE /\ ~Settles(frames, d, fade[d], gear[d].ramp)
             /\ \A j \in 1 .. Len(cs) : ~Moves(cs[j], d)
             /\ Unmoved(frames, d) => Unmoved(frames', d)
             /\ gear'[d].level = gear[d].level /\ gear'[d].ramp = gear[d].ramp
    <3>1. ~ToTell(d) /\ ~ToTell(d)'
      BY <1>0, <2>1 DEF ToTell
    <3>2. ~Pending(d) => ~Pending(d)'
      BY <2>3, <3>1 DEF Pending
    <3>3. CASE Covered(d)
      <4>1. ~Pending(d) /\ ctl[d].due \in Nat /\ ctl[d].due >= gear[d].ramp
        BY <2>1, <2>3, <3>3 DEF Covered
      <4> QED BY <1>0, <2>3, <3>2, <4>1 DEF Follows, Covered
    <3>4. CASE Calmed(d)
      <4>1. ~Pending(d)' /\ Stays(d)
        BY <1>1, <2>3, <3>2, <3>4 DEF Calmed
      <4>2. CASE loop' = loop
        <5>1. ctl[d].due = First => ctl'[d].due = First
          BY <1>0
        <5> QED BY <2>3, <3>4, <4>1, <4>2, <5>1, CalmedKept DEF Follows
      <4>3. CASE loop' # loop
        <5>1. gear'[d].ramp = 0 /\ ctl'[d].due = ctl[d].due
          BY <1>0, <2>3, <3>4 DEF Calmed
        <5>2. CASE Good(d)
          <6>1. loop'.at = "writing" /\ Good(d)'
            BY <1>3, <2>3, <4>3, <5>2
          <6> QED BY <4>1, <5>1, <6>1 DEF Follows, Calmed
        <5>3. CASE ~Good(d)
          <6>1. Execute
            BY <4>3 DEF Foreign
          <6>2. loop = Idle /\ queue # <<>>
            BY <6>1 DEF Execute
          <6>3. ~Polled(d)
            BY <6>2 DEF Polled, Idle
          <6>4. ctl[d].due = First
            BY <3>4, <5>3, <6>3 DEF Calmed
          <6>5. Fresh
            BY <6>4 DEF Fresh
          <6> QED BY <1>0, <6>2, <6>5 DEF FreshInv
        <5> QED BY <5>2, <5>3
      <4> QED BY <4>2, <4>3
    <3> QED BY <3>3, <3>4 DEF Follows
  <2> QED BY <2>1, <2>2, <2>3
<1>4. CASE Foreign
  <2>1. CASE \E cs \in Tidied : WideLast(cs) /\ Send(cs)
    <3>1. PICK cs \in Tidied : WideLast(cs) /\ Send(cs)
      BY <2>1
    <3>2. loop' = loop
      BY <1>4 DEF Foreign
    <3> QED BY <1>3, <3>1, <3>2
  <2> QED BY <1>0, <1>2, <1>4, <2>1, ForeignIs
<1>5. CASE Execute
  <2>1. PICK cs \in Tidied, lost \in {0} \cup DOMAIN queue :
           /\ WideLast(cs) /\ Send(cs)
           /\ loop' = [at |-> "writing", asked |-> queue,
                       got |-> [i \in DOMAIN queue |-> IF i = lost THEN NoWrite ELSE want[queue[i]]]]
           /\ \A i \in DOMAIN queue : queue[i] \in D /\ i # lost =>
                (\E c \in Range(cs) : Moves(c, queue[i]))
                \/ (~ctl[queue[i]].onerr /\ ctl[queue[i]].on = (want[queue[i]] = "1"))
    BY <1>0, <1>5, ExecuteIs
  <2>2. /\ loop'.at = "writing" /\ loop'.asked = queue /\ DOMAIN queue = 1 .. Len(queue)
        /\ \A i \in DOMAIN queue : loop'.got[i] = IF i = lost THEN NoWrite ELSE want[queue[i]]
    BY <1>0, <2>1 DEF LevelInv, ListsInv
  <2>3. loop.at = "idle" /\ ctl[d].due # First
    <3>1. loop = Idle /\ queue # <<>>
      BY <1>5 DEF Execute
    <3>2. ~Fresh
      BY <1>0, <3>1 DEF FreshInv
    <3> QED BY <3>1, <3>2 DEF Idle, Fresh
  <2>4. ASSUME \A j \in 1 .. Len(cs) : ~Moves(cs[j], d), Good(d), gear'[d].level = gear[d].level
        PROVE  Good(d)'
    <3>1. \A c \in Range(cs) : ~Moves(c, d)
      <4>1. cs \in Seq(Commands)
        BY DEF Tidied
      <4>2. DOMAIN cs = 1 .. Len(cs)
        BY <4>1
      <4> QED BY <2>4, <4>2 DEF Range
    <3>2. Lit(d)' = Lit(d)
      BY <2>4 DEF Lit
    <3>3. ~ctl[d].onerr => ctl[d].on = Lit(d)
      BY <2>4 DEF Good
    <3>4. ASSUME NEW i \in 1 .. Len(loop'.asked), loop'.asked[i] = d, loop'.got[i] # NoWrite
          PROVE  ~ctl'[d].onerr /\ (loop'.got[i] = "1") = Lit(d)'
      <4>1. i \in DOMAIN queue /\ queue[i] = d /\ i # lost /\ loop'.got[i] = want[d]
        BY <2>2, <3>4
      <4>2. ~ctl[d].onerr /\ ctl[d].on = (want[d] = "1")
        BY <2>1, <3>1, <4>1
      <4>3. ctl'[d].onerr = ctl[d].onerr
        BY <1>0
      <4> QED BY <3>2, <3>3, <4>1, <4>2, <4>3
    <3>5. ~ctl'[d].lerr => ctl'[d].level = gear'[d].level /\ ctl'[d].wanted = gear'[d].level
      BY <1>0, <2>4 DEF Good
    <3>6. ctl'[d].onerr => Ends(wire'[d].onerr, outbox', d, "onerr", TRUE)
      BY <1>0, <2>4 DEF Good
    <3>7. ~ctl'[d].onerr => ctl'[d].on = Lit(d)' /\ Ends(wire'[d].on, outbox', d, "on", Lit(d)')
      BY <1>0, <2>4, <3>2 DEF Good
    <3> QED BY <3>4, <3>5, <3>6, <3>7, Zenon DEF Good
  <2> QED BY <1>3, <2>1, <2>2, <2>3, <2>4
<1> QED BY <1>4, <1>5

(* A light whose turn comes is told, or will be polled once it has settled.     *)
LEMMA HandledTold ==
  ASSUME NEW x, NEW to, Handled(x, to), fade \in [D -> Nat], GearInv, NEW d \in D, d \in Range(to), Unmoved(frames', d),
         SettleFor(Basis(x.op), fade[d]) > gear[d].ramp
  PROVE  Covered(d)'
<1>1. UNCHANGED <<gear, fade>> /\ SettleFor(Basis(x.op), fade[d]) \in Nat /\ gear[d].ramp \in Nat
  BY SettleNat DEF Handled, GearInv, Sound
<1>2. CASE \E i \in DOMAIN tasks' : d \in Range(tasks'[i].todo) /\ tasks'[i].cmd = x
  BY <1>1, <1>2 DEF Covered
<1>3. CASE ~\E i \in DOMAIN tasks' : d \in Range(tasks'[i].todo) /\ tasks'[i].cmd = x
  <2>1. ~ToTell(d)' /\ d \notin Range(Rest(x, to))
    <3>1. CASE Rest(x, to) = <<>> /\ tasks' = <<>>
      <4>1. DOMAIN tasks' = {} /\ Range(Rest(x, to)) = {}
        BY <3>1 DEF Range
      <4> QED BY <4>1 DEF ToTell
    <3>2. CASE DOMAIN tasks' = {1} /\ tasks'[1].cmd = x /\ tasks'[1].todo = Rest(x, to)
      BY <1>3, <3>2 DEF ToTell
    <3> QED BY <3>1, <3>2 DEF Handled
  <2>2. ctl'[d].due = SettleFor(Basis(x.op), fade[d])
    BY <2>1 DEF Handled, Applied
  <2>3. ctl'[d].due \in Nat /\ ctl'[d].due >= gear'[d].ramp
    BY <1>1, <2>2
  <2> QED BY <2>1, <2>3 DEF Covered, Pending
<1> QED BY <1>2, <1>3

(* One that the command is not about does not notice.                           *)
LEMMA HandledApart ==
  ASSUME NEW x, NEW to, Handled(x, to), NEW d \in D, d \notin Range(to)
  PROVE  ~ToTell(d)' /\ ctl'[d] = ctl[d] /\ Stays(d) /\ UNCHANGED <<gear, fade, loop>>
<1>1. ctl'[d] = ctl[d] /\ Silent(d) /\ UNCHANGED <<gear, fade, loop, wire>>
  BY DEF Handled, Applied
<1>2. Stays(d)
  BY <1>1, Zenon DEF Stays, Silent
<1>3. Range(Rest(x, to)) \subseteq Range(to)
  <2>1. to \in Targets /\ to \in Seq(D)
    BY DEF Handled, Targets
  <2>2. Upto(x, to) \in 1 .. Len(to)
    BY <2>1, UptoIs
  <2> QED BY <2>1, <2>2, RangeCut DEF Rest
<1>4. ~ToTell(d)'
  <2>1. CASE tasks' = <<>>
    <3>1. DOMAIN tasks' = {}
      BY <2>1
    <3> QED BY <3>1 DEF ToTell
  <2>2. CASE DOMAIN tasks' = {1} /\ tasks'[1].todo = Rest(x, to)
    BY <1>3, <2>2 DEF ToTell
  <2> QED BY <2>1, <2>2 DEF Handled
<1> QED BY <1>1, <1>2, <1>4

LEMMA FollowStart ==
  ASSUME SyncInv, StartTask, NEW d \in D, Follows(d)
  PROVE  Follows(d)'
<1> DEFINE x == frames[1]
           F == frames
           r == gear[d].ramp
<1>0. /\ LevelInv /\ GearInv /\ OrderInv /\ FreshInv /\ WireInv /\ fade \in [D -> Nat] /\ F \in Seq(Commands)
  BY DEF SyncInv, GearInv, LevelInv, ListsInv
<1>1. /\ F # <<>> /\ frames' = Tail(F) /\ tasks = <<>> /\ x \in Commands
      /\ \/ x.op = "dtr0" /\ dtr' = x.v /\ UNCHANGED <<gear, fade, ctl, tasks, outbox, wire, loop, queue>>
         \/ /\ x.op = "fade" /\ fade' = [e \in D |-> IF e \in Range(x.to) THEN x.v ELSE fade[e]] /\ x.v \in Nat
            /\ UNCHANGED <<gear, dtr, ctl, tasks, outbox, wire, loop, queue>>
         \/ Handled(x, x.to)
  BY <1>0, StartIs
<1>2. ~ToTell(d)
  BY <1>1 DEF ToTell
<1>3. Unmoved(F, d) <=> Unmoved(Tail(F), d) /\ ~Moves(x, d)
  BY <1>0, <1>1, UnmovedTail
<1>4. Settles(F, d, fade[d], r) => \/ Settles(Tail(F), d, Faded(F, d, fade[d]), r)
                                   \/ Moves(x, d) /\ Unmoved(Tail(F), d) /\ SettleFor(Basis(x.op), fade[d]) > r
  BY <1>0, <1>1, SettlesTail
<1>5. gear' = gear
  BY <1>1 DEF Handled
<1>6. Covered(d) => Settles(F, d, fade[d], r) \/ (~Pending(d) /\ ctl[d].due \in Nat /\ ctl[d].due >= r)
  <2>1. DOMAIN tasks = {}
    BY <1>1
  <2> QED BY <2>1 DEF Covered
<1>7. CASE Moves(x, d)
  <2>1. Pending(d)
    BY <1>3, <1>7 DEF Pending
  <2>2. Settles(F, d, fade[d], r)
    BY <1>6, <2>1 DEF Follows, Calmed
  <2>3. Handled(x, x.to) /\ d \in Range(x.to) /\ x.op \in Light
    BY <1>1, <1>7 DEF Moves, Light
  <2>4. Faded(F, d, fade[d]) = fade'[d] /\ fade' = fade
    BY <2>3 DEF Faded, Fades, Light, Handled
  <2>5. CASE Settles(Tail(F), d, Faded(F, d, fade[d]), r)
    BY <1>1, <1>5, <2>4, <2>5 DEF Follows, Covered
  <2>6. CASE Unmoved(Tail(F), d) /\ SettleFor(Basis(x.op), fade[d]) > r
    <3>1. Unmoved(frames', d)
      BY <1>1, <2>6
    <3> QED BY <1>0, <2>3, <2>6, <3>1, HandledTold DEF Follows
  <2> QED BY <1>4, <2>2, <2>5, <2>6
<1>8. CASE ~Moves(x, d)
  <2>1. /\ ~ToTell(d)' /\ ctl'[d] = ctl[d] /\ Stays(d) /\ loop' = loop
        /\ Faded(F, d, fade[d]) = fade'[d]
    <3>1. CASE UNCHANGED <<gear, ctl, tasks, outbox, wire, loop>>
               /\ (\/ x.op = "dtr0" /\ fade' = fade
                   \/ x.op = "fade" /\ fade' = [e \in D |-> IF e \in Range(x.to) THEN x.v ELSE fade[e]])
      <4>1. ~ToTell(d)' /\ Stays(d)
        BY <1>2, <3>1, Zenon DEF ToTell, Stays
      <4>2. Faded(F, d, fade[d]) = fade'[d]
        BY <3>1 DEF Faded, Fades
      <4> QED BY <3>1, <4>1, <4>2
    <3>2. CASE Handled(x, x.to)
      <4>1. x.op \in Light /\ d \notin Range(x.to)
        BY <1>8, <3>2 DEF Handled, Moves
      <4>2. Faded(F, d, fade[d]) = fade'[d]
        BY <3>2, <4>1 DEF Faded, Fades, Light, Handled
      <4> QED BY <3>2, <4>1, <4>2, HandledApart
    <3> QED BY <1>1, <3>1, <3>2
  <2>2. ~Pending(d) => ~Pending(d)'
    BY <1>1, <1>3, <2>1 DEF Pending
  <2>3. CASE Settles(F, d, fade[d], r)
    BY <1>1, <1>4, <1>5, <1>8, <2>1, <2>3 DEF Follows, Covered
  <2>4. CASE ~Pending(d) /\ ctl[d].due \in Nat /\ ctl[d].due >= r
    BY <1>5, <2>1, <2>2, <2>4 DEF Follows, Covered
  <2>5. CASE Calmed(d)
    <3>1. ~Pending(d)' /\ gear'[d].ramp = gear[d].ramp
      BY <1>5, <2>2, <2>5 DEF Calmed
    <3> QED BY <2>1, <2>5, <3>1, CalmedKept DEF Follows
  <2> QED BY <1>6, <2>3, <2>4, <2>5 DEF Follows
<1> QED BY <1>7, <1>8

LEMMA FollowTask ==
  ASSUME SyncInv, StepTask, NEW d \in D, Follows(d)
  PROVE  Follows(d)'
<1> DEFINE x  == tasks[1].cmd
           to == tasks[1].todo
<1>0. /\ LevelInv /\ GearInv /\ OrderInv /\ FreshInv /\ WireInv /\ fade \in [D -> Nat]
  BY DEF SyncInv, GearInv
<1>1. frames = <<>> /\ frames' = <<>> /\ DOMAIN tasks = {1} /\ Handled(x, to)
  BY <1>0, StepIs
<1>2. Unmoved(frames, d) /\ Unmoved(frames', d) /\ ~Settles(frames, d, fade[d], gear[d].ramp)
  <2>1. Len(frames) = 0 /\ Len(frames') = 0
    BY <1>1
  <2> QED BY <2>1 DEF Unmoved, Settles
<1>3. ToTell(d) <=> d \in Range(to)
  BY <1>1 DEF ToTell
<1>4. CASE d \in Range(to)
  <2>1. Pending(d)
    BY <1>3, <1>4 DEF Pending
  <2>2. SettleFor(Basis(x.op), fade[d]) > gear[d].ramp
    BY <1>1, <1>2, <2>1 DEF Follows, Covered, Calmed
  <2> QED BY <1>0, <1>1, <1>2, <1>4, <2>2, HandledTold DEF Follows
<1>5. CASE d \notin Range(to)
  <2>1. ~ToTell(d)' /\ ctl'[d] = ctl[d] /\ Stays(d) /\ UNCHANGED <<gear, fade, loop>>
    BY <1>1, <1>5, HandledApart
  <2>2. ~Pending(d)'
    BY <1>2, <2>1 DEF Pending
  <2>3. CASE Covered(d)
    <3>1. ctl[d].due \in Nat /\ ctl[d].due >= gear[d].ramp
      BY <1>1, <1>2, <1>5, <2>3 DEF Covered
    <3> QED BY <2>1, <2>2, <3>1 DEF Follows, Covered
  <2>4. CASE Calmed(d)
    BY <2>1, <2>2, <2>4, CalmedKept DEF Follows
  <2> QED BY <2>3, <2>4 DEF Follows
<1> QED BY <1>4, <1>5

LEMMA FollowPoll ==
  ASSUME SyncInv, PollStart, NEW d \in D, Follows(d)
  PROVE  Follows(d)'
<1>0. /\ DOMAIN ctl[d] = ControlFields /\ gear[d].ramp \in Nat
      /\ loop = Idle /\ UNCHANGED <<gear, fade, frames, tasks, outbox, wire>>
      /\ ctl'[d] = IF Due(d) THEN [ctl[d] EXCEPT !.due = Resync] ELSE ctl[d]
  BY DEF SyncInv, LevelInv, GroupInv, ControlShape, GearInv, Sound, PollStart
<1>1. loop'.at = "asking" /\ loop'.asked = InOrder({e \in D : Due(e)}) /\ loop'.got = <<>>
  BY DEF PollStart
<1>2. \A f \in ShownFields : ctl'[d][f] = ctl[d][f]
  BY <1>0 DEF ShownFields, LevelF, OnF, ControlFields
<1>3. Stays(d) /\ Pending(d)' = Pending(d) /\ ~Polled(d)
  <2>1. Stays(d)
    BY <1>0, <1>2, Zenon DEF Stays
  <2>2. Pending(d)' = Pending(d)
    BY <1>0 DEF Pending, ToTell
  <2> QED BY <1>0, <2>1, <2>2 DEF Polled, Idle
<1>4. \A i \in 1 .. Len(loop'.got) : FALSE
  BY <1>1
<1>5. CASE Due(d)
  <2>1. Polled(d)'
    <3>1. d \in {e \in D : Due(e)}
      BY <1>5
    <3>2. d \in Range(InOrder({e \in D : Due(e)}))
      BY <3>1, InOrderHolds
    <3> QED BY <1>1, <3>2 DEF Polled
  <2>2. ~Pending(d) /\ gear[d].ramp = 0 => Calmed(d)'
    BY <1>0, <1>3, <1>4, <2>1 DEF Calmed
  <2>3. CASE Calmed(d)
    BY <2>2, <2>3 DEF Follows, Calmed
  <2>4. CASE Covered(d) /\ ~(~Pending(d) /\ ctl[d].due \in Nat /\ ctl[d].due >= gear[d].ramp)
    BY <1>0, <2>4, Zenon DEF Follows, Covered
  <2>5. CASE ~Pending(d) /\ ctl[d].due \in Nat /\ ctl[d].due >= gear[d].ramp
    <3>1. ctl[d].due = 0
      BY <1>5, <2>5 DEF Due, First
    <3> QED BY <1>0, <2>2, <2>5, <3>1 DEF Follows
  <2> QED BY <2>3, <2>4, <2>5 DEF Follows
<1>6. CASE ~Due(d)
  <2>1. CASE Covered(d)
    BY <1>0, <1>6, <2>1, CoveredKept DEF Follows
  <2>2. CASE Calmed(d)
    <3>1. Good(d)
      BY <1>3, <1>6, <2>2 DEF Calmed, Due
    <3>2. Good(d)'
      BY <1>1, <1>3, <3>1, GoodKept
    <3> QED BY <1>0, <1>3, <1>4, <2>2, <3>2 DEF Follows, Calmed
  <2> QED BY <2>1, <2>2 DEF Follows
<1> QED BY <1>5, <1>6

LEMMA FollowAnswer ==
  ASSUME SyncInv, PollAnswer, NEW d \in D, Follows(d)
  PROVE  Follows(d)'
<1>0. UNCHANGED <<gear, fade, ctl, frames, tasks, outbox, wire>> /\ loop.at = "asking"
  BY DEF PollAnswer
<1> DEFINE g == loop.got
           n == Len(loop.got)
           s == loop.asked
<1>1. DOMAIN loop = {"at", "asked", "got"} /\ IsList(g) /\ s \in Seq(D) /\ n < Len(s)
  BY <1>0 DEF SyncInv, LoopInv, LevelInv, ListsInv
<1>2. PICK y, a : /\ loop' = [loop EXCEPT !.got = Append(g, y), !.at = a] /\ a \in {"asking", "telling"}
                  /\ y \in {Unknown, gear[s[n + 1]].level}
  BY DEF PollAnswer
<1>3. loop'.at \in {"asking", "telling"} /\ loop'.asked = s /\ loop'.got = Append(g, y)
  BY <1>1, <1>2
<1>4. /\ n \in Nat /\ Len(Append(g, y)) = n + 1 /\ Append(g, y)[n + 1] = y
      /\ \A i \in 1 .. n : Append(g, y)[i] = g[i]
  BY <1>1, ListAppend
<1> HIDE DEF g, n, s
<1>5. CASE Covered(d)
  BY <1>0, <1>5, CoveredKept DEF Follows
<1>6. CASE Calmed(d)
  <2>1. ASSUME NEW i \in 1 .. Len(loop'.got), loop'.asked[i] = d
        PROVE  loop'.got[i] \in {Unknown, gear'[d].level}
    <3>1. CASE i \in 1 .. n
      <4>1. g[i] \in {Unknown, gear[d].level}
        BY <1>0, <1>3, <1>6, <2>1, <3>1 DEF Calmed, g, n, s
      <4> QED BY <1>0, <1>3, <1>4, <3>1, <4>1
    <3>2. CASE i \notin 1 .. n
      <4>1. i = n + 1
        BY <1>3, <1>4, <2>1, <3>2
      <4>2. loop'.got[i] = y /\ s[n + 1] = d
        BY <1>3, <1>4, <2>1, <4>1
      <4> QED BY <1>0, <1>2, <4>2
    <3> QED BY <3>1, <3>2
  <2>2. Stays(d)
    BY <1>0 DEF Stays
  <2>3. Polled(d) => Polled(d)'
    BY <1>0, <1>3 DEF Polled, s
  <2>4. Good(d) => Good(d)'
    BY <1>3, <2>2, GoodKept
  <2>5. ~Pending(d)' /\ gear'[d].ramp = 0
    BY <1>0, <1>6 DEF Calmed, Pending, ToTell
  <2>6. ctl'[d].due = First \/ Polled(d)' \/ Good(d)'
    BY <1>0, <1>6, <2>3, <2>4 DEF Calmed
  <2> QED BY <2>1, <2>5, <2>6 DEF Follows, Calmed
<1> QED BY <1>5, <1>6 DEF Follows

(* What the gear of d has just answered is all there is to know about it.       *)
LEMMA ReadIsGood ==
  ASSUME LevelInv, NEW d \in D, NEW l, Dispatched(ctl, d, ReadEvent(l)), l \in {Unknown, gear'[d].level},
         loop'.at # "writing"
  PROVE  Good(d)'
<1> DEFINE e == ReadEvent(l)
           c == ctl[d]
<1>1. DOMAIN c = ControlFields
  BY DEF LevelInv, GroupInv, ControlShape
<1>2. e.read /\ e.failed = (l = Unknown) /\ e.raw = l /\ e.settle = NoTime
  BY DEF ReadEvent
<1>3. ctl'[d] = Notify(c, e) /\ \A f \in Changed(c, e) : \A w : Ends(w, outbox', d, f, ctl'[d][f])
  BY DEF Dispatched
<1> HIDE DEF e, c
<1>4. Takes(e, c.lerr) /\ Takes(e, c.onerr)
  BY <1>2 DEF Takes
<1>5. OnF \subseteq Changed(c, e)
  BY <1>4 DEF Changed
<1>6. Ends(wire'[d].onerr, outbox', d, "onerr", ctl'[d].onerr) /\ Ends(wire'[d].on, outbox', d, "on", ctl'[d].on)
  BY <1>3, <1>5 DEF OnF
<1> DEFINE n == Notify(c, e)
<1>7. CASE l = Unknown
  <2>1. n.lerr = TRUE
    BY <1>1, <1>2, <1>4, <1>7, NotifyIs
  <2>2. n.onerr = TRUE
    BY <1>1, <1>2, <1>4, <1>7, NotifyRest
  <2> HIDE DEF n
  <2>3. ctl'[d].lerr = TRUE /\ ctl'[d].onerr = TRUE
    BY <1>3, <2>1, <2>2 DEF n
  <2>4. Ends(wire'[d].onerr, outbox', d, "onerr", TRUE)
    BY <1>6, <2>3
  <2> QED BY <2>3, <2>4 DEF Good
<1>8. CASE l # Unknown
  <2>1. n.level = l /\ n.lerr = FALSE /\ n.wanted = l
    BY <1>1, <1>2, <1>4, <1>8, NotifyIs
  <2>2. n.on = (l # 0) /\ n.onerr = FALSE
    BY <1>1, <1>2, <1>4, <1>8, NotifyRest
  <2> HIDE DEF n
  <2>3. ctl'[d].level = l /\ ctl'[d].wanted = l /\ ctl'[d].onerr = FALSE /\ ctl'[d].on = (l # 0) /\ l = gear'[d].level
    BY <1>3, <1>8, <2>1, <2>2 DEF n
  <2>4. ctl'[d].on = Lit(d)'
    BY <2>3 DEF Lit
  <2>5. Ends(wire'[d].on, outbox', d, "on", Lit(d)')
    BY <1>6, <2>4
  <2> QED BY <2>3, <2>4, <2>5 DEF Good
<1> QED BY <1>7, <1>8

LEMMA FollowTell ==
  ASSUME SyncInv, PollTell, NEW d \in D, Follows(d)
  PROVE  Follows(d)'
<1>0. /\ LevelInv /\ LoopInv /\ WireInv /\ DOMAIN loop = {"at", "asked", "got"}
      /\ UNCHANGED <<gear, fade, frames, tasks, wire>> /\ loop.at = "telling" /\ IsList(loop.got)
      /\ Len(loop.got) = Len(loop.asked)
  BY DEF SyncInv, LevelInv, ListsInv, PollTell, LoopInv
<1>1. Pending(d)' = Pending(d)
  BY <1>0 DEF Pending, ToTell
<1>2. CASE loop.asked = <<>> /\ loop' = Idle /\ UNCHANGED <<ctl, outbox>>
  <2>1. CASE Covered(d)
    BY <1>0, <1>2, <2>1, CoveredKept DEF Follows
  <2>2. CASE Calmed(d)
    <3>1. ~Polled(d)
      BY <1>2 DEF Polled, Range
    <3>2. loop'.at = "idle"
      BY <1>2 DEF Idle
    <3>3. Stays(d)
      BY <1>0, <1>2 DEF Stays
    <3>4. Good(d) => Good(d)'
      BY <3>2, <3>3, GoodKept
    <3> QED BY <1>0, <1>1, <1>2, <2>2, <3>1, <3>2, <3>4 DEF Follows, Calmed
  <2> QED BY <2>1, <2>2 DEF Follows
<1>3. CASE ToldNext
  <2> DEFINE h == loop.asked[1]
             l == loop.got[1]
             s == loop.asked
             g == loop.got
  <2>1. /\ s # <<>> /\ s \in Seq(D) /\ g # <<>> /\ h \in D /\ Dispatched(ctl, h, ReadEvent(l))
        /\ loop' = [loop EXCEPT !.asked = Tail(@), !.got = Tail(@)] /\ \A x \in D : ctl'[x].due = ctl[x].due
    BY <1>3 DEF ToldNext
  <2>2. loop'.at = "telling" /\ loop'.asked = Tail(s) /\ loop'.got = Tail(g)
    BY <1>0, <2>1
  <2>3. CASE Covered(d)
    BY <1>0, <2>1, <2>3, CoveredKept DEF Follows
  <2>4. CASE Calmed(d)
    <3> DEFINE n == Len(s)
    <3>1. /\ n \in Nat \ {0} /\ DOMAIN s = 1 .. n /\ DOMAIN Tail(s) = 1 .. n - 1
          /\ \A i \in 1 .. n - 1 : Tail(s)[i] = s[i + 1]
      BY <2>1
    <3>2. Len(g) = n /\ Len(Tail(g)) = n - 1 /\ \A i \in 1 .. n - 1 : Tail(g)[i] = g[i + 1]
      BY <1>0, <2>1, ListTail
    <3>3. \A i \in 1 .. n : s[i] = d => g[i] \in {Unknown, gear[d].level}
      BY <1>0, <2>4, <3>2 DEF Calmed
    <3> DEFINE ts == Tail(s)
               tg == Tail(g)
    <3> HIDE DEF s, g, n, ts, tg
    <3>4. ASSUME NEW i \in 1 .. Len(loop'.got), loop'.asked[i] = d
          PROVE  loop'.got[i] \in {Unknown, gear'[d].level}
      <4>1. i \in 1 .. n - 1 /\ i + 1 \in 1 .. n
        BY <2>2, <3>1, <3>2, <3>4 DEF tg
      <4>2. ts[i] = s[i + 1] /\ tg[i] = g[i + 1]
        BY <3>1, <3>2, <4>1 DEF ts, tg
      <4>3. s[i + 1] = d
        BY <2>2, <3>4, <4>2 DEF ts
      <4>4. PICK j \in 1 .. n : j = i + 1
        BY <4>1
      <4>5. g[j] \in {Unknown, gear[d].level}
        BY <3>3, <4>3, <4>4
      <4> QED BY <1>0, <2>2, <4>2, <4>4, <4>5 DEF tg
    <3>5. CASE d = h
      <4>1. l \in {Unknown, gear'[d].level}
        <5>1. PICK i \in 1 .. n : i = 1
          BY <3>1
        <5> QED BY <1>0, <3>3, <3>5, <5>1 DEF s, g
      <4>2. Good(d)'
        BY <1>0, <2>1, <2>2, <3>5, <4>1, ReadIsGood
      <4> QED BY <1>0, <1>1, <2>4, <3>4, <4>2 DEF Follows, Calmed
    <3>6. CASE d # h
      <4>1. ctl'[d] = ctl[d] /\ Silent(d)
        BY <2>1, <3>6 DEF Dispatched
      <4>2. Stays(d)
        BY <1>0, <4>1, Zenon DEF Stays, Silent
      <4>3. Good(d) => Good(d)'
        BY <2>2, <4>2, GoodKept
      <4>4. Polled(d) => Polled(d)'
        <5>1. ASSUME Polled(d) PROVE d \in Range(ts)
          <6>1. PICK i \in 1 .. n : s[i] = d
            BY <3>1, <5>1 DEF Polled, Range, s
          <6>2. i # 1
            BY <3>6, <6>1 DEF s
          <6>3. i - 1 \in 1 .. n - 1 /\ i - 1 + 1 = i
            BY <3>1, <6>2
          <6>4. ts[i - 1] = s[i]
            BY <3>1, <6>3 DEF ts
          <6> QED BY <3>1, <6>1, <6>3, <6>4 DEF ts, Range
        <5> QED BY <2>2, <5>1 DEF Polled, ts
      <4>5. ctl'[d].due = First \/ Polled(d)' \/ Good(d)'
        BY <2>4, <4>1, <4>3, <4>4 DEF Calmed
      <4> QED BY <1>0, <1>1, <2>4, <3>4, <4>5 DEF Follows, Calmed
    <3> QED BY <3>5, <3>6
  <2> QED BY <2>3, <2>4 DEF Follows
<1> QED BY <1>0, <1>2, <1>3, PollTellIs

LEMMA FollowWrote ==
  ASSUME SyncInv, Executed, NEW d \in D, Follows(d)
  PROVE  Follows(d)'
<1>0. /\ LevelInv /\ LoopInv /\ WireInv /\ UNCHANGED <<gear, fade, frames, tasks, wire>> /\ loop' = Idle
      /\ loop.at = "writing" /\ IsInjective(loop.asked) /\ loop.asked \in Seq(Shown) /\ IsList(outbox)
  BY DEF SyncInv, Executed, LoopInv, WireInv, Messages
<1>1. PICK p : Wrote(p)
  BY <1>0, ExecutedIs
<1> DEFINE s == loop.asked
           g == loop.got
           n == Len(loop.asked)
<1>2. /\ DOMAIN ctl'[d] = ControlFields /\ \A f \in ControlFields \ {"on"} : ctl'[d][f] = ctl[d][f]
      /\ (\A i \in 1 .. n : s[i] = d /\ g[i] # NoWrite => ctl'[d].on = (g[i] = "1"))
      /\ (\A i \in 1 .. n : s[i] = d => g[i] = NoWrite) => ctl'[d].on = ctl[d].on
      /\ IsList(p) /\ Len(p) = n /\ outbox' = outbox \o p
      /\ \A i \in 1 .. n : p[i].device = s[i] /\ p[i].puts = [onerr |-> g[i] = NoWrite]
  <2>1. \A i \in 1 .. n : s[i] = d /\ g[i] # NoWrite => ctl'[d].on = (g[i] = "1")
    BY <1>1 DEF Wrote
  <2>2. /\ DOMAIN ctl'[d] = ControlFields /\ \A f \in ControlFields \ {"on"} : ctl'[d][f] = ctl[d][f]
        /\ (\A i \in 1 .. n : s[i] = d => g[i] = NoWrite) => ctl'[d].on = ctl[d].on
    BY <1>1, Zenon DEF Wrote
  <2>3. /\ IsList(p) /\ Len(p) = n /\ outbox' = outbox \o p
        /\ \A i \in 1 .. Len(p) : p[i].device = s[i] /\ p[i].puts = [onerr |-> g[i] = NoWrite]
    BY <1>1, Zenon DEF Wrote
  <2>4. \A i \in 1 .. n : p[i].device = s[i] /\ p[i].puts = [onerr |-> g[i] = NoWrite]
    BY <2>3, Zenon
  <2> QED BY <2>1, <2>2, <2>3, <2>4, Zenon
<1>3. n \in Nat /\ DOMAIN s = 1 .. n /\ \A i, j \in 1 .. n : s[i] = s[j] => i = j
  BY <1>0 DEF IsInjective
<1> HIDE DEF s, g, n
<1>m. ASSUME NEW i \in 1 .. Len(p)
      PROVE  i \in 1 .. n /\ p[i].device = s[i] /\ DOMAIN p[i].puts = {"onerr"} /\ p[i].puts["onerr"] = (g[i] = NoWrite)
  <2>1. i \in 1 .. n
    BY <1>2
  <2>2. p[i].device = s[i] /\ p[i].puts = [onerr |-> g[i] = NoWrite]
    BY <1>2, <2>1
  <2>3. PICK b : b = (g[i] = NoWrite)
    OBVIOUS
  <2>4. p[i].puts = [onerr |-> b]
    BY <2>2, <2>3
  <2> QED BY <2>1, <2>2, <2>3, <2>4
<1>4. /\ ctl'[d].due = ctl[d].due /\ ctl'[d].level = ctl[d].level /\ ctl'[d].lerr = ctl[d].lerr
      /\ ctl'[d].wanted = ctl[d].wanted /\ ctl'[d].onerr = ctl[d].onerr
  BY <1>2 DEF ControlFields
<1>5. CASE Covered(d)
  BY <1>0, <1>4, <1>5, CoveredKept DEF Follows
<1>6. CASE Calmed(d)
  <2>1. ASSUME Good(d) PROVE Good(d)'
    <3>1. Lit(d)' = Lit(d) /\ gear'[d].level = gear[d].level
      BY <1>0 DEF Lit
    <3>2. \A i \in 1 .. n : s[i] = d /\ g[i] # NoWrite => ~ctl[d].onerr /\ (g[i] = "1") = Lit(d)
      BY <1>0, <2>1 DEF Good, s, g, n
    <3>3. ~ctl'[d].lerr => ctl'[d].level = gear'[d].level /\ ctl'[d].wanted = gear'[d].level
      BY <1>4, <2>1, <3>1 DEF Good
    <3>4. ASSUME ctl'[d].onerr PROVE Ends(wire'[d].onerr, outbox', d, "onerr", TRUE)
      <4>1. Ends(wire[d].onerr, outbox, d, "onerr", TRUE) /\ ctl[d].onerr
        BY <1>4, <2>1, <3>4 DEF Good
      <4>2. CASE \E i \in 1 .. n : s[i] = d
        <5>1. PICK i \in 1 .. n : s[i] = d
          BY <4>2
        <5>2. g[i] = NoWrite
          BY <3>2, <4>1, <5>1
        <5>3. i \in 1 .. Len(p) /\ Puts(p[i], d, "onerr") /\ p[i].puts["onerr"] = TRUE
          <6>1. i \in 1 .. Len(p)
            BY <1>2
          <6> QED BY <1>m, <5>1, <5>2, <6>1 DEF Puts
        <5>4. \A k \in 1 .. Len(p) : k # i => ~Puts(p[k], d, "onerr")
          BY <1>3, <1>m, <5>1 DEF Puts
        <5>5. Ends(wire[d].onerr, outbox \o p, d, "onerr", p[i].puts["onerr"])
          BY <1>0, <1>2, <5>3, <5>4, EndsIn
        <5> QED BY <1>0, <1>2, <5>3, <5>5
      <4>3. CASE ~\E i \in 1 .. n : s[i] = d
        <5>1. \A i \in 1 .. Len(p) : ~Puts(p[i], d, "onerr")
          BY <1>m, <4>3 DEF Puts
        <5>2. Ends(wire[d].onerr, outbox \o p, d, "onerr", TRUE)
          BY <1>0, <1>2, <4>1, <5>1, EndsJoin
        <5> QED BY <1>0, <1>2, <5>2
      <4> QED BY <4>2, <4>3
    <3>5. ASSUME ~ctl'[d].onerr PROVE ctl'[d].on = Lit(d)' /\ Ends(wire'[d].on, outbox', d, "on", Lit(d)')
      <4>1. ctl[d].on = Lit(d) /\ Ends(wire[d].on, outbox, d, "on", Lit(d))
        BY <1>4, <2>1, <3>5 DEF Good
      <4>2. ctl'[d].on = Lit(d)
        <5>1. CASE \A i \in 1 .. n : s[i] = d => g[i] = NoWrite
          BY <1>2, <4>1, <5>1
        <5>2. CASE ~\A i \in 1 .. n : s[i] = d => g[i] = NoWrite
          <6>1. PICK i \in 1 .. n : s[i] = d /\ g[i] # NoWrite
            BY <5>2
          <6> QED BY <1>2, <3>2, <6>1
        <5> QED BY <5>1, <5>2
      <4>3. \A i \in 1 .. Len(p) : ~Puts(p[i], d, "on")
        BY <1>m DEF Puts
      <4>4. Ends(wire[d].on, outbox \o p, d, "on", Lit(d))
        BY <1>0, <1>2, <4>1, <4>3, EndsJoin
      <4> QED BY <1>0, <1>2, <3>1, <4>2, <4>4
    <3>6. loop'.at # "writing"
      BY <1>0 DEF Idle
    <3> QED BY <3>3, <3>4, <3>5, <3>6, Zenon DEF Good
  <2>2. ~Polled(d) /\ loop'.at = "idle"
    BY <1>0 DEF Polled, Idle
  <2>3. ~Pending(d)' /\ gear'[d].ramp = 0
    BY <1>0, <1>6 DEF Calmed, Pending, ToTell
  <2>4. ctl'[d].due = First \/ Polled(d)' \/ Good(d)'
    BY <1>4, <1>6, <2>1, <2>2 DEF Calmed
  <2> QED BY <2>2, <2>3, <2>4 DEF Follows, Calmed
<1> QED BY <1>5, <1>6 DEF Follows

LEMMA FollowRebuild ==
  ASSUME Calm, SyncInv, Rebuild, NEW d \in D, Follows(d)
  PROVE  Follows(d)'
<1>0. /\ DOMAIN ctl = D /\ DOMAIN ctl[d] = ControlFields /\ DOMAIN wire = Shown /\ d \in Shown
      /\ frames = <<>> /\ tasks = <<>> /\ loop = Idle /\ ctl[d].due \in {Resync, First}
      /\ UNCHANGED <<gear, fade, frames, tasks, outbox, loop>>
  BY DEF SyncInv, LevelInv, GroupInv, ControlShape, WireInv, Shown, Rebuild, Steady
<1>1. ~Covered(d)
  BY <1>0, NothingPending DEF Resync, First
<1>2. Calmed(d)
  BY <1>1 DEF Follows
<1>3. ~Pending(d)' /\ gear'[d].ramp = 0
  BY <1>0, <1>2 DEF Calmed, Pending, ToTell
<1>4. PICK e \in D : ctl' = [ctl EXCEPT ![e] = Carried(@)] /\ wire' = [wire EXCEPT ![e] = Fields(ctl[e])]
  BY DEF Rebuild
<1>5. CASE d = e
  <2>1. ctl'[d].due = First
    BY <1>0, <1>4, <1>5 DEF Carried, ControlFields
  <2>2. loop'.at = "idle"
    BY <1>0 DEF Idle
  <2> QED BY <1>3, <2>1, <2>2 DEF Follows, Calmed
<1>6. CASE d # e
  <2>1. ctl'[d] = ctl[d] /\ wire'[d] = wire[d]
    BY <1>0, <1>4, <1>6
  <2>2. Stays(d)
    BY <1>0, <2>1 DEF Stays
  <2> QED BY <1>0, <2>1, <2>2, FollowsKept
<1> QED BY <1>5, <1>6

(* What is published, written or due by the clock alone changes nothing known.  *)
LEMMA FollowOther ==
  ASSUME SyncInv, Publish \/ ComesRound \/ Write \/ Regroup, NEW d \in D, Follows(d)
  PROVE  Follows(d)'
<1>0. /\ WireInv /\ DOMAIN ctl = D /\ DOMAIN ctl[d] = ControlFields /\ DOMAIN wire = Shown /\ d # Group /\ d \in Shown
      /\ UNCHANGED <<gear, fade, frames, tasks, loop>>
  BY DevicesAssumption DEF SyncInv, LevelInv, GroupInv, ControlShape, WireInv, Shown, Publish, ComesRound, Write, Regroup
<1>1. CASE Publish
  <2>1. ctl' = ctl
    BY <1>1 DEF Publish
  <2>2. \A f \in OnF : \A v : Ends(wire[d][f], outbox, d, f, v) => Ends(wire'[d][f], outbox', d, f, v)
    BY <1>0, <1>1, PublishIs DEF ShownFields
  <2>3. Stays(d)
    BY <1>0, <2>1, <2>2 DEF Stays
  <2> QED BY <1>0, <2>1, <2>3, FollowsKept
<1>2. CASE Write \/ Regroup
  <2>1. ctl' = ctl /\ outbox' = outbox /\ wire'[d] = wire[d]
    <3>1. CASE Write
      BY <3>1 DEF Write
    <3>2. CASE Regroup
      <4>1. PICK v : wire' = wire \/ wire' = [wire EXCEPT ![Group] = v]
        BY <3>2 DEF Regroup
      <4>2. wire'[d] = wire[d]
        BY <1>0, <4>1
      <4> QED BY <3>2, <4>2 DEF Regroup
    <3> QED BY <1>2, <3>1, <3>2
  <2>2. Stays(d)
    BY <1>0, <2>1 DEF Stays
  <2> QED BY <1>0, <2>1, <2>2, FollowsKept
<1>3. CASE ComesRound
  <2>1. PICK e \in D : ctl[e].due = Resync /\ ctl' = [ctl EXCEPT ![e].due = 0]
    BY <1>3 DEF ComesRound
  <2>2. UNCHANGED <<outbox, wire>> /\ loop = Idle
    BY <1>3 DEF ComesRound
  <2>3. \A f \in ShownFields : ctl'[d][f] = ctl[d][f]
    BY <1>0, <2>1 DEF ShownFields, LevelF, OnF, ControlFields
  <2>4. Stays(d)
    BY <1>0, <2>2, <2>3, Zenon DEF Stays
  <2>5. CASE d = e
    <3>1. CASE Covered(d)
      <4>1. ctl[d].due \notin Nat
        BY <2>1, <2>5 DEF Resync
      <4> QED BY <1>0, <3>1, <4>1, Zenon DEF Follows, Covered, Pending, ToTell
    <3>2. CASE Calmed(d)
      <4>1. ctl[d].due # First
        BY <2>1, <2>5 DEF Resync, First
      <4>2. ~Pending(d)'
        BY <1>0, <3>2 DEF Calmed, Pending, ToTell
      <4> QED BY <1>0, <2>4, <3>2, <4>1, <4>2, CalmedKept DEF Follows
    <3> QED BY <3>1, <3>2 DEF Follows
  <2>6. CASE d # e
    <3>1. ctl'[d] = ctl[d]
      BY <1>0, <2>1, <2>6
    <3> QED BY <1>0, <2>4, <3>1, FollowsKept
  <2> QED BY <2>5, <2>6
<1> QED BY <1>1, <1>2, <1>3

LEMMA FollowStep ==
  ASSUME Calm, SyncInv, [Next]_vars
  PROVE  FollowInv'
<1> SUFFICES ASSUME NEW d \in D PROVE Follows(d)'
  BY DEF FollowInv, Follows
<1>0. Follows(d) /\ LevelInv /\ GearInv
  BY DEF SyncInv, FollowInv, Follows
<1>1. CASE UNCHANGED vars
  <2>1. UNCHANGED <<gear, ctl, frames, tasks, fade, loop, wire, outbox>>
    BY <1>1 DEF vars
  <2>2. Stays(d)
    BY <2>1 DEF Stays
  <2> QED BY <1>0, <2>1, <2>2, FollowsKept
<1>2. CASE Tick
  BY <1>0, <1>2, FollowTick
<1>3. CASE Foreign \/ Execute
  BY <1>0, <1>3, FollowSent
<1>4. CASE StartTask
  BY <1>0, <1>4, FollowStart
<1>5. CASE StepTask
  BY <1>0, <1>5, FollowTask
<1>6. CASE Publish \/ ComesRound \/ Write \/ Regroup
  BY <1>0, <1>6, FollowOther
<1>7. CASE PollStart
  BY <1>0, <1>7, FollowPoll
<1>8. CASE PollAnswer
  BY <1>0, <1>8, FollowAnswer
<1>9. CASE PollTell
  BY <1>0, <1>9, FollowTell
<1>10. CASE Executed
  BY <1>0, <1>10, FollowWrote
<1>11. CASE Rebuild
  BY <1>0, <1>11, FollowRebuild
<1> QED
  BY <1>1, <1>2, <1>3, <1>4, <1>5, <1>6, <1>7, <1>8, <1>9, <1>10, <1>11, Zenon DEF Next

LEMMA InitSync == Init => SyncInv
<1> SUFFICES ASSUME Init PROVE SyncInv
  OBVIOUS
<1>0. LevelInv
  BY InitLevel
<1>1. /\ gear \in [D -> StartGear] /\ fade = [d \in D |-> gear[d].fade]
      /\ frames = <<>> /\ tasks = <<>> /\ outbox = <<>> /\ queue = <<>> /\ loop = Idle
  BY DEF Init
<1>2. PICK ok \in [D -> BOOLEAN] : ctl = [d \in D |-> StartControls(gear[d], ok[d])]
  BY DEF Init
<1>3. wire = [x \in Shown |-> Fields(IF x = Group THEN grp ELSE ctl[x])]
  BY DEF Init
<1>4. DOMAIN outbox = {} /\ Len(outbox) = 0 /\ DOMAIN tasks = {} /\ Len(frames) = 0 /\ DOMAIN queue = {} /\ Len(queue) = 0
  BY <1>1
<1>5. ASSUME NEW d \in D
      PROVE  /\ gear[d].fade \in {0, 1} /\ gear[d].ramp \in 0 .. 2 * gear[d].fade /\ (gear[d].ramp = 0 => gear[d].level = gear[d].target)
             /\ gear[d].ramp \in Nat
  BY <1>1, StartAssumption
<1>6. ASSUME NEW d \in D
      PROVE  /\ ctl[d].due = IF gear[d].fade = 0 THEN Resync ELSE 3
             /\ ctl[d].lerr = ~ok[d] /\ ctl[d].onerr = ~ok[d] /\ ok[d] \in BOOLEAN
             /\ ok[d] => ctl[d].level = gear[d].level /\ ctl[d].wanted = gear[d].level /\ ctl[d].on = (gear[d].level # 0)
             /\ \A f \in ShownFields : wire[d][f] = ctl[d][f]
  <2>1. ctl[d] = StartControls(gear[d], ok[d]) /\ ok[d] \in BOOLEAN
    BY <1>2
  <2>2. gear[d].fade # 0 => SettleFor("fade", gear[d].fade) = 3
    BY <1>5 DEF SettleFor, FadeTicks, Margin
  <2>3. wire[d] = Fields(ctl[d])
    BY <1>3, DevicesAssumption DEF Shown
  <2>4. \A f \in ShownFields : wire[d][f] = ctl[d][f]
    BY <2>3 DEF Fields, ShownFields
  <2> QED BY <2>1, <2>2, <2>4 DEF StartControls
<1>7. GearInv
  <2>1. ASSUME NEW d \in D PROVE Sound(gear[d])
    <3>1. gear[d] \in StartGear
      BY <1>1
    <3>2. DOMAIN gear[d] = {"level", "target", "ramp", "fade"}
      BY <3>1, StartAssumption
    <3> QED BY <1>5, <3>2 DEF Sound
  <2>2. fade \in [D -> Nat]
    BY <1>1, <1>5
  <2>3. \A d \in D : ctl[d].due \in Nat \cup {First, Resync}
    BY <1>6
  <2> QED BY <2>1, <2>2, <2>3 DEF GearInv
<1>8. OrderInv
  <2>1. Loaded(frames, dtr) /\ WideLast(frames)
    BY <1>4 DEF Loaded, WideLast
  <2>2. \A d \in D : FadeAt(frames, d, fade[d], Len(frames) + 1, gear[d].fade)
    BY <1>1, <1>4 DEF FadeAt
  <2> QED BY <1>1, <2>1, <2>2, Zenon DEF OrderInv
<1>9. FreshInv
  <2>1. ~Fresh
    BY <1>6 DEF Fresh, First, Resync
  <2>2. IsInjective(queue) /\ Group \notin Range(queue)
    BY <1>4 DEF IsInjective, Range
  <2> QED BY <2>1, <2>2 DEF FreshInv
<1>10. LoopInv
  BY <1>1 DEF LoopInv, Idle
<1>11. WireInv
  <2>1. IsList(outbox)
    <3>1. outbox \in Seq(D)
      BY <1>1
    <3> QED BY <3>1 DEF IsList
  <2>2. Messages(outbox)
    BY <1>4, <2>1 DEF Messages
  <2>3. DOMAIN wire = Shown /\ \A d \in D : DOMAIN wire[d] = ShownFields
    BY <1>3 DEF Shown, Fields, ShownFields
  <2>4. Mirrored \subseteq ShownFields
    BY DEF Mirrored, ShownFields, LevelF
  <2>5. \A d \in D : \A f \in Mirrored : Ends(wire[d][f], outbox, d, f, ctl[d][f])
    BY <1>4, <1>6, <2>4 DEF Ends
  <2> QED BY <2>2, <2>3, <2>5 DEF WireInv
<1>12. FollowInv
  <2>1. ASSUME NEW d \in D PROVE Covered(d) \/ Calmed(d)
    <3>1. ~Pending(d)
      BY <1>4 DEF Pending, ToTell, Unmoved
    <3>2. CASE gear[d].fade = 1
      <4>1. ctl[d].due \in Nat /\ ctl[d].due >= gear[d].ramp
        BY <1>5, <1>6, <3>2
      <4> QED BY <3>1, <4>1 DEF Covered
    <3>3. CASE gear[d].fade = 0
      <4>1. gear[d].ramp = 0
        BY <1>5, <3>3
      <4>2. /\ wire[d].on = ctl[d].on /\ wire[d].onerr = ctl[d].onerr
        BY <1>6 DEF ShownFields, OnF
      <4>3. \A f, w : Ends(w, outbox, d, f, w)
        BY <1>4 DEF Ends
      <4>4. loop.at = "idle"
        BY <1>1 DEF Idle
      <4>5. Good(d)
        <5>1. ~ctl[d].lerr => ctl[d].level = gear[d].level /\ ctl[d].wanted = gear[d].level
          BY <1>6
        <5>2. ctl[d].onerr => Ends(wire[d].onerr, outbox, d, "onerr", TRUE)
          <6>1. ctl[d].onerr => wire[d].onerr = TRUE
            BY <1>6, <4>2
          <6> QED BY <4>3, <6>1
        <5>3. ~ctl[d].onerr => ctl[d].on = Lit(d)
          BY <1>6 DEF Lit
        <5>4. ~ctl[d].onerr => Ends(wire[d].on, outbox, d, "on", Lit(d))
          BY <4>2, <4>3, <5>3
        <5> QED BY <4>4, <5>1, <5>2, <5>3, <5>4 DEF Good
      <4> QED BY <3>1, <4>1, <4>4, <4>5 DEF Calmed
    <3> QED BY <1>5, <3>2, <3>3
  <2> QED BY <2>1 DEF FollowInv
<1> QED BY <1>0, <1>7, <1>8, <1>9, <1>10, <1>11, <1>12 DEF SyncInv

LEMMA SyncShows ==
  ASSUME SyncInv
  PROVE  ShownIsActual
<1> SUFFICES ASSUME Quiet, NEW d \in D
             PROVE  /\ ~wire[d].lerr => wire[d].level = gear[d].level /\ wire[d].wanted = gear[d].level
                    /\ ~wire[d].onerr => wire[d].on = (gear[d].level # 0)
                    /\ ~ctl[d].onerr => ctl[d].on = (gear[d].level # 0)
  BY DEF ShownIsActual
<1>1. /\ frames = <<>> /\ tasks = <<>> /\ outbox = <<>> /\ loop = Idle /\ gear[d].ramp = 0 /\ ctl[d].due = Resync
  BY DEF Quiet
<1>2. Len(outbox) = 0
  BY <1>1
<1>3. \A w, f, v : Ends(w, outbox, d, f, v) => v = w
  BY <1>2 DEF Ends
<1>4. wire[d].level = ctl[d].level /\ wire[d].lerr = ctl[d].lerr /\ wire[d].wanted = ctl[d].wanted
  <2>1. \A f \in Mirrored : Ends(wire[d][f], outbox, d, f, ctl[d][f])
    BY DEF SyncInv, WireInv
  <2> QED BY <1>3, <2>1 DEF Mirrored
<1>5. ~Covered(d)
  BY <1>1, NothingPending DEF Resync
<1>6. Calmed(d)
  BY <1>5 DEF SyncInv, FollowInv
<1>7. Good(d)
  BY <1>1, <1>6 DEF Calmed, Polled, Idle, Resync, First
<1>8. ~ctl[d].lerr => ctl[d].level = gear[d].level /\ ctl[d].wanted = gear[d].level
  BY <1>7 DEF Good
<1>9. ctl[d].onerr => wire[d].onerr = TRUE
  BY <1>3, <1>7 DEF Good
<1>10. ~ctl[d].onerr => ctl[d].on = Lit(d) /\ wire[d].on = Lit(d)
  BY <1>3, <1>7 DEF Good
<1> QED BY <1>4, <1>8, <1>9, <1>10 DEF Lit

(* When every event is handled and no poll is due, MQTT shows of every light    *)
(* what its gear does, or an error, and the switch decides on the true state:   *)
(* EventSyncCoordinator._dispatch, ActualLevelControl.notify, SettleClock,      *)
(* EventPollSchedule, _polling_loop and DevicePublisher together, for any gear  *)
(* and any number of commands, given that lights and settings do not change at  *)
(* one moment.                                                                  *)
THEOREM CalmShowsActual == Calm => (Spec => []ShownIsActual)
<1> SUFFICES ASSUME Calm PROVE Spec => []ShownIsActual
  OBVIOUS
<1>1. Init => SyncInv
  BY InitSync
<1>2. SyncInv /\ [Next]_vars => SyncInv'
  <2> SUFFICES ASSUME SyncInv, [Next]_vars PROVE SyncInv'
    OBVIOUS
  <2>1. LevelInv'
    BY GroupStep, ListsStep, WriteStep DEF SyncInv, LevelInv
  <2>2. GearInv' /\ OrderInv' /\ FreshInv' /\ LoopInv' /\ WireInv' /\ FollowInv'
    BY GearStep, OrderStep, FreshStep, LoopStep, WireStep, FollowStep
  <2> QED BY <2>1, <2>2, Zenon DEF SyncInv
<1>3. SyncInv => ShownIsActual
  BY SyncShows
<1> QED BY <1>1, <1>2, <1>3, PTL DEF Spec
=============================================================================

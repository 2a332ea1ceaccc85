------------------------- MODULE GatewayServiceProofs -------------------------
(* GatewayService for any gateways, ports and number of requests: no gateway    *)
(* runs that the service has forgotten, and what a client was told is saved.    *)
EXTENDS GatewayService, FiniteSetTheorems, TLAPS

Ats == {"rest", "load", "want", "sweep", "save", "list", "broken", "set", "closing"}
GatewayType == [on : BOOLEAN, cfg : Settings, task : {"none", "starting", "serving", "failed"}]
ProcType == [at : Ats, ids : SUBSET Uids, keep : Seq(Objects), todo : Seq(Objects),
             uid : Uids \cup {"none"}, cfg : Settings]

(* What TypeOK says, and where a handler may be.                                *)
Types ==
  /\ TypeOK
  /\ proc \in [Procs -> ProcType]
  /\ told \in [Uids -> Settings \cup {NotTold}]

(* The handlers that may still make an object for u, and room for all of them.  *)
CanGrow(u) == {p \in Procs : proc[p].at \in {"load", "want"} \/ (proc[p].at = "sweep" /\ u \in proc[p].ids)}
BoundInv ==
  /\ \A u \in Uids : gen[u] + Cardinality(CanGrow(u)) <= MaxGen
  /\ phase = "starting" => gen = [u \in Uids |-> 0] /\ proc = [p \in Procs |-> Rest]

(* The lock is with the handler that updates the list or waits for a websocket. *)
LockInv == \A p \in Procs : proc[p].at \in {"sweep", "closing"} <=> lock = p

Sweeping(p) == proc[p].at = "sweep"
Runs(o) == obj[o].on \/ obj[o].task # "none"

(* One object for each id; what was told is of a listed gateway.                *)
ListInv ==
  /\ \A o, x \in Listed : o[1] = x[1] => o = x
  /\ \A u \in Uids : told[u] # NotTold => \E o \in Listed : o[1] = u

(* An update in progress: what it keeps so far and has left accounts for every  *)
(* listed gateway it has not stopped, and what it adds is new.                  *)
SweepOf(keep, todo, ids) ==
  /\ todo \subseteq Listed
  /\ todo # {} => keep \subseteq Listed
  /\ \A o \in keep : o[1] \notin ids /\ (o \in Listed \/ told[o[1]] = NotTold)
  /\ \A o, x \in keep \cup todo : o[1] = x[1] => o = x
  /\ \A o \in Listed : o \in keep \cup todo \/ (o[1] \notin ids /\ ~Runs(o) /\ told[o[1]] = NotTold)
SweepInv == \A p \in Procs :
  Sweeping(p) => SweepOf(ToSet(proc[p].keep), ToSet(proc[p].todo), proc[p].ids)

(* NoStray, of the update that is in progress.                                  *)
RunInv ==
  phase \notin {"stopping", "stopped"} =>
    \A o \in Objects : Runs(o) => o \in Listed \/ \E p \in Procs : Sweeping(p) /\ o \in ToSet(proc[p].keep)

(* SavedAsConfirmed, and what the file holds until a save is due.               *)
SaveInv ==
  /\ \A o \in Listed : told[o[1]] # NotTold => obj[o].cfg = told[o[1]] /\ [uid |-> o[1], cfg |-> told[o[1]]] \in file
  /\ phase \notin {"stopping", "stopped"} /\ (\A p \in Procs : proc[p].at # "save") => file = Saved(list)

IInv == Types /\ BoundInv /\ LockInv /\ ListInv /\ SweepInv /\ RunInv /\ SaveInv
-------------------------------------------------------------------------------
(* Sequences and sets                                                           *)

LEMMA SetEmpty == \A S : <<>> \in Seq(S) /\ ToSet(<<>>) = {}
  BY DEF ToSet

LEMMA SetAppend ==
  ASSUME NEW S, NEW s \in Seq(S), NEW x \in S
  PROVE  Append(s, x) \in Seq(S) /\ ToSet(Append(s, x)) = ToSet(s) \cup {x}
<1>1. /\ Append(s, x) \in Seq(S) /\ DOMAIN Append(s, x) = 1 .. Len(s) + 1 /\ DOMAIN s = 1 .. Len(s)
      /\ \A i \in 1 .. Len(s) : Append(s, x)[i] = s[i]
      /\ Append(s, x)[Len(s) + 1] = x /\ Len(s) \in Nat
  OBVIOUS
<1>2. 1 .. Len(s) + 1 = (1 .. Len(s)) \cup {Len(s) + 1}
  BY <1>1
<1> QED BY <1>1, <1>2 DEF ToSet

LEMMA SetHead ==
  ASSUME NEW S, NEW s \in Seq(S), s # <<>>
  PROVE  /\ Head(s) \in S /\ Tail(s) \in Seq(S)
         /\ ToSet(s) = {Head(s)} \cup ToSet(Tail(s))
<1>1. /\ Head(s) \in S /\ Tail(s) \in Seq(S) /\ Head(s) = s[1] /\ DOMAIN s = 1 .. Len(s)
      /\ DOMAIN Tail(s) = 1 .. Len(s) - 1 /\ Len(s) \in Nat /\ Len(s) >= 1
      /\ \A i \in 1 .. Len(s) - 1 : Tail(s)[i] = s[i + 1]
  OBVIOUS
<1>2. \A i \in 1 .. Len(s) : i = 1 \/ (i - 1 \in 1 .. Len(s) - 1 /\ (i - 1) + 1 = i)
  BY <1>1
<1>3. \A i \in 1 .. Len(s) - 1 : i + 1 \in 1 .. Len(s)
  BY <1>1
<1>4. ASSUME NEW x \in ToSet(s) PROVE x = Head(s) \/ x \in ToSet(Tail(s))
  <2>1. PICK i \in 1 .. Len(s) : x = s[i]
    BY <1>1, <1>4 DEF ToSet
  <2>2. CASE i - 1 \in 1 .. Len(s) - 1 /\ (i - 1) + 1 = i
    <3>1. Tail(s)[i - 1] = s[(i - 1) + 1]
      BY <1>1, <2>2, Zenon
    <3> QED BY <1>1, <2>1, <2>2, <3>1 DEF ToSet
  <2> QED BY <1>1, <1>2, <2>1, <2>2
<1>5. ASSUME NEW x \in ToSet(Tail(s)) PROVE x \in ToSet(s)
  BY <1>1, <1>3, <1>5 DEF ToSet
<1>6. Head(s) \in ToSet(s)
  BY <1>1 DEF ToSet
<1> QED BY <1>1, <1>4, <1>5, <1>6

LEMMA SetType ==
  ASSUME NEW S, NEW s \in Seq(S)
  PROVE  ToSet(s) \subseteq S
  BY DEF ToSet

(* A set as a sequence holds all of it.                                         *)
LEMMA SeqOfSet ==
  ASSUME NEW S, IsFiniteSet(S)
  PROVE  SetToSeq(S) \in Seq(S) /\ ToSet(SetToSeq(S)) = S
<1> DEFINE n == Cardinality(S)
<1>1. n \in Nat /\ ExistsBijection(1 .. n, S)
  BY FS_CardinalityType
<1>2. \E f : f \in [1 .. n -> S] /\ IsInjective(f)
  BY <1>1 DEF ExistsBijection, Bijection, Injection
<1>3. PICK f : f = SetToSeq(S)
  OBVIOUS
<1>4. f \in [1 .. n -> S] /\ IsInjective(f)
  BY <1>2, <1>3 DEF SetToSeq
<1>5. Cardinality(1 .. n) = n
  BY <1>1, FS_Interval
<1>6. f \in Injection(1 .. n, S)
  BY <1>4 DEF Injection
<1>7. f \in Surjection(1 .. n, S)
  BY <1>5, <1>6, FS_Injection
<1>8. f \in Seq(S) /\ DOMAIN f = 1 .. n
  BY <1>1, <1>4
<1> QED BY <1>3, <1>7, <1>8 DEF Surjection, ToSet
-------------------------------------------------------------------------------
(* Types                                                                        *)

LEMMA ObjectParts ==
  ASSUME NEW o \in Objects
  PROVE  o[1] \in Uids
  BY DEF Objects

LEMMA SettingsType == Default \in Settings /\ NotTold \notin Settings
  BY ServiceAssumption DEF Default, NotTold, Settings

LEMMA RestType == Rest \in ProcType
  BY SettingsType, SetEmpty DEF Rest, ProcType, Ats

LEMMA FreshType == \A cfg \in Settings : Fresh(cfg) \in GatewayType
  BY DEF Fresh, GatewayType

LEMMA ListedType ==
  ASSUME Types
  PROVE  Listed \subseteq Objects
  BY SetType DEF Types, TypeOK, Listed

(* A handler moves on, the others stay where they are.                          *)
LEMMA ToFacts ==
  ASSUME Types, NEW p \in Procs, NEW r \in ProcType, To(p, r)
  PROVE  /\ proc' \in [Procs -> ProcType] /\ proc'[p] = r
         /\ \A q \in Procs : q # p => proc'[q] = proc[q]
  BY DEF Types, To

LEMMA ProcFields ==
  ASSUME Types, NEW p \in Procs
  PROVE  /\ proc[p] \in ProcType /\ proc[p].at \in Ats /\ proc[p].ids \subseteq Uids
         /\ proc[p].keep \in Seq(Objects) /\ proc[p].todo \in Seq(Objects)
         /\ proc[p].uid \in Uids \cup {"none"} /\ proc[p].cfg \in Settings
  BY DEF Types, ProcType

LEMMA ProcsFinite == IsFiniteSet(Procs) /\ "run" \in Procs /\ Nobody \notin Procs
<1>1. IsFiniteSet(Clients \cup {"run"})
  BY ServiceAssumption, FS_AddElement
<1> QED BY <1>1, ServiceAssumption DEF Procs, Nobody

LEMMA CanGrowCount ==
  ASSUME NEW u
  PROVE  IsFiniteSet(CanGrow(u)) /\ Cardinality(CanGrow(u)) \in Nat
<1>1. CanGrow(u) \in SUBSET Procs
  BY DEF CanGrow
<1>2. IsFiniteSet(CanGrow(u))
  BY <1>1, ProcsFinite, FS_Subset
<1> QED BY <1>2, FS_CardinalityType

(* An update that is about to make an object for u has room for it.             *)
LEMMA RoomToGrow ==
  ASSUME Types, BoundInv, NEW p \in Procs, Sweeping(p), NEW u \in proc[p].ids
  PROVE  gen[u] + 1 \in 0 .. MaxGen /\ <<u, gen[u] + 1>> \in Objects /\ u \in Uids
<1>1. u \in Uids /\ gen[u] \in 0 .. MaxGen /\ MaxGen \in Nat
  BY ProcFields, ServiceAssumption DEF Types, TypeOK
<1>2. p \in CanGrow(u)
  BY DEF CanGrow, Sweeping
<1>3. Cardinality(CanGrow(u)) # 0
  BY <1>2, CanGrowCount, FS_EmptySet
<1>4. gen[u] + Cardinality(CanGrow(u)) <= MaxGen
  BY <1>1 DEF BoundInv
<1>5. gen[u] + 1 \in 0 .. MaxGen
  BY <1>1, <1>3, <1>4, CanGrowCount
<1> QED BY <1>1, <1>5 DEF Objects

(* A gateway object with a new websocket, or with none.                         *)
LEMMA GatewayTypes ==
  ASSUME NEW g \in GatewayType, NEW cfg \in Settings
  PROVE  /\ Started(g) \in GatewayType /\ Stopped(g) \in GatewayType /\ Applied(g, cfg) \in GatewayType
         /\ [g EXCEPT !.task = "none"] \in GatewayType
         /\ Started(g).cfg = g.cfg /\ Stopped(g).cfg = g.cfg /\ Applied(g, cfg).cfg = cfg
         /\ ~Stopped(g).on /\ Stopped(g).task = "none"
  BY DEF GatewayType, Started, Stopped, Applied

(* Settings applied are the settings.                                           *)
LEMMA AppliedType ==
  \A g \in GatewayType, cfg \in Settings : Applied(g, cfg) \in GatewayType /\ Applied(g, cfg).cfg = cfg
  BY DEF GatewayType, Applied

LEMMA ObjType ==
  ASSUME Types
  PROVE  obj \in [Objects -> GatewayType]
  BY DEF Types, TypeOK, GatewayType

(* The steps of an update.                                                      *)
LEMMA HandlerTypes ==
  ASSUME Types, BoundInv, NEW p \in Procs, Handler(p)
  PROVE  Types'
<1>f. /\ proc[p] \in ProcType /\ proc[p].ids \subseteq Uids
      /\ proc[p].keep \in Seq(Objects) /\ proc[p].todo \in Seq(Objects)
  BY ProcFields
<1>r. Rest \in ProcType
  BY RestType
<1>1. CASE Load(p)
  <2>1. /\ [proc[p] EXCEPT !.at = "want", !.ids = serial] \in ProcType
        /\ [proc[p] EXCEPT !.at = "list"] \in ProcType
    BY <1>f DEF ProcType, Ats, Types, TypeOK
  <2>2. proc' \in [Procs -> ProcType]
    BY <1>1, <2>1, ToFacts DEF Load
  <2> QED BY <1>1, <2>2 DEF Load, Types, TypeOK
<1>2. CASE TakeLock(p)
  <2>1. [proc[p] EXCEPT !.at = "sweep", !.todo = list, !.keep = <<>>] \in ProcType
    BY <1>f, SetEmpty DEF ProcType, Ats, Types, TypeOK
  <2>2. proc' \in [Procs -> ProcType]
    BY <1>2, <2>1, ToFacts DEF TakeLock
  <2> QED BY <1>2, <2>2 DEF TakeLock, Acquire, Types, TypeOK
<1>3. CASE Sweep(p)
  <2> DEFINE o == Head(proc[p].todo)
             on == [proc[p] EXCEPT !.todo = Tail(@)]
  <2>1. o \in Objects /\ Tail(proc[p].todo) \in Seq(Objects)
    BY <1>f, <1>3, SetHead DEF Sweep
  <2>2. on \in ProcType
    BY <1>f, <2>1 DEF ProcType
  <2>3. [on EXCEPT !.keep = Append(@, o), !.ids = @ \ {o[1]}] \in ProcType
    <3>1. Append(proc[p].keep, o) \in Seq(Objects)
      BY <1>f, <2>1, SetAppend
    <3> QED BY <1>f, <2>1, <3>1 DEF ProcType
  <2>4. \A a \in {"broken", "rest"} : [Rest EXCEPT !.at = a] \in ProcType
    BY <1>r DEF ProcType, Ats
  <2>5. proc' \in [Procs -> ProcType]
    <3>1. CASE To(p, [on EXCEPT !.keep = Append(@, o), !.ids = @ \ {o[1]}])
      BY <2>3, <3>1, ToFacts
    <3>2. CASE To(p, on)
      BY <2>2, <3>2, ToFacts
    <3>3. CASE To(p, [Rest EXCEPT !.at = IF p = "run" THEN "broken" ELSE "rest"])
      BY <2>4, <3>3, ToFacts
    <3> QED BY <1>3, <3>1, <3>2, <3>3 DEF Sweep
  <2> HIDE DEF o, on
  <2>6. obj' \in [Objects -> GatewayType]
    <3>1. obj' = obj \/ obj' = [obj EXCEPT ![o] = Stopped(obj[o])]
      BY <1>3, Zenon DEF Sweep, o
    <3>2. obj \in [Objects -> GatewayType] /\ Default \in Settings
      BY ObjType, SettingsType
    <3>3. Stopped(obj[o]) \in GatewayType
      BY <2>1, <3>2, GatewayTypes
    <3> QED BY <2>1, <3>1, <3>2, <3>3
  <2>7. told' \in [Uids -> Settings \cup {NotTold}]
    <3>1. told' = told \/ told' = [told EXCEPT ![o[1]] = NotTold]
      BY <1>3 DEF Sweep, o
    <3> QED BY <3>1 DEF Types
  <2>8. lock' \in Procs \cup {Nobody}
    BY <1>3 DEF Sweep, ReleaseOnError, Types, TypeOK
  <2>9. UNCHANGED <<serial, foreign, list, gen, file, phase, topics, left>>
    BY <1>3 DEF Sweep
  <2> QED BY <2>5, <2>6, <2>7, <2>8, <2>9 DEF Types, TypeOK, GatewayType
<1>4. CASE Grow(p)
  <2>1. PICK u \in proc[p].ids :
          /\ gen' = [gen EXCEPT ![u] = @ + 1]
          /\ obj' = [obj EXCEPT ![<<u, gen[u] + 1>>] = Started(Fresh(Default))]
          /\ To(p, [proc[p] EXCEPT !.ids = @ \ {u}, !.keep = Append(@, <<u, gen[u] + 1>>)])
    BY <1>4 DEF Grow
  <2>2. /\ gen[u] + 1 \in 0 .. MaxGen /\ <<u, gen[u] + 1>> \in Objects /\ u \in Uids
    BY <1>4, RoomToGrow DEF Grow, Sweeping
  <2>3. PICK o \in Objects : o = <<u, gen[u] + 1>>
    BY <2>2
  <2>4. Append(proc[p].keep, o) \in Seq(Objects)
    BY <1>f, SetAppend
  <2>5. [proc[p] EXCEPT !.ids = @ \ {u}, !.keep = Append(@, o)] \in ProcType
    BY <1>f, <2>4 DEF ProcType
  <2>6. proc' \in [Procs -> ProcType]
    BY <2>1, <2>3, <2>5, ToFacts
  <2>7. obj' \in [Objects -> GatewayType]
    BY <2>1, <2>3, ObjType, GatewayTypes, FreshType, SettingsType
  <2>8. gen' \in [Uids -> 0 .. MaxGen]
    BY <2>1, <2>2 DEF Types, TypeOK
  <2>9. UNCHANGED <<serial, foreign, list, lock, file, told, phase, topics, left>>
    BY <1>4 DEF Grow
  <2> QED BY <2>6, <2>7, <2>8, <2>9 DEF Types, TypeOK, GatewayType
<1>5. CASE Replace(p)
  <2>1. [proc[p] EXCEPT !.at = "save"] \in ProcType
    BY <1>f DEF ProcType, Ats
  <2>2. proc' \in [Procs -> ProcType]
    BY <1>5, <2>1, ToFacts DEF Replace
  <2> QED BY <1>5, <1>f, <2>2 DEF Replace, Types, TypeOK
<1>6. CASE Save(p)
  <2>1. [proc[p] EXCEPT !.at = "list"] \in ProcType
    BY <1>f DEF ProcType, Ats
  <2>2. proc' \in [Procs -> ProcType]
    BY <1>6, <2>1, ToFacts DEF Save
  <2>3. Saved(list) \subseteq [uid : Uids, cfg : Settings]
    BY ListedType, ObjectParts, ObjType DEF Saved, Listed, GatewayType
  <2> QED BY <1>6, <2>2, <2>3 DEF Save, Types, TypeOK
<1> QED BY <1>1, <1>2, <1>3, <1>4, <1>5, <1>6 DEF Handler

(* A handler that confirms settings.                                            *)
LEMMA ConfirmTypes ==
  ASSUME Types, NEW c \in Clients, NEW o \in Listed, NEW g \in GatewayType, Confirm(c, o, g)
  PROVE  /\ obj' \in [Objects -> GatewayType] /\ proc' \in [Procs -> ProcType]
         /\ file' \subseteq [uid : Uids, cfg : Settings] /\ told' \in [Uids -> Settings \cup {NotTold}]
<1>1. c \in Procs /\ o \in Objects /\ o[1] \in Uids
  BY ListedType, ObjectParts DEF Procs
<1>2. PICK cfg \in Settings : cfg = proc[c].cfg
  BY <1>1, ProcFields
<1>3. Applied(g, cfg) \in GatewayType /\ Applied(g, cfg).cfg = cfg
  BY AppliedType
<1>4. PICK a \in GatewayType : a = Applied(g, cfg) /\ a.cfg = cfg
  BY <1>3
<1>5. obj' \in [Objects -> GatewayType]
  BY <1>1, <1>2, <1>4, ObjType DEF Confirm
<1>6. proc' \in [Procs -> ProcType]
  BY <1>1, RestType, ToFacts DEF Confirm, Answer
<1>7. \A x \in Listed : x[1] \in Uids /\ obj[x].cfg \in Settings
  BY ListedType, ObjectParts, ObjType DEF GatewayType
<1>8. SavedWith(o, a) \subseteq [uid : Uids, cfg : Settings]
  BY <1>4, <1>7 DEF SavedWith
<1>9. told' \in [Uids -> Settings \cup {NotTold}]
  BY <1>1, <1>2 DEF Confirm, Types
<1> QED BY <1>2, <1>4, <1>5, <1>6, <1>8, <1>9 DEF Confirm

LEMMA ClientTypes ==
  ASSUME Types, NEW c \in Clients, Client(c)
  PROVE  Types'
<1>0. c \in Procs /\ Rest \in ProcType /\ proc[c] \in ProcType
  BY RestType, ProcFields DEF Procs
<1>a. Answer(c) => proc' \in [Procs -> ProcType]
  BY <1>0, ToFacts DEF Answer
<1>1. CASE AnswerList(c)
  BY <1>1, <1>a DEF AnswerList, Types, TypeOK
<1>2. CASE ApplySet(c)
  <2> DEFINE Typed == /\ obj' \in [Objects -> GatewayType] /\ proc' \in [Procs -> ProcType]
                      /\ file' \subseteq [uid : Uids, cfg : Settings] /\ told' \in [Uids -> Settings \cup {NotTold}]
                      /\ lock' \in Procs \cup {Nobody}
  <2>1. Typed
    <3>1. CASE Answer(c) /\ UNCHANGED <<obj, lock, file, told>>
      BY <1>a, <3>1, ObjType DEF Types, TypeOK
    <3>2. ASSUME NEW o \in Target(c), Confirm(c, o, obj[o]), UNCHANGED lock
          PROVE  Typed
      <4>1. o \in Listed /\ obj[o] \in GatewayType
        BY ListedType, ObjType DEF Target
      <4> QED BY <3>2, <4>1, ConfirmTypes DEF Types, TypeOK
    <3>3. CASE lock' = c /\ To(c, [proc[c] EXCEPT !.at = "closing"]) /\ UNCHANGED <<obj, file, told>>
      <4>1. [proc[c] EXCEPT !.at = "closing"] \in ProcType
        BY <1>0 DEF ProcType, Ats
      <4> QED BY <1>0, <3>3, <4>1, ToFacts, ObjType DEF Types, TypeOK
    <3>4. \/ Answer(c) /\ UNCHANGED <<obj, lock, file, told>>
          \/ \E o \in Target(c) : Confirm(c, o, obj[o]) /\ UNCHANGED lock
          \/ lock' = c /\ To(c, [proc[c] EXCEPT !.at = "closing"]) /\ UNCHANGED <<obj, file, told>>
      BY <1>2 DEF ApplySet
    <3> QED BY <3>1, <3>2, <3>3, <3>4
  <2> QED BY <1>2, <2>1 DEF ApplySet, Types, TypeOK, GatewayType
<1>3. CASE Closed(c)
  <2> DEFINE Typed == /\ obj' \in [Objects -> GatewayType] /\ proc' \in [Procs -> ProcType]
                      /\ file' \subseteq [uid : Uids, cfg : Settings] /\ told' \in [Uids -> Settings \cup {NotTold}]
  <2>1. Typed
    <3>1. CASE Answer(c) /\ UNCHANGED <<obj, file, told>>
      BY <1>a, <3>1, ObjType DEF Types, TypeOK
    <3>2. ASSUME NEW o \in Target(c), Confirm(c, o, [obj[o] EXCEPT !.task = "none"])
          PROVE  Typed
      <4>1. o \in Listed /\ obj[o] \in GatewayType /\ Default \in Settings
        BY ListedType, ObjType, SettingsType DEF Target
      <4>2. [obj[o] EXCEPT !.task = "none"] \in GatewayType
        BY <4>1, GatewayTypes
      <4> QED BY <3>2, <4>1, <4>2, ConfirmTypes
    <3>3. \/ Answer(c) /\ UNCHANGED <<obj, file, told>>
          \/ \E o \in Target(c) : Confirm(c, o, [obj[o] EXCEPT !.task = "none"])
      BY <1>3 DEF Closed
    <3> QED BY <3>1, <3>2, <3>3
  <2> QED BY <1>3, <2>1 DEF Closed, Types, TypeOK, GatewayType
<1> QED BY <1>1, <1>2, <1>3 DEF Client

(* Everything else.                                                             *)
LEMMA OtherTypes ==
  ASSUME Types,
         \/ \E o \in Objects : Bind(o)
         \/ StartAll \/ ServeFirst \/ ServeAll \/ Broken \/ StopGateways \/ Others
  PROVE  Types'
<1>0. Rest \in ProcType /\ "run" \in Procs /\ obj \in [Objects -> GatewayType] /\ Default \in Settings
  BY RestType, ObjType, ProcsFinite, SettingsType
<1>1. ASSUME NEW o \in Objects, Bind(o) PROVE Types'
  <2>1. PICK t \in {"failed", "serving"} : obj' = [obj EXCEPT ![o].task = t]
    BY <1>1 DEF Bind
  <2>2. obj' \in [Objects -> GatewayType]
    BY <1>0, <2>1 DEF GatewayType
  <2> QED BY <1>1, <2>2 DEF Bind, Types, TypeOK, GatewayType
<1>2. CASE StartAll
  <2>1. obj' \in [Objects -> GatewayType]
    BY <1>0, <1>2, GatewayTypes DEF StartAll
  <2>2. [Rest EXCEPT !.at = "load"] \in ProcType
    BY <1>0 DEF ProcType, Ats
  <2>3. proc' \in [Procs -> ProcType]
    BY <1>0, <1>2, <2>2, ToFacts DEF StartAll
  <2> QED BY <1>2, <2>1, <2>3 DEF StartAll, Types, TypeOK, GatewayType
<1>3. CASE ServeFirst \/ Broken
  <2>1. proc' \in [Procs -> ProcType]
    BY <1>0, <1>3, ToFacts DEF ServeFirst, Broken
  <2>2. topics' \subseteq Uids
    BY <1>3, ListedType, ObjectParts DEF ServeFirst, Broken, PublishIdle, Types, TypeOK
  <2> QED BY <1>3, <2>1, <2>2 DEF ServeFirst, Broken, AddEndpoint, Types, TypeOK
<1>4. CASE ServeAll
  BY <1>4 DEF ServeAll, AddEndpoint, Types, TypeOK
<1>5. CASE StopGateways
  <2>1. obj' \in [Objects -> GatewayType]
    BY <1>0, <1>5, GatewayTypes DEF StopGateways
  <2>2. topics' \subseteq Uids
    BY <1>5 DEF StopGateways, ClearTopics, Types, TypeOK
  <2> QED BY <1>5, <2>1, <2>2 DEF StopGateways, Types, TypeOK, GatewayType
<1>l. Event => left' \in 0 .. MaxEvents
  BY ServiceAssumption DEF Event, Types, TypeOK
<1>6. ASSUME NEW c \in Clients, GetList(c) \/ SetGateway(c) PROVE Types'
  <2>0. c \in Procs
    BY DEF Procs
  <2>1. \A u \in Uids, cfg \in Settings : [Rest EXCEPT !.at = "set", !.uid = u, !.cfg = cfg] \in ProcType
    BY <1>0 DEF ProcType, Ats
  <2>2. [Rest EXCEPT !.at = "load"] \in ProcType
    BY <1>0 DEF ProcType, Ats
  <2>3. proc' \in [Procs -> ProcType]
    <3>1. CASE GetList(c)
      BY <2>0, <2>2, <3>1, ToFacts DEF GetList
    <3>2. CASE SetGateway(c)
      BY <2>0, <2>1, <3>2, ToFacts DEF SetGateway
    <3> QED BY <1>6, <3>1, <3>2
  <2> QED BY <1>6, <1>l, <2>3 DEF GetList, SetGateway, Types, TypeOK
<1>7. CASE StopServing
  <2>1. proc' \in [Procs -> ProcType]
    BY <1>0, <1>7, ProcFields DEF StopServing
  <2> QED BY <1>7, <1>l, <2>1 DEF StopServing, Types, TypeOK
<1>8. CASE EditSerial
  BY <1>8, <1>l DEF EditSerial, Types, TypeOK
<1>9. CASE TakePort
  BY <1>9, <1>l DEF TakePort, Types, TypeOK
<1> QED BY <1>1, <1>2, <1>3, <1>4, <1>5, <1>6, <1>7, <1>8, <1>9 DEF Others

LEMMA TypesStep ==
  ASSUME Types, BoundInv, [Next]_vars
  PROVE  Types'
<1>1. CASE UNCHANGED vars
  BY <1>1 DEF vars, Types, TypeOK
<1> QED BY <1>1, HandlerTypes, ClientTypes, OtherTypes DEF Next, Work
-------------------------------------------------------------------------------
(* What most steps have in common                                               *)

(* No handler comes nearer to making an object.                                 *)
LEMMA BoundKept ==
  ASSUME Types, Types', BoundInv, gen' = gen,
         \A u \in Uids : CanGrow(u)' \subseteq CanGrow(u),
         phase' # "starting" \/ UNCHANGED <<phase, proc>>
  PROVE  BoundInv'
<1>1. ASSUME NEW u \in Uids PROVE gen'[u] + Cardinality(CanGrow(u)') <= MaxGen
  <2>1. CanGrow(u)' \in SUBSET CanGrow(u)
    OBVIOUS
  <2>2. /\ IsFiniteSet(CanGrow(u)') /\ Cardinality(CanGrow(u)') <= Cardinality(CanGrow(u))
    BY <2>1, CanGrowCount, FS_Subset
  <2>3. Cardinality(CanGrow(u)') \in Nat /\ Cardinality(CanGrow(u)) \in Nat
    BY <2>2, CanGrowCount, FS_CardinalityType
  <2>4. gen[u] \in Nat /\ MaxGen \in Nat /\ gen[u] + Cardinality(CanGrow(u)) <= MaxGen
    BY ServiceAssumption DEF Types, TypeOK, BoundInv
  <2> QED BY <2>2, <2>3, <2>4
<1> QED BY <1>1 DEF BoundInv

LEMMA SavedSame ==
  ASSUME Types, list' = list, \A o \in Listed : obj'[o].cfg = obj[o].cfg
  PROVE  Saved(list)' = Saved(list)
  BY DEF Saved, Listed

(* The list and what is saved of it stay, and so do the updates in progress;    *)
(* gateways may end, and the service may begin to stop.                         *)
LEMMA QuietStep ==
  ASSUME Types, ListInv, SweepInv, RunInv, SaveInv,
         list' = list, told' = told, file' = file,
         \A o \in Objects : obj'[o].cfg = obj[o].cfg /\ ((Runs(o))' => Runs(o)),
         \A p \in Procs : (Sweeping(p))' => Sweeping(p) /\ proc'[p] = proc[p],
         \/ phase' \in {"stopping", "stopped"}
         \/ /\ phase \notin {"stopping", "stopped"}
            /\ \A p \in Procs : /\ Sweeping(p) => proc'[p] = proc[p]
                                /\ proc[p].at = "save" => proc'[p].at = "save"
  PROVE  ListInv' /\ SweepInv' /\ RunInv' /\ SaveInv'
<1>0. Listed \subseteq Objects /\ Listed' = Listed
  BY ListedType DEF Listed
<1>1. ListInv'
  BY <1>0 DEF ListInv
<1>2. SweepInv'
  <2> SUFFICES ASSUME NEW p \in Procs, (Sweeping(p))'
               PROVE  (SweepOf(ToSet(proc[p].keep), ToSet(proc[p].todo), proc[p].ids))'
    BY DEF SweepInv
  <2>1. Sweeping(p) /\ proc'[p] = proc[p]
    OBVIOUS
  <2>2. SweepOf(ToSet(proc[p].keep), ToSet(proc[p].todo), proc[p].ids)
    BY <2>1 DEF SweepInv
  <2> QED BY <1>0, <2>1, <2>2 DEF SweepOf
<1>3. RunInv'
  BY <1>0 DEF RunInv, Sweeping
<1>4. SaveInv'
  <2>1. Saved(list)' = Saved(list)
    BY <1>0, SavedSame
  <2> QED BY <1>0, <2>1 DEF SaveInv
<1> QED BY <1>1, <1>2, <1>3, <1>4

(* The handler p moves from one place outside the lock to another.              *)
LEMMA FreeMove ==
  ASSUME Types, LockInv, NEW p \in Procs, NEW r \in ProcType, To(p, r), lock' = lock,
         proc[p].at \notin {"sweep", "closing"}, r.at \notin {"sweep", "closing"}
  PROVE  LockInv' /\ \A q \in Procs : /\ (Sweeping(q))' => Sweeping(q) /\ proc'[q] = proc[q]
                                      /\ Sweeping(q) => proc'[q] = proc[q]
                                      /\ proc[q].at = "save" /\ q # p => proc'[q].at = "save"
  BY ToFacts DEF LockInv, Sweeping

(* Gateways and the service without a handler.                                  *)
LEMMA PlainStep ==
  ASSUME Types, LockInv, BoundInv, Types', ListInv, SweepInv, RunInv, SaveInv,
         UNCHANGED <<list, told, file, proc, lock, gen>>,
         \A o \in Objects : obj'[o].cfg = obj[o].cfg /\ ((Runs(o))' => Runs(o)),
         phase' # "starting" \/ phase' = phase,
         phase' \in {"stopping", "stopped"} \/ phase \notin {"stopping", "stopped"}
  PROVE  BoundInv' /\ LockInv' /\ ListInv' /\ SweepInv' /\ RunInv' /\ SaveInv'
<1>1. LockInv'
  BY DEF LockInv
<1>2. BoundInv'
  BY BoundKept DEF CanGrow
<1>3. \A p \in Procs : (Sweeping(p))' <=> Sweeping(p)
  BY DEF Sweeping
<1> QED BY <1>1, <1>2, <1>3, QuietStep

Kept == BoundInv' /\ LockInv' /\ ListInv' /\ SweepInv' /\ RunInv' /\ SaveInv'

(* A handler is at work only after the start.                                   *)
LEMMA Begun ==
  ASSUME BoundInv, NEW p \in Procs, proc[p].at # "rest"
  PROVE  phase # "starting"
  BY DEF BoundInv, Rest

LEMMA FreeKept ==
  ASSUME IInv, Types', NEW p \in Procs, NEW r \in ProcType, To(p, r),
         UNCHANGED <<list, told, file, obj, lock, gen>>,
         proc[p].at \notin {"sweep", "closing", "save"}, r.at \notin {"sweep", "closing"},
         r.at \in {"load", "want"} => proc[p].at \in {"load", "want"},
         phase' # "starting", phase' \in {"stopping", "stopped"} \/ phase \notin {"stopping", "stopped"}
  PROVE  Kept
<1>1. /\ LockInv'
      /\ \A q \in Procs : /\ (Sweeping(q))' => Sweeping(q) /\ proc'[q] = proc[q]
                          /\ Sweeping(q) => proc'[q] = proc[q]
                          /\ proc[q].at = "save" /\ q # p => proc'[q].at = "save"
  BY FreeMove DEF IInv
<1>2. \A o \in Objects : obj'[o].cfg = obj[o].cfg /\ ((Runs(o))' => Runs(o))
  BY DEF Runs
<1>3. BoundInv'
  <2>1. \A u \in Uids : CanGrow(u)' \subseteq CanGrow(u)
    BY ToFacts DEF CanGrow, IInv
  <2> QED BY <2>1, BoundKept DEF IInv
<1>4. ListInv' /\ SweepInv' /\ RunInv' /\ SaveInv'
  BY <1>1, <1>2, QuietStep DEF IInv
<1> QED BY <1>1, <1>3, <1>4 DEF Kept

(* Steps of the gateways, of the service and of others.                         *)
LEMMA PlainActions ==
  ASSUME IInv, Types',
         \/ UNCHANGED vars \/ ServeAll \/ StopGateways \/ EditSerial \/ TakePort
         \/ \E o \in Objects : Bind(o)
  PROVE  Kept
<1>0. obj \in [Objects -> GatewayType]
  BY ObjType DEF IInv
<1>1. CASE UNCHANGED vars
  <2>1. \A o \in Objects : obj'[o].cfg = obj[o].cfg /\ ((Runs(o))' => Runs(o))
    BY <1>1 DEF vars, Runs
  <2> QED BY <1>1, <2>1, PlainStep DEF vars, IInv, Kept
<1>2. CASE ServeAll \/ EditSerial \/ TakePort
  <2>1. /\ UNCHANGED <<list, told, file, proc, lock, gen, obj>>
        /\ phase' = phase \/ (phase = "endpoints" /\ phase' = "serving")
    BY <1>2 DEF ServeAll, EditSerial, TakePort, AddEndpoint
  <2>2. \A o \in Objects : obj'[o].cfg = obj[o].cfg /\ ((Runs(o))' => Runs(o))
    BY <2>1 DEF Runs
  <2> QED BY <2>1, <2>2, PlainStep DEF IInv, Kept
<1>3. CASE StopGateways
  <2>1. UNCHANGED <<list, told, file, proc, lock, gen>> /\ phase' = "stopped"
    BY <1>3 DEF StopGateways
  <2>2. ASSUME NEW o \in Objects PROVE obj'[o].cfg = obj[o].cfg /\ ((Runs(o))' => Runs(o))
    <3>1. obj'[o] = obj[o] \/ obj'[o] = Stopped(obj[o])
      BY <1>3 DEF StopGateways
    <3>2. obj[o] \in GatewayType /\ Default \in Settings
      BY <1>0, SettingsType
    <3>3. Stopped(obj[o]).cfg = obj[o].cfg /\ ~Stopped(obj[o]).on /\ Stopped(obj[o]).task = "none"
      BY <3>2, GatewayTypes
    <3> QED BY <3>1, <3>3 DEF Runs
  <2> QED BY <2>1, <2>2, PlainStep DEF IInv, Kept
<1>4. ASSUME NEW o \in Objects, Bind(o) PROVE Kept
  <2>1. PICK t : obj' = [obj EXCEPT ![o].task = t]
    BY <1>4 DEF Bind
  <2>2. obj[o].task = "starting" /\ UNCHANGED <<list, told, file, proc, lock, gen, phase>>
    BY <1>4 DEF Bind
  <2>3. \A x \in Objects : obj'[x].cfg = obj[x].cfg /\ ((Runs(x))' => Runs(x))
    BY <1>0, <2>1, <2>2 DEF Runs, GatewayType
  <2> QED BY <2>2, <2>3, PlainStep DEF IInv, Kept
<1> QED BY <1>1, <1>2, <1>3, <1>4

(* Handlers that wait, ask and answer.                                          *)
LEMMA FreeActions ==
  ASSUME IInv, Types',
         \/ ServeFirst \/ Broken
         \/ \E p \in Procs : Load(p)
         \/ \E c \in Clients : AnswerList(c) \/ SetGateway(c)
  PROVE  Kept
<1>r. Rest \in ProcType /\ Rest.at = "rest" /\ "run" \in Procs
  BY RestType, ProcsFinite DEF Rest
<1>1. CASE ServeFirst \/ Broken
  <2>1. /\ To("run", Rest) /\ UNCHANGED <<list, told, file, obj, lock, gen>>
        /\ proc["run"].at \in {"list", "broken"} /\ phase' \in {"endpoints", "stopping"} /\ phase = "updating"
    BY <1>1 DEF ServeFirst, Broken, AddEndpoint
  <2> QED BY <1>r, <2>1, FreeKept
<1>2. ASSUME NEW p \in Procs, Load(p) PROVE Kept
  <2>1. /\ proc[p].at = "load" /\ phase' = phase /\ UNCHANGED <<list, told, file, obj, lock, gen>>
        /\ phase # "starting"
    BY <1>2, Begun DEF Load, IInv
  <2>2. PICK r \in ProcType : To(p, r) /\ r.at \in {"want", "list"}
    <3>1. proc[p] \in ProcType /\ serial \in SUBSET Uids
      BY ProcFields DEF IInv, Types, TypeOK
    <3>2. /\ [proc[p] EXCEPT !.at = "want", !.ids = serial] \in ProcType
          /\ [proc[p] EXCEPT !.at = "list"] \in ProcType
          /\ [proc[p] EXCEPT !.at = "want", !.ids = serial].at = "want"
          /\ [proc[p] EXCEPT !.at = "list"].at = "list"
      BY <3>1 DEF ProcType, Ats
    <3> QED BY <1>2, <3>2 DEF Load
  <2> QED BY <2>1, <2>2, FreeKept
<1>3. ASSUME NEW c \in Clients, AnswerList(c) PROVE Kept
  <2>1. /\ c \in Procs /\ proc[c].at = "list" /\ phase' = phase
        /\ UNCHANGED <<list, told, file, obj, lock, gen>> /\ To(c, Rest)
    BY <1>3 DEF AnswerList, Answer, Procs
  <2>2. phase # "starting"
    BY <2>1, Begun DEF IInv
  <2> QED BY <1>r, <2>1, <2>2, FreeKept
<1>4. ASSUME NEW c \in Clients, SetGateway(c) PROVE Kept
  <2>1. /\ c \in Procs /\ proc[c] = Rest /\ phase' = phase /\ phase = "serving"
        /\ UNCHANGED <<list, told, file, obj, lock, gen>>
    BY <1>4 DEF SetGateway, Procs
  <2>2. PICK r \in ProcType : To(c, r) /\ r.at = "set"
    <3>1. PICK u \in Uids, cfg \in Settings : To(c, [Rest EXCEPT !.at = "set", !.uid = u, !.cfg = cfg])
      BY <1>4 DEF SetGateway
    <3>2. /\ [Rest EXCEPT !.at = "set", !.uid = u, !.cfg = cfg] \in ProcType
          /\ [Rest EXCEPT !.at = "set", !.uid = u, !.cfg = cfg].at = "set"
      BY <1>r DEF ProcType, Ats
    <3> QED BY <3>1, <3>2
  <2> QED BY <1>r, <2>1, <2>2, FreeKept
<1> QED BY <1>1, <1>2, <1>3, <1>4

(* GetList begins only where there is room for one more update.                 *)
LEMMA GetListKept ==
  ASSUME IInv, Types', NEW c \in Clients, GetList(c)
  PROVE  Kept
<1>0. /\ c \in Procs /\ proc[c] = Rest /\ Rest.at = "rest" /\ phase' = phase /\ phase \in {"endpoints", "serving"}
      /\ UNCHANGED <<list, told, file, obj, lock, gen>>
  BY DEF GetList, Procs, Rest
<1>1. PICK r \in ProcType : To(c, r) /\ r.at = "load"
  <2>1. [Rest EXCEPT !.at = "load"] \in ProcType /\ [Rest EXCEPT !.at = "load"].at = "load"
    BY RestType DEF ProcType, Ats
  <2> QED BY <2>1 DEF GetList
<1>2. /\ LockInv'
      /\ \A q \in Procs : /\ (Sweeping(q))' => Sweeping(q) /\ proc'[q] = proc[q]
                          /\ Sweeping(q) => proc'[q] = proc[q]
                          /\ proc[q].at = "save" /\ q # c => proc'[q].at = "save"
  BY <1>0, <1>1, FreeMove DEF IInv
<1>3. \A o \in Objects : obj'[o].cfg = obj[o].cfg /\ ((Runs(o))' => Runs(o))
  BY <1>0 DEF Runs
<1>4. ListInv' /\ SweepInv' /\ RunInv' /\ SaveInv'
  BY <1>0, <1>2, <1>3, QuietStep DEF IInv
<1>5. BoundInv'
  <2> DEFINE busy == {p \in Procs : proc[p].at \in {"load", "want", "sweep"}}
  <2>1. IsFiniteSet(busy) /\ Cardinality(busy) \in Nat
    <3>1. busy \in SUBSET Procs
      OBVIOUS
    <3>2. IsFiniteSet(busy)
      BY <3>1, ProcsFinite, FS_Subset
    <3> QED BY <3>2, FS_CardinalityType
  <2>2. ASSUME NEW u \in Uids PROVE gen'[u] + Cardinality(CanGrow(u)') <= MaxGen
    <3>1. CanGrow(u)' \in SUBSET (busy \cup {c})
      BY <1>0, <1>1, ToFacts DEF CanGrow, IInv
    <3>2. IsFiniteSet(busy \cup {c}) /\ Cardinality(busy \cup {c}) \in {Cardinality(busy), Cardinality(busy) + 1}
      BY <2>1, FS_AddElement
    <3>3. IsFiniteSet(CanGrow(u)') /\ Cardinality(CanGrow(u)') <= Cardinality(busy \cup {c})
      BY <3>1, <3>2, FS_Subset
    <3>4. Cardinality(CanGrow(u)') \in Nat
      BY <3>3, FS_CardinalityType
    <3>5. gen[u] \in Nat /\ MaxGen \in Nat /\ gen[u] + Cardinality(busy) < MaxGen
      BY ServiceAssumption DEF GetList, IInv, Types, TypeOK
    <3> HIDE DEF busy
    <3> QED BY <1>0, <2>1, <3>2, <3>3, <3>4, <3>5
  <2> QED BY <1>0, <2>2 DEF BoundInv
<1> QED BY <1>2, <1>4, <1>5 DEF Kept

(* A stop of the service, which leaves whoever closes a websocket.              *)
LEMMA StopServingKept ==
  ASSUME IInv, Types', StopServing
  PROVE  Kept
<1>0. /\ phase' = "stopping" /\ UNCHANGED <<list, told, file, obj, gen>>
      /\ proc' = [p \in Procs |-> IF proc[p].at = "closing" THEN proc[p] ELSE Rest]
      /\ lock' = IF lock \in Procs /\ proc[lock].at = "closing" THEN lock ELSE Nobody
      /\ Rest.at = "rest"
  BY DEF StopServing, Rest
<1>1. LockInv'
  BY <1>0, ProcsFinite DEF IInv, LockInv
<1>2. \A o \in Objects : obj'[o].cfg = obj[o].cfg /\ ((Runs(o))' => Runs(o))
  BY <1>0 DEF Runs
<1>3. \A p \in Procs : ~(Sweeping(p))'
  BY <1>0 DEF Sweeping
<1>4. BoundInv'
  <2>1. \A u \in Uids : CanGrow(u)' \subseteq CanGrow(u)
    BY <1>0 DEF CanGrow
  <2> QED BY <1>0, <2>1, BoundKept DEF IInv
<1>5. ListInv' /\ SweepInv' /\ RunInv' /\ SaveInv'
  BY <1>0, <1>2, <1>3, QuietStep DEF IInv
<1> QED BY <1>1, <1>4, <1>5 DEF Kept

(* The gateways of the file are started.                                        *)
LEMMA StartAllKept ==
  ASSUME IInv, Types', StartAll
  PROVE  Kept
<1>0. /\ phase = "starting" /\ phase' = "updating" /\ UNCHANGED <<list, told, file, lock, gen>>
      /\ obj' = [o \in Objects |-> IF o \in Listed THEN Started(obj[o]) ELSE obj[o]]
      /\ gen = [u \in Uids |-> 0] /\ proc = [p \in Procs |-> Rest] /\ Rest.at = "rest" /\ "run" \in Procs
  BY ProcsFinite DEF StartAll, IInv, BoundInv, Rest
<1>1. PICK r \in ProcType : To("run", r) /\ r.at = "load"
  <2>1. [Rest EXCEPT !.at = "load"] \in ProcType /\ [Rest EXCEPT !.at = "load"].at = "load"
    BY RestType DEF ProcType, Ats
  <2> QED BY <2>1 DEF StartAll
<1>2. proc'["run"] = r /\ \A q \in Procs : q # "run" => proc'[q] = Rest
  BY <1>0, <1>1, ToFacts DEF IInv
<1>3. LockInv'
  BY <1>0, <1>1, <1>2 DEF IInv, LockInv
<1>4. BoundInv'
  <2>1. ASSUME NEW u \in Uids PROVE gen'[u] + Cardinality(CanGrow(u)') <= MaxGen
    <3>1. CanGrow(u)' = {"run"}
      BY <1>0, <1>1, <1>2 DEF CanGrow
    <3>2. Cardinality(CanGrow(u)') = 1
      BY <3>1, FS_Singleton
    <3>3. gen'[u] = 0 /\ MaxGen \in Nat /\ MaxGen >= 1
      BY <1>0, ServiceAssumption
    <3> QED BY <3>2, <3>3
  <2> QED BY <1>0, <2>1 DEF BoundInv
<1>5. Listed \subseteq Objects /\ Listed' = Listed
  BY <1>0, ListedType DEF IInv, Listed
<1>6. \A o \in Objects : obj'[o].cfg = obj[o].cfg /\ (o \notin Listed => obj'[o] = obj[o])
  <2>1. \A o \in Objects : Started(obj[o]).cfg = obj[o].cfg
    BY GatewayTypes, SettingsType, ObjType DEF IInv
  <2> QED BY <1>0, <2>1
<1>7. \A p \in Procs : ~(Sweeping(p))' /\ ~Sweeping(p) /\ proc[p].at # "save"
  BY <1>0, <1>1, <1>2 DEF Sweeping
<1>8. ListInv' /\ SweepInv'
  BY <1>0, <1>5, <1>7 DEF IInv, ListInv, SweepInv
<1>9. RunInv'
  BY <1>0, <1>5, <1>6, <1>7 DEF IInv, RunInv, Runs
<1>10. SaveInv'
  <2>1. Saved(list)' = Saved(list)
    BY <1>0, <1>5, <1>6, SavedSame DEF IInv
  <2> QED BY <1>0, <1>5, <1>6, <1>7, <2>1 DEF IInv, SaveInv
<1> QED BY <1>3, <1>4, <1>8, <1>9, <1>10 DEF Kept

(* The lock keeps all but one away from the list.                               *)
LEMMA Alone ==
  ASSUME LockInv, NEW p \in Procs
  PROVE  /\ proc[p].at \in {"sweep", "closing"} =>
              lock = p /\ \A q \in Procs : q # p => proc[q].at \notin {"sweep", "closing"}
         /\ lock = Nobody => \A q \in Procs : proc[q].at \notin {"sweep", "closing"}
  BY ProcsFinite DEF LockInv

LEMMA TakeLockKept ==
  ASSUME IInv, Types', NEW p \in Procs, TakeLock(p)
  PROVE  Kept
<1>0. /\ proc[p].at = "want" /\ lock = Nobody /\ lock' = p /\ phase' = phase /\ phase # "starting"
      /\ UNCHANGED <<list, told, file, obj, gen>>
  BY Begun DEF TakeLock, Acquire, IInv
<1>1. PICK r \in ProcType : /\ To(p, r) /\ r.at = "sweep" /\ r.ids = proc[p].ids
                            /\ r.todo = list /\ r.keep = <<>>
  <2>1. /\ proc[p] \in ProcType /\ list \in Seq(Objects) /\ <<>> \in Seq(Objects)
    BY ProcFields, SetEmpty DEF IInv, Types, TypeOK
  <2> DEFINE r == [proc[p] EXCEPT !.at = "sweep", !.todo = list, !.keep = <<>>]
  <2>2. r \in ProcType /\ r.at = "sweep" /\ r.ids = proc[p].ids /\ r.todo = list /\ r.keep = <<>>
    BY <2>1 DEF ProcType, Ats
  <2> QED BY <2>2 DEF TakeLock
<1>2. proc'[p] = r /\ \A q \in Procs : q # p => proc'[q] = proc[q]
  BY <1>1, ToFacts DEF IInv
<1>3. \A q \in Procs : ~Sweeping(q) /\ proc[q].at # "closing"
  BY <1>0, Alone DEF IInv, Sweeping
<1>4. LockInv'
  BY <1>0, <1>1, <1>2, <1>3 DEF LockInv, Sweeping
<1>5. BoundInv'
  <2>1. \A u \in Uids : CanGrow(u)' \subseteq CanGrow(u)
    BY <1>0, <1>1, <1>2 DEF CanGrow
  <2> QED BY <1>0, <2>1, BoundKept DEF IInv
<1>6. Listed' = Listed /\ Listed \subseteq Objects /\ ToSet(r.todo) = Listed /\ ToSet(r.keep) = {}
  BY <1>0, <1>1, ListedType, SetEmpty DEF IInv, Listed
<1>7. ListInv'
  BY <1>0, <1>6 DEF IInv, ListInv
<1>8. SweepInv'
  <2>1. SweepOf({}, Listed, r.ids)'
    BY <1>6, <1>7 DEF SweepOf, ListInv
  <2> QED BY <1>2, <1>3, <1>6, <2>1 DEF SweepInv, Sweeping
<1>9. RunInv'
  BY <1>0, <1>3, <1>6 DEF IInv, RunInv, Runs
<1>10. SaveInv'
  <2>1. Saved(list)' = Saved(list)
    BY <1>0 DEF Saved
  <2>2. \A q \in Procs : proc[q].at = "save" => proc'[q].at = "save"
    BY <1>0, <1>2
  <2> QED BY <1>0, <1>6, <2>1, <2>2 DEF IInv, SaveInv
<1> QED BY <1>4, <1>5, <1>7, <1>8, <1>9, <1>10 DEF Kept

(* A step of an update that goes on.                                            *)
LEMMA SweepMove ==
  ASSUME IInv, Types', NEW p \in Procs, NEW r \in ProcType, To(p, r), Sweeping(p), r.at = "sweep",
         UNCHANGED <<list, file, gen, lock, phase>>,
         \A o \in Objects : obj'[o].cfg = obj[o].cfg /\ ((Runs(o))' => Runs(o)),
         \A u \in Uids : told'[u] = told[u] \/ told'[u] = NotTold,
         r.ids \subseteq proc[p].ids, ToSet(proc[p].keep) \subseteq ToSet(r.keep),
         (SweepOf(ToSet(r.keep), ToSet(r.todo), r.ids))'
  PROVE  Kept
<1>1. proc'[p] = r /\ \A q \in Procs : q # p => proc'[q] = proc[q]
  BY ToFacts DEF IInv
<1>2. \A q \in Procs : q # p => ~Sweeping(q)
  BY Alone DEF IInv, Sweeping
<1>3. LockInv'
  BY <1>1 DEF IInv, LockInv, Sweeping
<1>4. BoundInv'
  <2>1. \A u \in Uids : CanGrow(u)' \subseteq CanGrow(u)
    BY <1>1 DEF CanGrow, Sweeping
  <2>2. phase' # "starting"
    BY Begun DEF IInv, Sweeping
  <2> QED BY <2>1, <2>2, BoundKept DEF IInv
<1>5. Listed' = Listed /\ Listed \subseteq Objects /\ \A o \in Listed : o[1] \in Uids
  BY ListedType, ObjectParts DEF IInv, Listed
<1>6. ListInv'
  BY <1>5 DEF IInv, ListInv
<1>7. SweepInv'
  BY <1>1, <1>2 DEF SweepInv, Sweeping
<1>8. RunInv'
  BY <1>1, <1>2, <1>5 DEF IInv, RunInv, Sweeping
<1>9. SaveInv'
  <2>1. Saved(list)' = Saved(list)
    BY <1>5, SavedSame DEF IInv
  <2>2. \A q \in Procs : proc[q].at = "save" => proc'[q].at = "save"
    BY <1>1 DEF Sweeping
  <2> QED BY <1>5, <2>1, <2>2 DEF IInv, SaveInv
<1> QED BY <1>3, <1>4, <1>6, <1>7, <1>8, <1>9 DEF Kept

(* The next gateway of the list is kept, is stopped, or ends the update.        *)
LEMMA SweepKept ==
  ASSUME IInv, Types', NEW p \in Procs, Sweep(p)
  PROVE  Kept
<1> DEFINE todo == proc[p].todo
           on == [proc[p] EXCEPT !.todo = Tail(@)]
<1>0. /\ Sweeping(p) /\ todo # <<>> /\ todo \in Seq(Objects) /\ proc[p].keep \in Seq(Objects)
      /\ UNCHANGED <<list, file, gen, phase>> /\ proc[p] \in ProcType
  BY ProcFields DEF Sweep, Sweeping, IInv
<1>1. PICK o \in Objects : o = Head(todo)
  BY <1>0, SetHead
<1>2. /\ Tail(todo) \in Seq(Objects) /\ ToSet(todo) = {o} \cup ToSet(Tail(todo))
      /\ Append(proc[p].keep, o) \in Seq(Objects) /\ ToSet(Append(proc[p].keep, o)) = ToSet(proc[p].keep) \cup {o}
  BY <1>0, <1>1, SetHead, SetAppend
<1>3. SweepOf(ToSet(proc[p].keep), ToSet(todo), proc[p].ids)
  BY <1>0 DEF IInv, SweepInv
<1>4. o \in Listed /\ o[1] \in Uids /\ Listed' = Listed /\ Listed \subseteq Objects
  BY <1>0, <1>2, <1>3, ObjectParts, ListedType DEF SweepOf, IInv, Listed
<1>5. obj \in [Objects -> GatewayType] /\ told \in [Uids -> Settings \cup {NotTold}]
  BY ObjType DEF IInv, Types
<1>6. CASE /\ o[1] \in proc[p].ids
           /\ To(p, [on EXCEPT !.keep = Append(@, o), !.ids = @ \ {o[1]}])
           /\ UNCHANGED <<obj, lock, told>>
  <2>1. PICK r \in ProcType : /\ To(p, r) /\ r.at = "sweep" /\ r.todo = Tail(todo)
                              /\ r.keep = Append(proc[p].keep, o) /\ r.ids = proc[p].ids \ {o[1]}
    <3> DEFINE r == [on EXCEPT !.keep = Append(@, o), !.ids = @ \ {o[1]}]
    <3>1. /\ r \in ProcType /\ r.at = "sweep" /\ r.todo = Tail(todo)
          /\ r.keep = Append(proc[p].keep, o) /\ r.ids = proc[p].ids \ {o[1]}
      BY <1>0, <1>2 DEF ProcType, Sweeping
    <3> QED BY <1>6, <3>1
  <2>2. (SweepOf(ToSet(r.keep), ToSet(r.todo), r.ids))'
    <3>1. SweepOf(ToSet(proc[p].keep) \cup {o}, ToSet(Tail(todo)), proc[p].ids \ {o[1]})
      BY <1>2, <1>3, <1>4 DEF SweepOf
    <3> QED BY <1>2, <1>4, <1>6, <2>1, <3>1 DEF SweepOf, Runs
  <2>3. ToSet(proc[p].keep) \subseteq ToSet(r.keep) /\ r.ids \subseteq proc[p].ids
    BY <1>2, <2>1
  <2> QED BY <1>0, <1>6, <2>1, <2>2, <2>3, SweepMove DEF Runs
<1>7. CASE /\ o[1] \notin proc[p].ids
           /\ obj' = [obj EXCEPT ![o] = Stopped(@)]
           /\ told' = [told EXCEPT ![o[1]] = NotTold]
           /\ To(p, on) /\ UNCHANGED lock
  <2>1. PICK r \in ProcType : /\ To(p, r) /\ r.at = "sweep" /\ r.todo = Tail(todo)
                              /\ r.keep = proc[p].keep /\ r.ids = proc[p].ids
    <3>1. /\ on \in ProcType /\ on.at = "sweep" /\ on.todo = Tail(todo)
          /\ on.keep = proc[p].keep /\ on.ids = proc[p].ids
      BY <1>0, <1>2 DEF ProcType, Sweeping
    <3> QED BY <1>7, <3>1
  <2>2. Stopped(obj[o]).cfg = obj[o].cfg /\ ~Stopped(obj[o]).on /\ Stopped(obj[o]).task = "none"
    <3>1. obj[o] \in GatewayType /\ Default \in Settings
      BY <1>5, SettingsType
    <3> QED BY <3>1, GatewayTypes
  <2>3. /\ \A x \in Objects : obj'[x].cfg = obj[x].cfg /\ ((Runs(x))' => Runs(x))
        /\ ~(Runs(o))' /\ told'[o[1]] = NotTold
        /\ \A u \in Uids : told'[u] = told[u] \/ told'[u] = NotTold
    BY <1>4, <1>5, <1>7, <2>2 DEF Runs
  <2>4. (SweepOf(ToSet(r.keep), ToSet(r.todo), r.ids))'
    <3>1. \A x \in Listed : x[1] \in Uids /\ x \in Objects
      BY <1>4, ObjectParts
    <3>2. \A x \in ToSet(proc[p].keep) : x[1] \in Uids
      BY <1>0, SetType, ObjectParts
    <3>3. ASSUME NEW x \in Listed
          PROVE  \/ x \in ToSet(proc[p].keep) \cup ToSet(Tail(todo))
                 \/ x[1] \notin proc[p].ids /\ ~(Runs(x))' /\ told'[x[1]] = NotTold
      <4>1. CASE x = o
        BY <1>7, <2>3, <4>1
      <4>2. CASE x # o
        BY <1>2, <1>3, <2>3, <3>1, <4>2 DEF SweepOf
      <4> QED BY <4>1, <4>2
    <3>4. \A x \in ToSet(proc[p].keep) : x[1] \notin proc[p].ids /\ (x \in Listed \/ told'[x[1]] = NotTold)
      BY <1>3, <2>3, <3>2 DEF SweepOf
    <3>5. /\ ToSet(Tail(todo)) \subseteq Listed /\ ToSet(proc[p].keep) \subseteq Listed
          /\ \A x, y \in ToSet(proc[p].keep) \cup ToSet(Tail(todo)) : x[1] = y[1] => x = y
      BY <1>2, <1>3 DEF SweepOf
    <3> QED BY <1>4, <2>1, <3>3, <3>4, <3>5 DEF SweepOf
  <2> QED BY <1>0, <1>7, <2>1, <2>3, <2>4, SweepMove
<1>8. CASE /\ lock' = Nobody /\ UNCHANGED <<obj, told>>
           /\ To(p, [Rest EXCEPT !.at = IF p = "run" THEN "broken" ELSE "rest"])
  <2>1. PICK r \in ProcType : To(p, r) /\ r.at \in {"broken", "rest"}
    <3>1. \A a \in {"broken", "rest"} : [Rest EXCEPT !.at = a] \in ProcType /\ [Rest EXCEPT !.at = a].at = a
      BY RestType DEF ProcType, Ats
    <3> QED BY <1>8, <3>1
  <2>2. proc'[p] = r /\ \A q \in Procs : q # p => proc'[q] = proc[q]
    BY <2>1, ToFacts DEF IInv
  <2>3. \A q \in Procs : q # p => ~Sweeping(q) /\ proc[q].at # "closing"
    BY <1>0, Alone DEF IInv, Sweeping
  <2>4. \A q \in Procs : ~(Sweeping(q))' /\ proc'[q].at # "closing"
    BY <2>1, <2>2, <2>3 DEF Sweeping
  <2>5. LockInv'
    BY <1>8, <2>4, ProcsFinite DEF LockInv, Sweeping
  <2>6. BoundInv'
    <3>1. \A u \in Uids : CanGrow(u)' \subseteq CanGrow(u)
      BY <2>1, <2>2 DEF CanGrow
    <3>2. phase' # "starting"
      BY <1>0, Begun DEF IInv, Sweeping
    <3> QED BY <1>0, <3>1, <3>2, BoundKept DEF IInv
  <2>7. ListInv'
    BY <1>4, <1>8 DEF IInv, ListInv
  <2>8. SweepInv'
    BY <2>4 DEF SweepInv
  <2>9. RunInv'
    <3>1. ToSet(proc[p].keep) \subseteq Listed
      BY <1>2, <1>3 DEF SweepOf
    <3> QED BY <1>0, <1>4, <1>8, <2>3, <3>1 DEF IInv, RunInv, Runs
  <2>10. SaveInv'
    <3>1. Saved(list)' = Saved(list)
      BY <1>0, <1>8 DEF Saved
    <3>2. \A q \in Procs : proc[q].at = "save" => proc'[q].at = "save"
      BY <1>0, <2>2 DEF Sweeping
    <3> QED BY <1>0, <1>4, <1>8, <3>1, <3>2 DEF IInv, SaveInv
  <2> QED BY <2>5, <2>6, <2>7, <2>8, <2>9, <2>10 DEF Kept
<1> QED BY <1>1, <1>6, <1>7, <1>8 DEF Sweep, ReleaseOnError

(* A gateway that is new comes into the hands of the update.                    *)
LEMMA GrowKept ==
  ASSUME IInv, Types', NEW p \in Procs, Grow(p)
  PROVE  Kept
<1>0. /\ Sweeping(p) /\ proc[p].todo = <<>> /\ proc[p] \in ProcType /\ proc[p].keep \in Seq(Objects)
      /\ UNCHANGED <<list, lock, file, told, phase>>
  BY ProcFields DEF Grow, Sweeping, IInv
<1>1. PICK u \in proc[p].ids :
        /\ gen' = [gen EXCEPT ![u] = @ + 1]
        /\ obj' = [obj EXCEPT ![<<u, gen[u] + 1>>] = Started(Fresh(Default))]
        /\ To(p, [proc[p] EXCEPT !.ids = @ \ {u}, !.keep = Append(@, <<u, gen[u] + 1>>)])
  BY DEF Grow
<1>2. gen[u] + 1 \in 0 .. MaxGen /\ <<u, gen[u] + 1>> \in Objects /\ u \in Uids
  BY <1>0, <1>1, RoomToGrow DEF IInv
<1>3. PICK o \in Objects : o = <<u, gen[u] + 1>> /\ o[1] = u
  BY <1>2
<1>4. PICK r \in ProcType : /\ To(p, r) /\ r.at = "sweep" /\ r.todo = <<>> /\ r.ids = proc[p].ids \ {u}
                            /\ ToSet(r.keep) = ToSet(proc[p].keep) \cup {o}
  <2> DEFINE r == [proc[p] EXCEPT !.ids = @ \ {u}, !.keep = Append(@, o)]
  <2>1. Append(proc[p].keep, o) \in Seq(Objects) /\ ToSet(Append(proc[p].keep, o)) = ToSet(proc[p].keep) \cup {o}
    BY <1>0, SetAppend
  <2>2. /\ r \in ProcType /\ r.at = "sweep" /\ r.todo = <<>> /\ r.ids = proc[p].ids \ {u}
        /\ r.keep = Append(proc[p].keep, o)
    BY <1>0, <2>1 DEF ProcType, Sweeping
  <2> QED BY <1>1, <1>3, <2>1, <2>2
<1>5. proc'[p] = r /\ \A q \in Procs : q # p => proc'[q] = proc[q]
  BY <1>4, ToFacts DEF IInv
<1>6. \A q \in Procs : q # p => ~Sweeping(q) /\ proc[q].at # "closing"
  BY <1>0, Alone DEF IInv, Sweeping
<1>7. SweepOf(ToSet(proc[p].keep), {}, proc[p].ids)
  BY <1>0, SetEmpty DEF IInv, SweepInv
<1>8. Listed' = Listed /\ Listed \subseteq Objects
  BY <1>0, ListedType DEF IInv, Listed
<1>9. \A x \in Listed : x[1] # u
  BY <1>1, <1>7 DEF SweepOf
<1>10. told[u] = NotTold /\ o \notin Listed
  BY <1>2, <1>3, <1>9 DEF IInv, ListInv
<1>11. \A x \in Objects : x # o => obj'[x] = obj[x]
  BY <1>1, <1>3, ObjType DEF IInv
<1>12. LockInv'
  BY <1>0, <1>4, <1>5, <1>6 DEF IInv, LockInv, Sweeping
<1>13. BoundInv'
  <2>1. ASSUME NEW v \in Uids PROVE gen'[v] + Cardinality(CanGrow(v)') <= MaxGen
    <3>1. gen \in [Uids -> 0 .. MaxGen] /\ MaxGen \in Nat /\ gen[v] + Cardinality(CanGrow(v)) <= MaxGen
      BY ServiceAssumption DEF IInv, Types, TypeOK, BoundInv
    <3>2. CASE v = u
      <4>1. CanGrow(v)' = CanGrow(v) \ {p} /\ p \in CanGrow(v)
        BY <1>0, <1>1, <1>4, <1>5, <3>2 DEF CanGrow, Sweeping
      <4>2. Cardinality(CanGrow(v)') = Cardinality(CanGrow(v)) - 1
        BY <4>1, CanGrowCount, FS_RemoveElement
      <4>3. gen'[v] = gen[v] + 1
        BY <1>1, <3>1, <3>2
      <4> QED BY <3>1, <4>2, <4>3, CanGrowCount
    <3>3. CASE v # u
      <4>1. CanGrow(v)' \in SUBSET CanGrow(v)
        BY <1>4, <1>5, <1>0 DEF CanGrow, Sweeping
      <4>2. IsFiniteSet(CanGrow(v)') /\ Cardinality(CanGrow(v)') <= Cardinality(CanGrow(v))
        BY <4>1, CanGrowCount, FS_Subset
      <4>3. Cardinality(CanGrow(v)') \in Nat /\ Cardinality(CanGrow(v)) \in Nat
        BY <4>2, CanGrowCount, FS_CardinalityType
      <4>4. gen'[v] = gen[v]
        BY <1>1, <3>3, <3>1
      <4> QED BY <3>1, <4>2, <4>3, <4>4
    <3> QED BY <3>2, <3>3
  <2>2. phase' # "starting"
    BY <1>0, Begun DEF IInv, Sweeping
  <2> QED BY <2>1, <2>2 DEF BoundInv
<1>14. ListInv'
  BY <1>0, <1>8 DEF IInv, ListInv
<1>15. SweepInv'
  <2>1. \A x \in Listed : (Runs(x))' <=> Runs(x)
    BY <1>8, <1>10, <1>11 DEF Runs
  <2>2. PICK K, I : K = ToSet(proc[p].keep) /\ I = proc[p].ids
    OBVIOUS
  <2>3. (SweepOf(K \cup {o}, {}, I \ {u}))'
    <3>1. ASSUME NEW x \in K \cup {o} PROVE x[1] \notin I \ {u} /\ (x \in Listed \/ told[x[1]] = NotTold)
      BY <1>3, <1>7, <1>10, <2>2, <3>1 DEF SweepOf
    <3>2. \A x, y \in K : x[1] = y[1] => x = y
      BY <1>7, <2>2 DEF SweepOf
    <3>3. \A x \in K : x[1] # u
      BY <1>1, <1>7, <2>2 DEF SweepOf
    <3>4. \A x, y \in K \cup {o} : x[1] = y[1] => x = y
      BY <1>3, <3>2, <3>3
    <3>5. ASSUME NEW x \in Listed
          PROVE  x \in K \cup {o} \/ (x[1] \notin I \ {u} /\ ~(Runs(x))' /\ told[x[1]] = NotTold)
      BY <1>7, <2>1, <2>2, <3>5 DEF SweepOf
    <3> QED BY <1>0, <1>8, <3>1, <3>4, <3>5 DEF SweepOf
  <2>4. ToSet(r.todo) = {}
    BY <1>4, SetEmpty
  <2> QED BY <1>4, <1>5, <1>6, <2>2, <2>3, <2>4 DEF SweepInv, Sweeping
<1>16. RunInv'
  <2>1. ASSUME NEW x \in Objects, (Runs(x))', x # o PROVE Runs(x)
    BY <1>11, <2>1 DEF Runs
  <2> QED BY <1>0, <1>4, <1>5, <1>6, <1>8, <2>1 DEF IInv, RunInv, Sweeping
<1>17. SaveInv'
  <2>1. \A x \in Listed : obj'[x].cfg = obj[x].cfg
    BY <1>8, <1>10, <1>11
  <2>2. Saved(list)' = Saved(list)
    BY <1>0, <2>1, SavedSame DEF IInv
  <2>3. \A q \in Procs : proc[q].at = "save" => proc'[q].at = "save"
    BY <1>0, <1>5 DEF Sweeping
  <2> QED BY <1>0, <1>8, <2>1, <2>2, <2>3 DEF IInv, SaveInv
<1> QED BY <1>12, <1>13, <1>14, <1>15, <1>16, <1>17 DEF Kept

(* The list becomes what the update kept and made.                              *)
LEMMA ReplaceKept ==
  ASSUME IInv, Types', NEW p \in Procs, Replace(p)
  PROVE  Kept
<1>0. /\ Sweeping(p) /\ proc[p].todo = <<>> /\ proc[p].ids = {} /\ proc[p] \in ProcType
      /\ list' = proc[p].keep /\ lock' = Nobody
      /\ UNCHANGED <<obj, gen, file, told, phase>>
  BY ProcFields DEF Replace, Sweeping, IInv
<1>1. PICK r \in ProcType : To(p, r) /\ r.at = "save"
  <2>1. [proc[p] EXCEPT !.at = "save"] \in ProcType /\ [proc[p] EXCEPT !.at = "save"].at = "save"
    BY <1>0 DEF ProcType, Ats
  <2> QED BY <2>1 DEF Replace
<1>2. proc'[p] = r /\ \A q \in Procs : q # p => proc'[q] = proc[q]
  BY <1>1, ToFacts DEF IInv
<1>3. \A q \in Procs : q # p => ~Sweeping(q) /\ proc[q].at # "closing"
  BY <1>0, Alone DEF IInv, Sweeping
<1>4. \A q \in Procs : ~(Sweeping(q))' /\ proc'[q].at # "closing"
  BY <1>1, <1>2, <1>3 DEF Sweeping
<1>5. SweepOf(ToSet(proc[p].keep), {}, {})
  BY <1>0, SetEmpty DEF IInv, SweepInv
<1>6. Listed' = ToSet(proc[p].keep) /\ Listed \subseteq Objects
  BY <1>0, ListedType DEF IInv, Listed
<1>7. LockInv'
  BY <1>0, <1>4, ProcsFinite DEF LockInv, Sweeping
<1>8. BoundInv'
  <2>1. \A u \in Uids : CanGrow(u)' \subseteq CanGrow(u)
    BY <1>1, <1>2 DEF CanGrow
  <2>2. phase' # "starting"
    BY <1>0, Begun DEF IInv, Sweeping
  <2> QED BY <1>0, <2>1, <2>2, BoundKept DEF IInv
<1>9. ListInv'
  <2>1. \A o, x \in Listed' : o[1] = x[1] => o = x
    BY <1>5, <1>6 DEF SweepOf
  <2>2. ASSUME NEW u \in Uids, told[u] # NotTold PROVE \E o \in Listed' : o[1] = u
    BY <1>5, <1>6, <2>2 DEF IInv, ListInv, SweepOf
  <2> QED BY <1>0, <2>1, <2>2 DEF ListInv
<1>10. SweepInv'
  BY <1>4 DEF SweepInv
<1>11. RunInv'
  <2>1. ASSUME phase \notin {"stopping", "stopped"}, NEW o \in Objects, Runs(o) PROVE o \in Listed'
    BY <1>3, <1>5, <1>6, <2>1 DEF IInv, RunInv, SweepOf
  <2> QED BY <1>0, <2>1 DEF RunInv, Runs
<1>12. SaveInv'
  <2>1. ASSUME NEW o \in Listed', told[o[1]] # NotTold PROVE o \in Listed
    BY <1>5, <1>6, <2>1 DEF SweepOf
  <2>2. proc'[p].at = "save"
    BY <1>1, <1>2
  <2> QED BY <1>0, <2>1, <2>2 DEF IInv, SaveInv
<1> QED BY <1>7, <1>8, <1>9, <1>10, <1>11, <1>12 DEF Kept

(* The list is saved as it is.                                                  *)
LEMMA SaveKept ==
  ASSUME IInv, Types', NEW p \in Procs, Save(p)
  PROVE  Kept
<1>0. /\ proc[p].at = "save" /\ lock = Nobody /\ file' = Saved(list) /\ proc[p] \in ProcType
      /\ UNCHANGED <<list, obj, gen, lock, told, phase>> /\ phase # "starting"
  BY ProcFields, Begun DEF Save, IInv
<1>1. PICK r \in ProcType : To(p, r) /\ r.at = "list"
  <2>1. [proc[p] EXCEPT !.at = "list"] \in ProcType /\ [proc[p] EXCEPT !.at = "list"].at = "list"
    BY <1>0 DEF ProcType, Ats
  <2> QED BY <2>1 DEF Save
<1>2. proc'[p] = r /\ \A q \in Procs : q # p => proc'[q] = proc[q]
  BY <1>1, ToFacts DEF IInv
<1>3. LockInv'
  BY <1>0, <1>1, <1>2 DEF IInv, LockInv
<1>4. BoundInv'
  <2>1. \A u \in Uids : CanGrow(u)' \subseteq CanGrow(u)
    BY <1>1, <1>2 DEF CanGrow
  <2> QED BY <1>0, <2>1, BoundKept DEF IInv
<1>5. Listed' = Listed
  BY <1>0 DEF Listed
<1>6. ListInv'
  BY <1>0, <1>5 DEF IInv, ListInv
<1>7. \A q \in Procs : ~Sweeping(q) /\ ~(Sweeping(q))'
  BY <1>0, <1>1, <1>2, Alone DEF IInv, Sweeping
<1>8. SweepInv'
  BY <1>7 DEF SweepInv
<1>9. RunInv'
  BY <1>0, <1>5, <1>7 DEF IInv, RunInv, Runs
<1>10. SaveInv'
  <2>1. ASSUME NEW o \in Listed, told[o[1]] # NotTold
        PROVE  obj[o].cfg = told[o[1]] /\ [uid |-> o[1], cfg |-> told[o[1]]] \in file'
    <3>1. obj[o].cfg = told[o[1]]
      BY <2>1 DEF IInv, SaveInv
    <3> QED BY <1>0, <3>1 DEF Saved, Listed
  <2>2. file' = Saved(list)'
    BY <1>0 DEF Saved
  <2> QED BY <1>0, <1>5, <2>1, <2>2 DEF SaveInv
<1> QED BY <1>3, <1>4, <1>6, <1>8, <1>9, <1>10 DEF Kept

(* A gateway takes the settings it was sent, and the file with it.              *)
LEMMA ConfirmKept ==
  ASSUME IInv, Types', NEW c \in Clients, NEW o \in Listed, NEW g \in GatewayType, Confirm(c, o, g),
         proc[c].at \in {"set", "closing"}, lock' = Nobody,
         \A p \in Procs : ~Sweeping(p) /\ (p # c => proc[p].at # "closing"),
         UNCHANGED <<list, gen, phase>>
  PROVE  Kept
<1>0. c \in Procs /\ o \in Objects /\ o[1] \in Uids /\ Rest.at = "rest" /\ Listed' = Listed /\ Listed \subseteq Objects
  BY ListedType, ObjectParts DEF Procs, Rest, IInv, Listed
<1>1. proc'[c] = Rest /\ \A q \in Procs : q # c => proc'[q] = proc[q]
  BY <1>0, RestType, ToFacts DEF Confirm, Answer, IInv
<1>2. PICK cfg \in Settings : cfg = proc[c].cfg
  BY <1>0, ProcFields DEF IInv
<1>a. Applied(g, cfg) \in GatewayType /\ Applied(g, cfg).cfg = cfg
  BY AppliedType
<1>3. PICK a \in GatewayType : a = Applied(g, cfg) /\ a.cfg = cfg
  BY <1>a
<1>4. /\ obj' = [obj EXCEPT ![o] = a] /\ file' = SavedWith(o, a) /\ told' = [told EXCEPT ![o[1]] = cfg]
      /\ obj \in [Objects -> GatewayType] /\ told \in [Uids -> Settings \cup {NotTold}]
  BY <1>2, <1>3, ObjType DEF Confirm, IInv, Types
<1>5. obj'[o] = a /\ told'[o[1]] = cfg /\ \A x \in Objects : x # o => obj'[x] = obj[x]
  BY <1>0, <1>4
<1>6. \A u \in Uids : u # o[1] => told'[u] = told[u]
  BY <1>0, <1>4
<1>7. \A q \in Procs : ~(Sweeping(q))' /\ proc'[q].at # "closing"
  BY <1>0, <1>1 DEF Sweeping
<1>8. LockInv'
  BY <1>7, ProcsFinite DEF LockInv, Sweeping
<1>9. BoundInv'
  <2>1. \A u \in Uids : CanGrow(u)' \subseteq CanGrow(u)
    BY <1>0, <1>1 DEF CanGrow
  <2>2. phase' # "starting"
    BY <1>0, Begun DEF IInv
  <2> QED BY <2>1, <2>2, BoundKept DEF IInv
<1>10. ListInv'
  BY <1>0, <1>6 DEF IInv, ListInv
<1>11. SweepInv'
  BY <1>7 DEF SweepInv
<1>12. RunInv'
  BY <1>0, <1>5 DEF IInv, RunInv, Runs
<1>13. SaveInv'
  <2>1. file' = {[uid |-> x[1], cfg |-> obj'[x].cfg] : x \in Listed}
    <3>1. \A x \in Listed : obj'[x].cfg = IF x = o THEN a.cfg ELSE obj[x].cfg
      BY <1>0, <1>5
    <3> QED BY <1>4, <3>1 DEF SavedWith
  <2>2. file' = Saved(list)'
    BY <1>0, <2>1 DEF Saved, Listed
  <2>3. ASSUME NEW x \in Listed, told'[x[1]] # NotTold
        PROVE  obj'[x].cfg = told'[x[1]] /\ [uid |-> x[1], cfg |-> told'[x[1]]] \in file'
    <3>1. obj'[x].cfg = told'[x[1]]
      <4>1. CASE x = o
        BY <1>3, <1>5, <4>1
      <4>2. CASE x # o
        <5>1. x[1] # o[1] /\ x \in Objects /\ x[1] \in Uids
          BY <1>0, <4>2, ObjectParts DEF IInv, ListInv
        <5> QED BY <1>5, <1>6, <2>3, <4>2, <5>1 DEF IInv, SaveInv
      <4> QED BY <4>1, <4>2
    <3> QED BY <2>1, <3>1
  <2> QED BY <1>0, <2>2, <2>3 DEF SaveInv
<1> QED BY <1>8, <1>9, <1>10, <1>11, <1>12, <1>13 DEF Kept

(* SetGateway with the lock, and when the old websocket has ended.              *)
LEMMA ApplySetKept ==
  ASSUME IInv, Types', NEW c \in Clients, ApplySet(c)
  PROVE  Kept
<1> DEFINE cfg == proc[c].cfg
<1>0. /\ c \in Procs /\ proc[c].at = "set" /\ lock = Nobody /\ proc[c] \in ProcType
      /\ UNCHANGED <<list, gen, phase>> /\ phase # "starting"
      /\ Rest \in ProcType /\ Rest.at = "rest" /\ Target(c) \subseteq Listed
  BY ProcFields, Begun, RestType DEF ApplySet, IInv, Procs, Rest, Target
<1>1. \A p \in Procs : ~Sweeping(p) /\ proc[p].at # "closing"
  BY <1>0, Alone DEF IInv, Sweeping
<1>2. CASE Answer(c) /\ UNCHANGED <<obj, lock, file, told>>
  BY <1>0, <1>2, FreeKept DEF Answer
<1>3. ASSUME NEW o \in Target(c), Confirm(c, o, obj[o]), UNCHANGED lock PROVE Kept
  <2>1. obj[o] \in GatewayType /\ o \in Listed
    BY <1>0, ListedType, ObjType DEF IInv
  <2>2. lock' = Nobody
    BY <1>0, <1>3
  <2> QED BY <1>0, <1>1, <1>3, <2>1, <2>2, ConfirmKept
<1>4. CASE lock' = c /\ To(c, [proc[c] EXCEPT !.at = "closing"]) /\ UNCHANGED <<obj, file, told>>
  <2>1. PICK r \in ProcType : To(c, r) /\ r.at = "closing"
    <3>1. [proc[c] EXCEPT !.at = "closing"] \in ProcType /\ [proc[c] EXCEPT !.at = "closing"].at = "closing"
      BY <1>0 DEF ProcType, Ats
    <3> QED BY <1>4, <3>1
  <2>2. proc'[c] = r /\ \A q \in Procs : q # c => proc'[q] = proc[q]
    BY <1>0, <2>1, ToFacts DEF IInv
  <2>3. LockInv'
    BY <1>0, <1>1, <1>4, <2>1, <2>2 DEF LockInv, Sweeping
  <2>4. BoundInv'
    <3>1. \A u \in Uids : CanGrow(u)' \subseteq CanGrow(u)
      BY <1>0, <2>1, <2>2 DEF CanGrow
    <3> QED BY <1>0, <3>1, BoundKept DEF IInv
  <2>5. \A p \in Procs : /\ (Sweeping(p))' => Sweeping(p) /\ proc'[p] = proc[p]
                         /\ Sweeping(p) => proc'[p] = proc[p]
                         /\ proc[p].at = "save" => proc'[p].at = "save"
    BY <1>0, <1>1, <2>1, <2>2 DEF Sweeping
  <2>6. \A o \in Objects : obj'[o].cfg = obj[o].cfg /\ ((Runs(o))' => Runs(o))
    BY <1>4 DEF Runs
  <2>7. ListInv' /\ SweepInv' /\ RunInv' /\ SaveInv'
    BY <1>0, <1>4, <2>5, <2>6, QuietStep DEF IInv
  <2> QED BY <2>3, <2>4, <2>7 DEF Kept
<1>5. \/ Answer(c) /\ UNCHANGED <<obj, lock, file, told>>
      \/ \E o \in Target(c) : Confirm(c, o, obj[o]) /\ UNCHANGED lock
      \/ lock' = c /\ To(c, [proc[c] EXCEPT !.at = "closing"]) /\ UNCHANGED <<obj, file, told>>
  BY Zenon DEF ApplySet
<1> QED BY <1>2, <1>3, <1>4, <1>5

LEMMA ClosedKept ==
  ASSUME IInv, Types', NEW c \in Clients, Closed(c)
  PROVE  Kept
<1>0. /\ c \in Procs /\ proc[c].at = "closing" /\ lock' = Nobody /\ UNCHANGED <<list, gen, phase>>
      /\ phase # "starting" /\ Rest \in ProcType /\ Rest.at = "rest" /\ Target(c) \subseteq Listed
  BY Begun, RestType DEF Closed, IInv, Procs, Rest, Target
<1>1. \A p \in Procs : ~Sweeping(p) /\ (p # c => proc[p].at # "closing")
  BY <1>0, Alone DEF IInv, Sweeping
<1>2. ASSUME NEW o \in Target(c), Confirm(c, o, [obj[o] EXCEPT !.task = "none"]) PROVE Kept
  <2>1. obj[o] \in GatewayType /\ o \in Listed /\ Default \in Settings
    BY <1>0, ListedType, ObjType, SettingsType DEF IInv
  <2>2. [obj[o] EXCEPT !.task = "none"] \in GatewayType
    BY <2>1, GatewayTypes
  <2> QED BY <1>0, <1>1, <1>2, <2>1, <2>2, ConfirmKept
<1>3. CASE Answer(c) /\ UNCHANGED <<obj, file, told>>
  <2>1. proc'[c] = Rest /\ \A q \in Procs : q # c => proc'[q] = proc[q]
    BY <1>0, <1>3, ToFacts DEF Answer, IInv
  <2>2. LockInv'
    BY <1>0, <1>1, <2>1, ProcsFinite DEF LockInv, Sweeping
  <2>3. BoundInv'
    <3>1. \A u \in Uids : CanGrow(u)' \subseteq CanGrow(u)
      BY <1>0, <2>1 DEF CanGrow
    <3> QED BY <1>0, <3>1, BoundKept DEF IInv
  <2>4. \A p \in Procs : /\ (Sweeping(p))' => Sweeping(p) /\ proc'[p] = proc[p]
                         /\ Sweeping(p) => proc'[p] = proc[p]
                         /\ proc[p].at = "save" => proc'[p].at = "save"
    BY <1>0, <1>1, <2>1 DEF Sweeping
  <2>5. \A o \in Objects : obj'[o].cfg = obj[o].cfg /\ ((Runs(o))' => Runs(o))
    BY <1>3 DEF Runs
  <2>6. ListInv' /\ SweepInv' /\ RunInv' /\ SaveInv'
    BY <1>0, <1>3, <2>4, <2>5, QuietStep DEF IInv
  <2> QED BY <2>2, <2>3, <2>6 DEF Kept
<1> QED BY <1>2, <1>3 DEF Closed

-------------------------------------------------------------------------------
(* Every step keeps the invariant: each handler between two awaits.             *)
LEMMA KeepInv ==
  ASSUME IInv, [Next]_vars
  PROVE  IInv'
<1>1. Types'
  BY TypesStep DEF IInv
<1>2. Kept
  <2>1. CASE Work
    BY <1>1, <2>1, FreeActions, TakeLockKept, SweepKept, GrowKept, ReplaceKept, SaveKept,
       ApplySetKept, ClosedKept, PlainActions, StartAllKept DEF Work, Handler, Client
  <2>2. CASE Others
    BY <1>1, <2>2, FreeActions, GetListKept, StopServingKept, PlainActions DEF Others
  <2>3. CASE UNCHANGED vars
    BY <1>1, <2>3, PlainActions
  <2> QED BY <2>1, <2>2, <2>3 DEF Next
<1> QED BY <1>1, <1>2 DEF IInv, Kept

(* The list is made from the file, which names a gateway once.                  *)
LEMMA InitInv == Init => IInv
<1> SUFFICES ASSUME Init PROVE IInv
  OBVIOUS
<1> DEFINE S == {<<e.uid, 0>> : e \in file}
<1>1. /\ IsFiniteSet(file) /\ file \subseteq [uid : Uids, cfg : Settings]
      /\ \A e, f \in file : e.uid = f.uid => e = f
      /\ MaxGen \in Nat /\ 0 \in 0 .. MaxGen /\ MaxEvents \in Nat /\ Nobody \notin Procs
  BY ServiceAssumption, ProcsFinite DEF Init
<1>2. S \subseteq Objects /\ \A e \in file : <<e.uid, 0>> \in Objects
  BY <1>1 DEF Objects
<1>3. IsFiniteSet(S)
  <2> DEFINE f == [e \in file |-> <<e.uid, 0>>]
  <2>1. f \in Surjection(file, S)
    BY DEF Surjection
  <2> QED BY <1>1, <2>1, FS_Surjection
<1>4. list \in Seq(S) /\ Listed = S
  BY <1>3, SeqOfSet DEF Init, Listed
<1>5. list \in Seq(Objects)
  BY <1>2, <1>4
<1>6. ASSUME NEW o \in Objects
      PROVE  /\ obj[o] \in GatewayType /\ ~obj[o].on /\ obj[o].task = "none"
             /\ \A e \in file : o = <<e.uid, 0>> => obj[o].cfg = e.cfg
  <2>1. ASSUME NEW e \in file, o = <<e.uid, 0>> PROVE obj[o] = Fresh(e.cfg)
    <3>1. (CHOOSE f \in file : f.uid = o[1]) = e
      BY <1>1, <2>1
    <3> QED BY <1>6, <2>1, <3>1 DEF Init
  <2>2. (~\E e \in file : <<e.uid, 0>> = o) => obj[o] = Fresh(Default)
    BY <1>6 DEF Init
  <2>3. \A e \in file : e.cfg \in Settings
    BY <1>1
  <2>4. CASE \E e \in file : <<e.uid, 0>> = o
    <3>1. PICK e \in file : o = <<e.uid, 0>>
      BY <2>4
    <3>2. obj[o] = Fresh(e.cfg)
      BY <2>1, <3>1
    <3>3. obj[o] \in GatewayType /\ ~obj[o].on /\ obj[o].task = "none" /\ obj[o].cfg = e.cfg
      BY <2>3, <3>2, FreshType DEF Fresh
    <3>4. \A f \in file : o = <<f.uid, 0>> => f = e
      BY <1>1, <3>1
    <3> QED BY <3>3, <3>4
  <2>5. CASE ~\E e \in file : <<e.uid, 0>> = o
    <3>1. obj[o] \in GatewayType /\ ~obj[o].on /\ obj[o].task = "none"
      BY <2>2, <2>5, FreshType, SettingsType DEF Fresh
    <3> QED BY <2>5, <3>1
  <2> QED BY <2>4, <2>5
<1>7. obj \in [Objects -> GatewayType]
  BY <1>6 DEF Init
<1>8. Types
  BY <1>1, <1>5, <1>7, RestType DEF Init, Types, TypeOK, GatewayType
<1>9. \A p \in Procs : proc[p] = Rest /\ proc[p].at = "rest"
  BY DEF Init, Rest
<1>10. BoundInv
  <2>1. ASSUME NEW u \in Uids PROVE gen[u] + Cardinality(CanGrow(u)) <= MaxGen
    <3>1. CanGrow(u) = {}
      BY <1>9 DEF CanGrow
    <3>2. Cardinality(CanGrow(u)) = 0
      BY <3>1, FS_EmptySet
    <3> QED BY <1>1, <3>2 DEF Init
  <2> QED BY <2>1 DEF BoundInv, Init
<1>11. LockInv
  BY <1>1, <1>9 DEF Init, LockInv
<1>12. ListInv
  BY <1>4 DEF Init, ListInv
<1>13. SweepInv
  BY <1>9 DEF SweepInv, Sweeping
<1>14. RunInv
  BY <1>6 DEF RunInv, Runs
<1>15. SaveInv
  <2>1. ASSUME NEW o \in Listed PROVE told[o[1]] = NotTold
    BY <1>2, <1>4, ObjectParts DEF Init
  <2>2. file = Saved(list)
    <3> DEFINE At(o) == [uid |-> o[1], cfg |-> obj[o].cfg]
    <3>1. Saved(list) = {At(o) : o \in S}
      BY <1>4 DEF Saved, Listed
    <3>2. ASSUME NEW e \in file PROVE At(<<e.uid, 0>>) = e
      <4>1. e \in [uid : Uids, cfg : Settings]
        BY <1>1
      <4>2. obj[<<e.uid, 0>>].cfg = e.cfg /\ <<e.uid, 0>>[1] = e.uid
        BY <1>2, <1>6
      <4> QED BY <4>1, <4>2
    <3> HIDE DEF At
    <3> QED BY <3>1, <3>2
  <2> QED BY <2>1, <2>2 DEF SaveInv
<1> QED BY <1>8, <1>10, <1>11, <1>12, <1>13, <1>14, <1>15 DEF IInv

(* In every reachable state: the lock is with whoever rewrites the list, what   *)
(* an update has kept and has left is the rest of the list, and the file holds   *)
(* what clients were told (_update_gateways, set_gateway_rpc_handler).           *)
THEOREM ServiceInv == Spec => []IInv
<1>1. Init => IInv
  BY InitInv
<1>2. IInv /\ [Next]_vars => IInv'
  BY KeepInv
<1> QED BY <1>1, <1>2, PTL DEF Spec

(* The state of Gateway has its types; no gateway comes back more often than    *)
(* the bound of GetList allows, however the updates overlap.                    *)
THEOREM ServiceTypeOK == Spec => []TypeOK
<1>1. IInv => TypeOK
  BY DEF IInv, Types
<1> QED BY <1>1, ServiceInv, PTL

(* No gateway runs that the service has forgotten: whatever updates, errors of  *)
(* a websocket and saves come between, what _update_gateways and                *)
(* WbDaliGateway.start have started is listed or about to be, until the stop.   *)
THEOREM ServiceNoStray == Spec => []NoStray
<1>1. IInv => NoStray
  BY DEF IInv, RunInv, NoStray, Runs
<1> QED BY <1>1, ServiceInv, PTL

(* Settings that set_gateway_rpc_handler confirmed are those of the gateway and *)
(* of the file (save_configuration) for as long as the gateway stays listed.    *)
THEOREM ServiceSavedAsConfirmed == Spec => []SavedAsConfirmed
<1>1. IInv => SavedAsConfirmed
  BY DEF IInv, SaveInv, SavedAsConfirmed
<1> QED BY <1>1, ServiceInv, PTL
=============================================================================

--------------------- MODULE ApplicationControllerProofs ---------------------
(***************************************************************************)
(* ApplicationController for any callers, controls, messages and scans:    *)
(* a control has one task for the value it has to set, at most one scan is *)
(* under way and the status knows it, and values are confirmed in the      *)
(* order they came.                                                        *)
(***************************************************************************)
EXTENDS ApplicationController, SequenceTheorems, FiniteSetTheorems, WellFoundedInduction, TLAPS

-----------------------------------------------------------------------------
(* The inductive invariant *)

\* TypeOK in four parts: queue and tasks, values, places, flags.
QueueTypes ==
    /\ tasksQueue \in Seq(Task)
    /\ future \in [Task -> {"none", "pending", "done"}]
    /\ item \in Task \cup {NoTask}
    /\ controls \in Seq([task : Message, value : Message])

ValueTypes ==
    /\ arrived \in 0 .. MaxMessage
    /\ valueToSet \in [Control -> 0 .. MaxMessage]
    /\ settled \in [Control -> 0 .. MaxMessage]
    /\ value \in [Control -> 0 .. MaxMessage]

PlaceTypes ==
    /\ state \in {"uninitialized", "initializing", "ready", "stopping"}
    /\ pc \in {"none", "get", "item", "poll", "controls", "task", "scan", "ended", "failed"}
    /\ status \in {"idle", "queued", "searching", "reading", "completed", "failed", "cancelled"}
    /\ child \in {"none", "created", "sleeping", "starting", "scanning", "finally", "done"}
    /\ leaving \in {"no", "completed", "failed", "cancelled"}
    /\ stopStep \in {"none", "one_shot", "child", "loop", "timeout", "drained"}

FlagTypes ==
    /\ quiescent \in BOOLEAN
    /\ childCancel \in BOOLEAN
    /\ stopRequested \in BOOLEAN
    /\ loopCancel \in BOOLEAN

\* What the loop holds at each of its awaits: a control's task only right after
\* it was taken, a scan while the child is awaited, nothing while it waits. The
\* child enters its finally block for a reason.
LoopInv ==
    /\ pc \in {"none", "get"} => item = NoTask
    /\ pc = "item" => item # NoTask
    /\ pc # "item" => item \notin Message
    /\ pc = "scan" => item \in Scan
    /\ pc = "scan" <=> child # "none"
    /\ pc # "controls" => controls = <<>>
    /\ child = "finally" => leaving # "no"

\* stop() drains the queue only after the loop ended, and a loop that has not
\* been created has nothing to stop.
StopInv ==
    /\ stopStep = "drained" => pc \in {"ended", "failed"}
    /\ stopStep \in {"none", "one_shot", "child"} <=> ~stopRequested
    /\ stopStep = "none" <=> ~(state = "stopping" \/ stopRequested)
    /\ state \in {"uninitialized", "initializing"} /\ ~stopRequested => pc = "none"
    /\ state \in {"initializing", "ready"} => ~stopRequested

\* Up to the drain, the tasks of a control that wait are one if it has a value
\* to set and none otherwise.
MessageInv ==
    stopStep # "drained" =>
        /\ \A i, j \in 1 .. Len(tasksQueue) :
              /\ tasksQueue[i] \in Message /\ tasksQueue[j] \in Message
              /\ ControlOf[tasksQueue[i]] = ControlOf[tasksQueue[j]]
              => i = j
        /\ item \in Message =>
              /\ valueToSet[ControlOf[item]] # 0
              /\ \A i \in 1 .. Len(tasksQueue) :
                    tasksQueue[i] \in Message => ControlOf[tasksQueue[i]] # ControlOf[item]
        /\ \A i \in 1 .. Len(tasksQueue) :
              tasksQueue[i] \in Message => valueToSet[ControlOf[tasksQueue[i]]] # 0
        /\ \A c \in Control : valueToSet[c] # 0 =>
              \/ item \in Message /\ ControlOf[item] = c
              \/ \E i \in 1 .. Len(tasksQueue) :
                    tasksQueue[i] \in Message /\ ControlOf[tasksQueue[i]] = c

\* The loop holds a scan whose child has not ended.
ScanHeld == item \in Scan /\ child # "done"

\* A scan in the queue or in the hands of the loop is the only one and is known
\* as running.
ScanInv ==
    /\ \A i, j \in QueuedScans : i = j
    /\ ScanHeld => QueuedScans = {}
    /\ ScanHeld \/ QueuedScans # {} => IsRunning

\* The value of a control runs behind what the loop has taken, and that behind
\* what waits; the values being gathered lie between the first two.
OrderInv ==
    /\ \A c \in Control : value[c] <= settled[c] /\ settled[c] <= arrived
    /\ \A c \in Control : valueToSet[c] # 0 => settled[c] < valueToSet[c] /\ valueToSet[c] <= arrived
    /\ \A i \in 1 .. Len(controls) :
          LET c == ControlOf[controls[i].task]
          IN  value[c] < controls[i].value /\ controls[i].value <= settled[c]

ControllerInv == TypeOK /\ LoopInv /\ StopInv /\ MessageInv /\ ScanInv /\ OrderInv
-----------------------------------------------------------------------------
(* Sequences *)

\* put_nowait: the task goes to the end of the queue.
LEMMA AppendAt ==
  ASSUME NEW S, NEW q \in Seq(S), NEW t \in S
  PROVE  /\ Append(q, t) \in Seq(S)
         /\ Len(Append(q, t)) = Len(q) + 1
         /\ \A i \in 1 .. Len(q) : Append(q, t)[i] = q[i]
         /\ Append(q, t)[Len(q) + 1] = t
  OBVIOUS

\* The loop takes the first task.
LEMMA TailAt ==
  ASSUME NEW S, NEW q \in Seq(S), q # <<>>
  PROVE  /\ Head(q) \in S /\ Head(q) = q[1]
         /\ Len(q) \in Nat \ {0}
         /\ Tail(q) \in Seq(S)
         /\ Len(Tail(q)) = Len(q) - 1
         /\ \A i \in 1 .. Len(q) - 1 : Tail(q)[i] = q[i + 1]
  OBVIOUS

\* Two sequences in a row.
LEMMA ConcatAt ==
  ASSUME NEW S, NEW a \in Seq(S), NEW b \in Seq(S)
  PROVE  /\ a \o b \in Seq(S)
         /\ Len(a \o b) = Len(a) + Len(b)
         /\ \A i \in 1 .. Len(a) : (a \o b)[i] = a[i]
         /\ \A i \in 1 .. Len(b) : (a \o b)[Len(a) + i] = b[i]
<1>1. Len(a) \in Nat /\ Len(b) \in Nat
  OBVIOUS
<1>2. ASSUME NEW i \in 1 .. Len(a) PROVE (a \o b)[i] = a[i]
  BY <1>1, ConcatProperties
<1>3. ASSUME NEW i \in 1 .. Len(b) PROVE (a \o b)[Len(a) + i] = b[i]
  <2>1. Len(a) + i \in 1 .. Len(a) + Len(b) /\ ~(Len(a) + i <= Len(a)) /\ Len(a) + i - Len(a) = i
    BY <1>1
  <2> QED BY <2>1, ConcatProperties
<1> QED BY <1>2, <1>3, ConcatProperties

\* _remove_queued_commissioning_task takes out the task at position k.
LEMMA RemoveAt ==
  ASSUME NEW S, NEW q \in Seq(S), NEW k \in 1 .. Len(q)
  PROVE  LET r == SubSeq(q, 1, k - 1) \o SubSeq(q, k + 1, Len(q)) IN
         /\ r \in Seq(S)
         /\ Len(r) = Len(q) - 1
         /\ \A i \in 1 .. Len(q) - 1 : i < k => r[i] = q[i]
         /\ \A i \in 1 .. Len(q) - 1 : ~(i < k) => r[i] = q[i + 1]
<1> DEFINE a == SubSeq(q, 1, k - 1)
           b == SubSeq(q, k + 1, Len(q))
           r == a \o b
<1>1. Len(q) \in Nat /\ k \in Nat /\ k >= 1 /\ k <= Len(q)
  OBVIOUS
<1>2. a \in Seq(S) /\ Len(a) = k - 1 /\ \A i \in 1 .. k - 1 : a[i] = q[i]
  BY <1>1
<1>3. b \in Seq(S) /\ Len(b) = Len(q) - k /\ \A i \in 1 .. Len(q) - k : b[i] = q[k + i]
  BY <1>1
<1> HIDE DEF a, b
<1>4. /\ r \in Seq(S)
      /\ Len(r) = Len(a) + Len(b)
      /\ \A i \in 1 .. Len(a) : r[i] = a[i]
      /\ \A i \in 1 .. Len(b) : r[Len(a) + i] = b[i]
  <2>1. a \in Seq(S) /\ b \in Seq(S)
    BY <1>2, <1>3
  <2> QED BY <2>1, ConcatAt, SMT
<1> HIDE DEF r
<1>5. Len(r) = Len(q) - 1
  BY <1>1, <1>2, <1>3, <1>4
<1>6. ASSUME NEW i \in 1 .. Len(q) - 1, i < k PROVE r[i] = q[i]
  <2>1. i \in 1 .. k - 1
    BY <1>1, <1>6
  <2> QED BY <2>1, <1>2, <1>4
<1>7. ASSUME NEW i \in 1 .. Len(q) - 1, ~(i < k) PROVE r[i] = q[i + 1]
  <2>1. i + 1 - k \in 1 .. Len(q) - k /\ k - 1 + (i + 1 - k) = i /\ k + (i + 1 - k) = i + 1
    BY <1>1, <1>7
  <2>2. r[i] = b[i + 1 - k]
    BY <1>2, <1>3, <1>4, <2>1
  <2> QED BY <1>3, <2>1, <2>2
<1> QED BY <1>4, <1>5, <1>6, <1>7 DEF r, a, b

\* What is left behind n tasks pulled from the queue and the one after them.
LEMMA SuffixAt ==
  ASSUME NEW S, NEW q \in Seq(S), NEW n \in 0 .. Len(q)
  PROVE  /\ SubSeq(q, n + 2, Len(q)) \in Seq(S)
         /\ n < Len(q) => Len(SubSeq(q, n + 2, Len(q))) = Len(q) - n - 1
         /\ n = Len(q) => Len(SubSeq(q, n + 2, Len(q))) = 0
         /\ \A i \in 1 .. Len(SubSeq(q, n + 2, Len(q))) : SubSeq(q, n + 2, Len(q))[i] = q[n + 1 + i]
  OBVIOUS

\* A set of positions has a first one.
LEMMA FirstPosition ==
  ASSUME NEW T \in SUBSET Nat, T # {}
  PROVE  \E k \in T : \A i \in T : k <= i
<1>1. PICK k \in T : \A i \in T : ~(<<i, k>> \in OpToRel(<, Nat))
  BY NatLessThanWellFounded, WFMin, Zenon
<1>2. ASSUME NEW i \in T PROVE k <= i
  <2>1. ~(i < k)
    BY <1>1 DEF OpToRel
  <2> QED BY <2>1
<1> QED BY <1>2

\* The tasks of controls at the front of the queue, as many as there are.
LEMMA PulledIs ==
  ASSUME NEW S, NEW q \in Seq(S)
  PROVE  /\ Pulled(q) \in 0 .. Len(q)
         /\ \A i \in 1 .. Pulled(q) : q[i] \in Message
         /\ Pulled(q) < Len(q) => q[Pulled(q) + 1] \notin Message
<1> DEFINE P(n) == /\ \A i \in 1 .. n : q[i] \in Message
                   /\ n < Len(q) => q[n + 1] \notin Message
           T == {i \in 1 .. Len(q) : q[i] \notin Message}
<1>1. Len(q) \in Nat
  OBVIOUS
<1>2. \E n \in 0 .. Len(q) : P(n)
  <2>1. CASE T = {}
    <3>1. P(Len(q)) /\ Len(q) \in 0 .. Len(q)
      BY <1>1, <2>1
    <3> QED BY <3>1
  <2>2. CASE T # {}
    <3>1. PICK k \in T : \A i \in T : k <= i
      <4>1. T \in SUBSET Nat
        OBVIOUS
      <4> HIDE DEF T
      <4> QED BY <4>1, <2>2, FirstPosition
    <3>2. k \in 1 .. Len(q) /\ q[k] \notin Message /\ k - 1 + 1 = k /\ k - 1 \in 0 .. Len(q)
      BY <1>1
    <3>3. ASSUME NEW i \in 1 .. k - 1 PROVE q[i] \in Message
      BY <1>1, <3>1, <3>2
    <3>4. P(k - 1)
      BY <3>2, <3>3
    <3> QED BY <3>2, <3>4
  <2> QED BY <2>1, <2>2
<1>3. Pulled(q) = CHOOSE n \in 0 .. Len(q) : P(n)
  BY DEF Pulled
<1> HIDE DEF P
<1>4. Pulled(q) \in 0 .. Len(q) /\ P(Pulled(q))
  BY <1>2, <1>3
<1> QED BY <1>4 DEF P
-----------------------------------------------------------------------------
(* Steps *)

\* A task of one kind is not of another.
LEMMA Kinds ==
  /\ Message \cap (Request \cup Batch \cup Scan) = {}
  /\ Scan \cap (Request \cup Batch) = {}
  /\ Message \subseteq Nat \ {0}
  /\ NoTask \notin Message /\ NoTask \notin Scan
  BY ControllerAssumption DEF Message, Task

\* A gather as a fact about positions: item and the n tasks behind it are taken.
LEMMA GatherIs ==
  ASSUME ControllerInv, GatherControls
  PROVE  \E n \in 0 .. Len(tasksQueue) :
            /\ \A i \in 1 .. n : tasksQueue[i] \in Message
            /\ n < Len(tasksQueue) => item' = tasksQueue[n + 1] /\ item' \notin Message
            /\ n = Len(tasksQueue) => item' = NoTask
            /\ tasksQueue' \in Seq(Task)
            /\ n < Len(tasksQueue) => Len(tasksQueue') = Len(tasksQueue) - n - 1
            /\ n = Len(tasksQueue) => Len(tasksQueue') = 0
            /\ \A i \in 1 .. Len(tasksQueue') : tasksQueue'[i] = tasksQueue[n + 1 + i]
            /\ controls' \in Seq([task : Message, value : Message])
            /\ \A k \in 1 .. Len(controls') :
                  LET m == controls'[k].task
                  IN  /\ m = item \/ \E i \in 1 .. n : m = tasksQueue[i]
                      /\ controls'[k].value = valueToSet[ControlOf[m]]
            /\ \A c \in Control :
                  LET taken == ControlOf[item] = c \/ \E i \in 1 .. n : ControlOf[tasksQueue[i]] = c
                  IN  /\ taken => valueToSet'[c] = 0 /\ settled'[c] = valueToSet[c]
                      /\ ~taken => valueToSet'[c] = valueToSet[c] /\ settled'[c] = settled[c]
<1> DEFINE n == Pulled(tasksQueue)
           pulled == <<item>> \o SubSeq(tasksQueue, 1, n)
           taken == {ControlOf[pulled[i]] : i \in 1 .. n + 1}
<1>1. /\ tasksQueue \in Seq(Task) /\ Len(tasksQueue) \in Nat
      /\ item \in Message
      /\ pc = "item"
      /\ valueToSet \in [Control -> 0 .. MaxMessage]
      /\ stopStep # "drained"
  BY DEF ControllerInv, TypeOK, GatherControls, StopInv
<1>2. /\ n \in 0 .. Len(tasksQueue)
      /\ \A i \in 1 .. n : tasksQueue[i] \in Message
      /\ n < Len(tasksQueue) => tasksQueue[n + 1] \notin Message
  BY <1>1, PulledIs
<1>3. /\ controls' = [i \in 1 .. n + 1 |->
                       [task |-> pulled[i], value |-> valueToSet[ControlOf[pulled[i]]]]]
      /\ valueToSet' = [c \in Control |-> IF c \in taken THEN 0 ELSE valueToSet[c]]
      /\ settled' = [c \in Control |-> IF c \in taken THEN valueToSet[c] ELSE settled[c]]
      /\ item' = IF n < Len(tasksQueue) THEN tasksQueue[n + 1] ELSE NoTask
      /\ tasksQueue' = SubSeq(tasksQueue, n + 2, Len(tasksQueue))
  BY DEF GatherControls
<1> HIDE DEF n
<1>4. /\ pulled[1] = item
      /\ \A i \in 1 .. n : pulled[1 + i] = tasksQueue[i]
  <2> DEFINE front == SubSeq(tasksQueue, 1, n)
  <2>1. front \in Seq(Task) /\ Len(front) = n /\ \A i \in 1 .. n : front[i] = tasksQueue[i]
    BY <1>1, <1>2
  <2>2. <<item>> \in Seq(Task) /\ Len(<<item>>) = 1 /\ <<item>>[1] = item
    BY <1>1 DEF Task
  <2> HIDE DEF front
  <2>3. /\ \A i \in 1 .. Len(<<item>>) : (<<item>> \o front)[i] = <<item>>[i]
        /\ \A i \in 1 .. Len(front) : (<<item>> \o front)[Len(<<item>>) + i] = front[i]
    BY <2>1, <2>2, ConcatAt, SMT
  <2> QED BY <2>1, <2>2, <2>3 DEF front
<1> HIDE DEF pulled
<1>5. ASSUME NEW i \in 1 .. n + 1
      PROVE  pulled[i] = item \/ \E j \in 1 .. n : pulled[i] = tasksQueue[j]
  <2>1. CASE i = 1
    BY <2>1, <1>4
  <2>2. CASE i # 1
    <3>1. i - 1 \in 1 .. n /\ 1 + (i - 1) = i
      BY <1>1, <1>2, <2>2
    <3> QED BY <3>1, <1>4
  <2> QED BY <2>1, <2>2
<1>6. \A i \in 1 .. n + 1 : pulled[i] \in Message
  BY <1>1, <1>2, <1>5
<1>7. \A i \in 1 .. n + 1 : valueToSet[ControlOf[pulled[i]]] \in Message
  <2> SUFFICES ASSUME NEW i \in 1 .. n + 1 PROVE valueToSet[ControlOf[pulled[i]]] \in Message
    OBVIOUS
  <2>1. ControlOf[pulled[i]] \in Control
    BY <1>6, ControllerAssumption
  <2>2. valueToSet[ControlOf[pulled[i]]] # 0
    <3>1. CASE pulled[i] = item
      BY <3>1, <1>1 DEF ControllerInv, MessageInv
    <3>2. CASE \E j \in 1 .. n : pulled[i] = tasksQueue[j]
      <4>1. PICK j \in 1 .. n : pulled[i] = tasksQueue[j]
        BY <3>2
      <4>2. j \in 1 .. Len(tasksQueue)
        BY <1>1, <1>2
      <4>3. valueToSet[ControlOf[tasksQueue[j]]] # 0
        BY <4>2, <1>1, <1>2 DEF ControllerInv, MessageInv
      <4> QED BY <4>1, <4>3
    <3> QED BY <3>1, <3>2, <1>5
  <2> QED BY <1>1, <2>1, <2>2, ControllerAssumption DEF Message
<1>8. /\ controls' \in Seq([task : Message, value : Message])
      /\ Len(controls') = n + 1
      /\ \A i \in 1 .. n + 1 : /\ controls'[i].task = pulled[i]
                               /\ controls'[i].value = valueToSet[ControlOf[pulled[i]]]
  BY <1>2, <1>3, <1>6, <1>7
<1>9. ASSUME NEW c \in Control
      PROVE  c \in taken <=> (ControlOf[item] = c \/ \E i \in 1 .. n : ControlOf[tasksQueue[i]] = c)
  <2>1. ASSUME c \in taken
        PROVE  ControlOf[item] = c \/ \E i \in 1 .. n : ControlOf[tasksQueue[i]] = c
    <3>1. PICK i \in 1 .. n + 1 : c = ControlOf[pulled[i]]
      BY <2>1
    <3> QED BY <3>1, <1>5
  <2>2. ASSUME ControlOf[item] = c PROVE c \in taken
    <3>1. 1 \in 1 .. n + 1
      BY <1>2
    <3> QED BY <3>1, <2>2, <1>4
  <2>3. ASSUME NEW i \in 1 .. n, ControlOf[tasksQueue[i]] = c PROVE c \in taken
    <3>1. 1 + i \in 1 .. n + 1
      BY <1>2
    <3> QED BY <3>1, <2>3, <1>4
  <2> QED BY <2>1, <2>2, <2>3
<1> HIDE DEF taken
<1>10. \A c \in Control :
          /\ c \in taken => valueToSet'[c] = 0 /\ settled'[c] = valueToSet[c]
          /\ c \notin taken => valueToSet'[c] = valueToSet[c] /\ settled'[c] = settled[c]
  BY <1>3
<1>11. /\ tasksQueue' \in Seq(Task)
       /\ n < Len(tasksQueue) => Len(tasksQueue') = Len(tasksQueue) - n - 1
       /\ n = Len(tasksQueue) => Len(tasksQueue') = 0
       /\ \A i \in 1 .. Len(tasksQueue') : tasksQueue'[i] = tasksQueue[n + 1 + i]
  <2>1. tasksQueue' = SubSeq(tasksQueue, n + 2, Len(tasksQueue))
    BY <1>3
  <2>2. n \in 0 .. Len(tasksQueue) /\ tasksQueue \in Seq(Task)
    BY <1>1, <1>2
  <2> HIDE <1>1, <1>2, <1>3
  <2> QED BY <2>1, <2>2, SuffixAt, SMT
<1>12. /\ n < Len(tasksQueue) => item' = tasksQueue[n + 1] /\ item' \notin Message
       /\ n = Len(tasksQueue) => item' = NoTask
  BY <1>1, <1>2, <1>3
<1>13. \A k \in 1 .. Len(controls') :
          LET m == controls'[k].task
          IN  /\ m = item \/ \E i \in 1 .. n : m = tasksQueue[i]
              /\ controls'[k].value = valueToSet[ControlOf[m]]
  BY <1>5, <1>8
<1>14. \A c \in Control :
          LET t == ControlOf[item] = c \/ \E i \in 1 .. n : ControlOf[tasksQueue[i]] = c
          IN  /\ t => valueToSet'[c] = 0 /\ settled'[c] = valueToSet[c]
              /\ ~t => valueToSet'[c] = valueToSet[c] /\ settled'[c] = settled[c]
  BY <1>9, <1>10, Zenon
<1>15. controls' \in Seq([task : Message, value : Message])
  BY <1>8
<1> QED BY <1>2, <1>11, <1>12, <1>13, <1>14, <1>15, Zenon

\* Resolving futures keeps them futures.
LEMMA ResolvedType ==
  ASSUME QueueTypes, NEW S
  PROVE  Resolved(S) \in [Task -> {"none", "pending", "done"}]
  BY DEF QueueTypes, Resolved

\* A new task keeps the queue a queue of tasks.
LEMMA PutType ==
  ASSUME QueueTypes, NEW t \in Task, Put(t)
  PROVE  /\ tasksQueue' \in Seq(Task)
         /\ future' \in [Task -> {"none", "pending", "done"}]
<1>1. tasksQueue \in Seq(Task) /\ future \in [Task -> {"none", "pending", "done"}]
  BY DEF QueueTypes
<1>2. tasksQueue' \in Seq(Task)
  BY <1>1, AppendAt DEF Put
<1>3. future' \in [Task -> {"none", "pending", "done"}]
  BY <1>1 DEF Put
<1> QED BY <1>2, <1>3

\* The parts of the type invariant.
LEMMA TypeParts ==
  TypeOK <=> QueueTypes /\ ValueTypes /\ PlaceTypes /\ FlagTypes
  BY Zenon DEF TypeOK, QueueTypes, ValueTypes, PlaceTypes, FlagTypes

\* Every step keeps loop, child, status and stop() at places they know.
LEMMA PlaceStep ==
  ASSUME ControllerInv, Next
  PROVE  PlaceTypes' /\ FlagTypes'
<1> USE DEF controlVars, loopVars, childVars, scanVars, stopVars, ChildUnchanged
<1>0. PlaceTypes /\ FlagTypes
  BY TypeParts DEF ControllerInv
<1>1. PlaceTypes'
  <2>1. CASE LoopNext
    BY <1>0, <2>1 DEF PlaceTypes, LoopNext, TakeItem, PollWhenIdle, RefuseItem, GatherControls,
          FinishControls, RunTask, FinishTask, RunCommissioning, CollectChild, FinishPoll, PollRaises,
          LoopCancelled, LoopCancelsChild, EndIteration, Top
  <2>2. CASE CallersNext
    BY <1>0, <2>2 DEF PlaceTypes, CallersNext, SubmitRequest, SendCommandBatch, CallerGivesUp,
          HandleOnTopic, StartCommissioning, CancelCommissioning, RemoveQueuedScan
  <2>3. CASE StartBegins \/ StartFails \/ StartEnds \/ StartQuiescentMode \/ StopQuiescentMode
    BY <1>0, <2>3 DEF PlaceTypes, StartBegins, StartFails, StartEnds, StartQuiescentMode,
          StopQuiescentMode
  <2>4. CASE StopBegins \/ StopNext
    BY <1>0, <2>4 DEF PlaceTypes, StopBegins, StopNext, StopCancelsChild, StopCancelsLoop,
          StopTimesOut, StopDrains, StopEnds
  <2>5. CASE ChildEnds
    <3>1. leaving # "no"
      BY <2>5 DEF ChildEnds, ControllerInv, LoopInv
    <3> QED BY <1>0, <2>5, <3>1 DEF PlaceTypes, ChildEnds
  <2>6. CASE ChildAdvances \/ ChildCannotStart \/ ChildReports \/ ChildLeavesScan \/ ChildCancelled
    BY <1>0, <2>6 DEF PlaceTypes, ChildAdvances, ChildCannotStart, ChildReports, ChildLeavesScan,
          ChildCancelled
  <2> QED BY <2>1, <2>2, <2>3, <2>4, <2>5, <2>6 DEF Next, ChildNext
<1>2. FlagTypes'
  <2>1. CASE LoopNext
    BY <1>0, <2>1 DEF FlagTypes, LoopNext, TakeItem, PollWhenIdle, RefuseItem, GatherControls,
          FinishControls, RunTask, FinishTask, RunCommissioning, CollectChild, FinishPoll, PollRaises,
          LoopCancelled, LoopCancelsChild, CancelSwallowed
  <2>2. CASE CallersNext
    BY <1>0, <2>2 DEF FlagTypes, CallersNext, SubmitRequest, SendCommandBatch, CallerGivesUp,
          HandleOnTopic, StartCommissioning, CancelCommissioning, RemoveQueuedScan
  <2>3. CASE StartBegins \/ StartFails \/ StartEnds \/ StartQuiescentMode \/ StopQuiescentMode
    BY <1>0, <2>3 DEF FlagTypes, StartBegins, StartFails, StartEnds, StartQuiescentMode,
          StopQuiescentMode
  <2>4. CASE StopBegins \/ StopNext
    BY <1>0, <2>4 DEF FlagTypes, StopBegins, StopNext, StopCancelsChild, StopCancelsLoop,
          StopTimesOut, StopDrains, StopEnds
  <2>5. CASE ChildNext
    BY <1>0, <2>5 DEF FlagTypes, ChildNext, ChildAdvances, ChildCannotStart, ChildReports,
          ChildLeavesScan, ChildEnds, ChildCancelled
  <2> QED BY <2>1, <2>2, <2>3, <2>4, <2>5 DEF Next
<1> QED BY <1>1, <1>2

\* Every step keeps the values of the controls among the messages.
LEMMA ValueStep ==
  ASSUME ControllerInv, Next
  PROVE  ValueTypes'
<1> USE DEF controlVars, loopVars, childVars, scanVars, stopVars, ChildUnchanged
<1>0. ValueTypes /\ QueueTypes /\ 0 \in 0 .. MaxMessage
  BY TypeParts, ControllerAssumption DEF ControllerInv
<1>1. ASSUME NEW m \in Message, HandleOnTopic(m) PROVE ValueTypes'
  <2>1. m \in 0 .. MaxMessage
    BY ControllerAssumption DEF Message
  <2> QED BY <1>0, <1>1, <2>1 DEF HandleOnTopic, ValueTypes
<1>2. CASE RefuseItem
  <2>1. CASE item \in Message
    <3>1. ControlOf[item] \in Control
      BY <2>1, ControllerAssumption
    <3> QED BY <1>0, <1>2, <2>1, <3>1 DEF RefuseItem, ValueTypes
  <2>2. CASE item \notin Message
    BY <1>0, <1>2, <2>2 DEF RefuseItem, ValueTypes
  <2> QED BY <2>1, <2>2
<1>3. CASE GatherControls
  BY <1>0, <1>3 DEF GatherControls, ValueTypes
<1>4. CASE FinishControls
  <2>1. PICK ok \in SUBSET (1 .. Len(controls)) :
           value' = [c \in Control |->
                      IF \E i \in ok : ControlOf[controls[i].task] = c
                      THEN controls[CHOOSE i \in ok : ControlOf[controls[i].task] = c].value
                      ELSE value[c]]
    BY <1>4 DEF FinishControls
  <2>2. ASSUME NEW c \in Control, \E i \in ok : ControlOf[controls[i].task] = c
        PROVE  controls[CHOOSE i \in ok : ControlOf[controls[i].task] = c].value \in 0 .. MaxMessage
    <3>1. PICK i \in ok : i = CHOOSE j \in ok : ControlOf[controls[j].task] = c
      BY <2>2
    <3>2. controls \in Seq([task : Message, value : Message]) /\ i \in 1 .. Len(controls)
      BY <1>0 DEF QueueTypes
    <3>3. controls[i] \in [task : Message, value : Message]
      BY <3>2, ElementOfSeq, Zenon
    <3>4. controls[i].value \in 0 .. MaxMessage
      BY <3>3, ControllerAssumption DEF Message
    <3> QED BY <3>1, <3>4
  <2>3. value' \in [Control -> 0 .. MaxMessage]
    BY <1>0, <2>1, <2>2 DEF ValueTypes
  <2> QED BY <1>0, <1>4, <2>3 DEF FinishControls, ValueTypes
<1>5. CASE TakeItem \/ PollWhenIdle \/ RunTask \/ FinishTask \/ RunCommissioning \/ CollectChild
             \/ FinishPoll \/ PollRaises \/ LoopCancelled \/ LoopCancelsChild
  BY <1>0, <1>5 DEF ValueTypes, TakeItem, PollWhenIdle, RunTask, FinishTask, RunCommissioning,
        CollectChild, FinishPoll, PollRaises, LoopCancelled, LoopCancelsChild
<1>6. CASE \/ \E r \in Request : SubmitRequest(r)
           \/ \E b \in Batch : SendCommandBatch(b)
           \/ \E t \in Request \cup Batch : CallerGivesUp(t)
           \/ \E s \in Scan : StartCommissioning(s)
           \/ CancelCommissioning
  BY <1>0, <1>6 DEF ValueTypes, SubmitRequest, SendCommandBatch, CallerGivesUp, StartCommissioning,
        CancelCommissioning
<1>7. CASE StartBegins \/ StartFails \/ StartEnds \/ StartQuiescentMode \/ StopQuiescentMode
  BY <1>0, <1>7 DEF ValueTypes, StartBegins, StartFails, StartEnds, StartQuiescentMode,
        StopQuiescentMode
<1>8. CASE StopBegins \/ StopNext
  BY <1>0, <1>8 DEF ValueTypes, StopBegins, StopNext, StopCancelsChild, StopCancelsLoop,
        StopTimesOut, StopDrains, StopEnds
<1>9. CASE ChildNext
  BY <1>0, <1>9 DEF ValueTypes, ChildNext, ChildAdvances, ChildCannotStart, ChildReports,
        ChildLeavesScan, ChildEnds, ChildCancelled
<1> QED
  BY <1>1, <1>2, <1>3, <1>4, <1>5, <1>6, <1>7, <1>8, <1>9 DEF Next, CallersNext, LoopNext

\* Every step keeps tasks in the queue and in the hands of the loop.
LEMMA QueueStep ==
  ASSUME ControllerInv, Next
  PROVE  QueueTypes'
<1> USE DEF controlVars, loopVars, childVars, scanVars, stopVars, ChildUnchanged
<1>0. QueueTypes
  BY TypeParts DEF ControllerInv
<1>1. ASSUME NEW t \in Task,
             SubmitRequest(t) \/ SendCommandBatch(t) \/ StartCommissioning(t)
      PROVE  QueueTypes'
  <2>1. Put(t)
    BY <1>1 DEF SubmitRequest, SendCommandBatch, StartCommissioning
  <2>2. /\ tasksQueue' \in Seq(Task)
        /\ future' \in [Task -> {"none", "pending", "done"}]
    BY <1>0, <2>1, PutType
  <2> QED
    BY <1>0, <1>1, <2>2 DEF QueueTypes, SubmitRequest, SendCommandBatch, StartCommissioning
<1>2. ASSUME NEW t \in Request \cup Batch, CallerGivesUp(t) PROVE QueueTypes'
  BY <1>0, <1>2 DEF QueueTypes, CallerGivesUp, Task
<1>3. ASSUME NEW m \in Message, HandleOnTopic(m) PROVE QueueTypes'
  <2>1. m \in Task
    BY DEF Task
  <2>2. /\ tasksQueue' \in Seq(Task)
        /\ future' \in [Task -> {"none", "pending", "done"}]
    <3>1. CASE Put(m)
      BY <1>0, <2>1, <3>1, PutType
    <3>2. CASE UNCHANGED <<tasksQueue, future>>
      BY <1>0, <3>2 DEF QueueTypes
    <3> QED BY <1>3, <3>1, <3>2 DEF HandleOnTopic
  <2> QED
    BY <1>0, <1>3, <2>2 DEF QueueTypes, HandleOnTopic
<1>4. CASE CancelCommissioning
  <2>1. tasksQueue' \in Seq(Task)
    <3>1. tasksQueue \in Seq(Task)
      BY <1>0 DEF QueueTypes
    <3>2. CASE UNCHANGED tasksQueue
      BY <3>1, <3>2
    <3>3. CASE RemoveQueuedScan
      <4>1. PICK k \in QueuedScans :
               tasksQueue' = SubSeq(tasksQueue, 1, k - 1) \o SubSeq(tasksQueue, k + 1, Len(tasksQueue))
        BY <3>3 DEF RemoveQueuedScan
      <4>2. k \in 1 .. Len(tasksQueue)
        BY DEF QueuedScans
      <4> QED BY <3>1, <4>1, <4>2, RemoveAt
    <3> QED BY <1>4, <3>2, <3>3 DEF CancelCommissioning
  <2>2. future' \in [Task -> {"none", "pending", "done"}]
    <3>1. CASE UNCHANGED future
      BY <1>0, <3>1 DEF QueueTypes
    <3>2. CASE RemoveQueuedScan
      BY <1>0, <3>2, ResolvedType DEF RemoveQueuedScan
    <3> QED BY <1>4, <3>1, <3>2 DEF CancelCommissioning
  <2> QED
    BY <1>0, <1>4, <2>1, <2>2 DEF QueueTypes, CancelCommissioning
<1>5. CASE TakeItem
  <2>1. item' \in Task /\ tasksQueue' \in Seq(Task)
    BY <1>0, <1>5, TailAt DEF TakeItem, QueueTypes
  <2> QED BY <1>0, <1>5, <2>1 DEF QueueTypes, TakeItem
<1>6. CASE PollWhenIdle \/ FinishPoll \/ PollRaises \/ RunTask \/ RunCommissioning \/ LoopCancelsChild
  BY <1>0, <1>6 DEF QueueTypes, PollWhenIdle, FinishPoll, PollRaises, RunTask, RunCommissioning,
        LoopCancelsChild
<1>7. CASE RefuseItem \/ FinishTask \/ CollectChild
  <2>1. future' \in [Task -> {"none", "pending", "done"}]
    BY <1>0, <1>7, ResolvedType DEF RefuseItem, FinishTask, CollectChild
  <2> QED
    BY <1>0, <1>7, <2>1 DEF QueueTypes, RefuseItem, FinishTask, CollectChild
<1>8. CASE GatherControls
  <2>1. PICK n \in 0 .. Len(tasksQueue) :
           /\ n < Len(tasksQueue) => item' = tasksQueue[n + 1]
           /\ n = Len(tasksQueue) => item' = NoTask
           /\ tasksQueue' \in Seq(Task)
           /\ controls' \in Seq([task : Message, value : Message])
    BY <1>8, GatherIs
  <2>2. tasksQueue \in Seq(Task) /\ Len(tasksQueue) \in Nat
    BY <1>0 DEF QueueTypes
  <2>3. n < Len(tasksQueue) => tasksQueue[n + 1] \in Task
    BY <2>2
  <2>4. item' \in Task \cup {NoTask}
    BY <2>1, <2>2, <2>3
  <2> QED BY <1>0, <1>8, <2>1, <2>4 DEF QueueTypes, GatherControls
<1>9. CASE FinishControls
  <2>1. future' \in [Task -> {"none", "pending", "done"}]
    BY <1>0, <1>9, ResolvedType DEF FinishControls
  <2> QED BY <1>0, <1>9, <2>1 DEF QueueTypes, FinishControls
<1>10. CASE LoopCancelled
  BY <1>0, <1>10 DEF LoopCancelled, QueueTypes
<1>11. CASE StopBegins \/ StopDrains
  <2>1. future' \in [Task -> {"none", "pending", "done"}]
    BY <1>0, <1>11, ResolvedType DEF StopBegins, StopDrains
  <2>2. tasksQueue' \in Seq(Task)
    <3>1. tasksQueue' = tasksQueue \/ tasksQueue' = <<>>
      BY <1>11 DEF StopBegins, StopDrains
    <3>2. tasksQueue \in Seq(Task) /\ <<>> \in Seq(Task)
      BY <1>0 DEF QueueTypes
    <3> QED BY <3>1, <3>2, Zenon
  <2> QED BY <1>0, <1>11, <2>1, <2>2 DEF QueueTypes, StopBegins, StopDrains
<1>12. CASE StopCancelsChild \/ StopCancelsLoop \/ StopTimesOut \/ StopEnds
  BY <1>0, <1>12 DEF QueueTypes, StopCancelsChild, StopCancelsLoop, StopTimesOut, StopEnds
<1>13. CASE StartBegins \/ StartFails \/ StartEnds \/ StartQuiescentMode \/ StopQuiescentMode
  BY <1>0, <1>13 DEF QueueTypes, StartBegins, StartFails, StartEnds, StartQuiescentMode,
        StopQuiescentMode
<1>14. CASE ChildNext
  BY <1>0, <1>14 DEF QueueTypes, ChildNext, ChildAdvances, ChildCannotStart, ChildReports,
        ChildLeavesScan, ChildEnds, ChildCancelled
<1> QED
  BY <1>1, <1>2, <1>3, <1>4, <1>5, <1>6, <1>7, <1>8, <1>9, <1>10, <1>11, <1>12, <1>13, <1>14
  DEF Next, CallersNext, LoopNext, StopNext, Task

\* What the loop and the child hold stays tied to where they are.
LEMMA LoopStep ==
  ASSUME ControllerInv, Next
  PROVE  LoopInv'
<1> USE DEF controlVars, loopVars, childVars, scanVars, stopVars, ChildUnchanged
<1>0. LoopInv /\ PlaceTypes /\ QueueTypes
  BY TypeParts DEF ControllerInv
<1>1. CASE TakeItem
  <2>1. item' \in Task
    BY <1>0, <1>1, TailAt DEF TakeItem, QueueTypes
  <2> QED BY <1>0, <1>1, <2>1, ControllerAssumption DEF TakeItem, LoopInv
<1>2. CASE GatherControls
  <2>1. item' \notin Message
    <3>1. PICK n \in 0 .. Len(tasksQueue) :
             /\ n < Len(tasksQueue) => item' \notin Message
             /\ n = Len(tasksQueue) => item' = NoTask
      BY <1>2, GatherIs
    <3>2. Len(tasksQueue) \in Nat
      BY <1>0 DEF QueueTypes
    <3> QED BY <3>1, <3>2, Kinds
  <2> QED BY <1>0, <1>2, <2>1 DEF GatherControls, LoopInv
<1>3. CASE RefuseItem \/ FinishControls \/ FinishTask \/ CollectChild \/ FinishPoll \/ LoopCancelled
  BY <1>0, <1>3, Kinds DEF RefuseItem, FinishControls, FinishTask, CollectChild, FinishPoll,
        LoopCancelled, EndIteration, Top, LoopInv
<1>4. CASE PollWhenIdle \/ RunTask \/ RunCommissioning \/ PollRaises \/ LoopCancelsChild
  BY <1>0, <1>4, Kinds DEF PollWhenIdle, RunTask, RunCommissioning, PollRaises, LoopCancelsChild, LoopInv
<1>5. CASE ChildNext
  BY <1>0, <1>5 DEF LoopInv, ChildNext, ChildAdvances, ChildCannotStart, ChildReports,
        ChildLeavesScan, ChildEnds, ChildCancelled
<1>6. CASE StartEnds
  <2>1. pc = "none"
    BY <1>6 DEF StartEnds, ControllerInv, StopInv
  <2> QED BY <1>0, <1>6, <2>1, Kinds DEF StartEnds, LoopInv
<1>7. CASE CallersNext
  BY <1>0, <1>7 DEF LoopInv, CallersNext, SubmitRequest, SendCommandBatch, CallerGivesUp,
        HandleOnTopic, StartCommissioning, CancelCommissioning
<1>8. CASE StartBegins \/ StartFails \/ StartQuiescentMode \/ StopQuiescentMode
  BY <1>0, <1>8 DEF LoopInv, StartBegins, StartFails, StartQuiescentMode, StopQuiescentMode
<1>9. CASE StopBegins \/ StopNext
  BY <1>0, <1>9 DEF LoopInv, StopBegins, StopNext, StopCancelsChild, StopCancelsLoop,
        StopTimesOut, StopDrains, StopEnds
<1> QED
  BY <1>1, <1>2, <1>3, <1>4, <1>5, <1>6, <1>7, <1>8, <1>9 DEF Next, LoopNext

\* stop() moves on only in its order, and a loop that has ended stays ended.
LEMMA StopInvStep ==
  ASSUME ControllerInv, Next
  PROVE  StopInv'
<1> USE DEF controlVars, loopVars, childVars, scanVars, stopVars, ChildUnchanged
<1>0. StopInv /\ PlaceTypes /\ LoopInv
  BY TypeParts DEF ControllerInv
<1>1. CASE LoopNext
  BY <1>0, <1>1 DEF StopInv, LoopNext, TakeItem, PollWhenIdle, RefuseItem, GatherControls,
        FinishControls, RunTask, FinishTask, RunCommissioning, CollectChild, FinishPoll, PollRaises,
        LoopCancelled, LoopCancelsChild
<1>2. CASE ChildNext
  BY <1>0, <1>2 DEF StopInv, ChildNext, ChildAdvances, ChildCannotStart, ChildReports,
        ChildLeavesScan, ChildEnds, ChildCancelled
<1>3. CASE CallersNext
  BY <1>0, <1>3 DEF StopInv, CallersNext, SubmitRequest, SendCommandBatch, CallerGivesUp,
        HandleOnTopic, StartCommissioning, CancelCommissioning
<1>4. CASE StartBegins \/ StartFails \/ StartEnds \/ StartQuiescentMode \/ StopQuiescentMode
  BY <1>0, <1>4 DEF StopInv, StartBegins, StartFails, StartEnds, StartQuiescentMode, StopQuiescentMode
<1>5. CASE StopBegins \/ StopNext
  BY <1>0, <1>5 DEF StopInv, PlaceTypes, StopBegins, StopNext, StopCancelsChild, StopCancelsLoop,
        StopTimesOut, StopDrains, StopEnds
<1> QED
  BY <1>1, <1>2, <1>3, <1>4, <1>5 DEF Next

\* Values move from waiting to taken to confirmed, each only forward.
LEMMA OrderStep ==
  ASSUME ControllerInv, Next
  PROVE  /\ OrderInv'
         /\ \A c \in Control :
               value'[c] # value[c] => value[c] < value'[c] /\ value'[c] <= settled[c]
<1> USE DEF controlVars, loopVars, childVars, scanVars, stopVars, ChildUnchanged
<1> DEFINE Forward == \A c \in Control :
               value'[c] # value[c] => value[c] < value'[c] /\ value'[c] <= settled[c]
<1>0. /\ OrderInv /\ LoopInv /\ StopInv /\ MessageInv /\ ValueTypes /\ QueueTypes
      /\ MaxMessage \in Nat
      /\ \A m \in Message : ControlOf[m] \in Control
  BY TypeParts, ControllerAssumption DEF ControllerInv
<1>1. ASSUME NEW m \in Message, HandleOnTopic(m) PROVE OrderInv' /\ Forward
  <2>1. m \in Nat \ {0} /\ m = arrived + 1 /\ arrived' = m
    BY <1>1, Kinds DEF HandleOnTopic
  <2>2. \A c \in Control : valueToSet'[c] = valueToSet[c] \/ valueToSet'[c] = m
    BY <1>0, <1>1 DEF HandleOnTopic, ValueTypes
  <2>3. UNCHANGED <<value, settled, controls>>
    BY <1>1 DEF HandleOnTopic
  <2>4. \A c \in Control : value'[c] <= settled'[c] /\ settled'[c] <= arrived'
    BY <1>0, <2>1, <2>3 DEF OrderInv, ValueTypes
  <2>5. \A c \in Control :
           valueToSet'[c] # 0 => settled'[c] < valueToSet'[c] /\ valueToSet'[c] <= arrived'
    BY <1>0, <2>1, <2>2, <2>3 DEF OrderInv, ValueTypes
  <2>6. OrderInv'
    BY <1>0, <2>3, <2>4, <2>5 DEF OrderInv
  <2> QED BY <2>3, <2>6
<1>2. CASE RefuseItem
  <2>1. UNCHANGED <<value, controls, arrived>> /\ controls = <<>> /\ pc = "item"
    BY <1>0, <1>2 DEF RefuseItem, LoopInv
  <2>2. \A c \in Control :
           \/ valueToSet'[c] = valueToSet[c] /\ settled'[c] = settled[c]
           \/ valueToSet[c] # 0 /\ valueToSet'[c] = 0 /\ settled'[c] = valueToSet[c]
    <3>1. CASE item \in Message
      <4>1. valueToSet[ControlOf[item]] # 0
        BY <1>0, <2>1, <3>1 DEF MessageInv, StopInv
      <4> QED BY <1>0, <1>2, <3>1, <4>1 DEF RefuseItem, ValueTypes
    <3>2. CASE item \notin Message
      BY <1>2, <3>2 DEF RefuseItem
    <3> QED BY <3>1, <3>2
  <2>3. OrderInv'
    BY <1>0, <2>1, <2>2 DEF OrderInv, ValueTypes
  <2> QED BY <2>1, <2>3
<1>3. CASE GatherControls
  <2>1. UNCHANGED <<value, arrived>> /\ item \in Message /\ pc = "item"
    BY <1>3 DEF GatherControls
  <2>2. PICK n \in 0 .. Len(tasksQueue) :
            /\ \A i \in 1 .. n : tasksQueue[i] \in Message
            /\ controls' \in Seq([task : Message, value : Message])
            /\ \A k \in 1 .. Len(controls') :
                  LET m == controls'[k].task
                  IN  /\ m = item \/ \E i \in 1 .. n : m = tasksQueue[i]
                      /\ controls'[k].value = valueToSet[ControlOf[m]]
            /\ \A c \in Control :
                  LET taken == ControlOf[item] = c \/ \E i \in 1 .. n : ControlOf[tasksQueue[i]] = c
                  IN  /\ taken => valueToSet'[c] = 0 /\ settled'[c] = valueToSet[c]
                      /\ ~taken => valueToSet'[c] = valueToSet[c] /\ settled'[c] = settled[c]
    BY <1>3, GatherIs
  <2>3. ASSUME NEW m \in Message, m = item \/ \E i \in 1 .. n : m = tasksQueue[i]
        PROVE  /\ ControlOf[m] \in Control
               /\ valueToSet[ControlOf[m]] # 0
               /\ valueToSet'[ControlOf[m]] = 0
               /\ settled'[ControlOf[m]] = valueToSet[ControlOf[m]]
    <3>1. stopStep # "drained"
      BY <1>0, <2>1 DEF StopInv
    <3>2. valueToSet[ControlOf[m]] # 0
      <4>1. CASE m = item
        BY <1>0, <2>1, <3>1, <4>1 DEF MessageInv
      <4>2. CASE \E i \in 1 .. n : m = tasksQueue[i]
        <5>1. PICK i \in 1 .. Len(tasksQueue) : m = tasksQueue[i]
          BY <1>0, <4>2 DEF QueueTypes
        <5> QED BY <1>0, <3>1, <5>1 DEF MessageInv
      <4> QED BY <2>3, <4>1, <4>2
    <3> QED BY <1>0, <2>2, <2>3, <3>2
  <2>4. \A c \in Control :
           \/ valueToSet'[c] = valueToSet[c] /\ settled'[c] = settled[c]
           \/ valueToSet[c] # 0 /\ valueToSet'[c] = 0 /\ settled'[c] = valueToSet[c]
    <3> SUFFICES ASSUME NEW c \in Control
                 PROVE  \/ valueToSet'[c] = valueToSet[c] /\ settled'[c] = settled[c]
                        \/ valueToSet[c] # 0 /\ valueToSet'[c] = 0 /\ settled'[c] = valueToSet[c]
      OBVIOUS
    <3>1. CASE ControlOf[item] = c
      BY <2>1, <2>3, <3>1
    <3>2. CASE \E i \in 1 .. n : ControlOf[tasksQueue[i]] = c
      BY <2>2, <2>3, <3>2
    <3>3. CASE ~(ControlOf[item] = c \/ \E i \in 1 .. n : ControlOf[tasksQueue[i]] = c)
      BY <2>2, <3>3, Zenon
    <3> QED BY <3>1, <3>2, <3>3
  <2>5. ASSUME NEW k \in 1 .. Len(controls')
        PROVE  LET c == ControlOf[controls'[k].task]
               IN  value'[c] < controls'[k].value /\ controls'[k].value <= settled'[c]
    <3> DEFINE m == controls'[k].task
    <3>1. controls'[k] \in [task : Message, value : Message]
      BY <2>2, ElementOfSeq, Zenon
    <3>2. m \in Message
      BY <3>1
    <3>3. /\ m = item \/ \E i \in 1 .. n : m = tasksQueue[i]
          /\ controls'[k].value = valueToSet[ControlOf[m]]
      BY <2>2
    <3> HIDE DEF m
    <3>4. /\ ControlOf[m] \in Control
          /\ valueToSet[ControlOf[m]] # 0
          /\ settled'[ControlOf[m]] = valueToSet[ControlOf[m]]
      BY <3>2, <3>3, <2>3
    <3>5. value'[ControlOf[m]] < valueToSet[ControlOf[m]]
      BY <1>0, <2>1, <3>4 DEF OrderInv, ValueTypes
    <3>6. controls'[k].value <= settled'[ControlOf[m]]
      BY <1>0, <3>3, <3>4 DEF ValueTypes
    <3> QED BY <3>3, <3>5, <3>6 DEF m
  <2>6. OrderInv'
    <3>1. \A c \in Control : value'[c] <= settled'[c] /\ settled'[c] <= arrived'
      BY <1>0, <2>1, <2>4 DEF OrderInv, ValueTypes
    <3>2. \A c \in Control :
             valueToSet'[c] # 0 => settled'[c] < valueToSet'[c] /\ valueToSet'[c] <= arrived'
      BY <1>0, <2>1, <2>4 DEF OrderInv, ValueTypes
    <3> QED BY <2>5, <3>1, <3>2 DEF OrderInv
  <2> QED BY <2>1, <2>6
<1>4. CASE FinishControls
  <2>1. UNCHANGED <<settled, valueToSet, arrived>> /\ controls' = <<>>
    BY <1>4 DEF FinishControls
  <2>2. PICK ok \in SUBSET (1 .. Len(controls)) :
           value' = [c \in Control |->
                      IF \E i \in ok : ControlOf[controls[i].task] = c
                      THEN controls[CHOOSE i \in ok : ControlOf[controls[i].task] = c].value
                      ELSE value[c]]
    BY <1>4 DEF FinishControls
  <2>3. ASSUME NEW c \in Control
        PROVE  value'[c] = value[c] \/ (value[c] < value'[c] /\ value'[c] <= settled[c])
    <3>1. CASE \E i \in ok : ControlOf[controls[i].task] = c
      <4>1. PICK i \in ok : /\ i = CHOOSE j \in ok : ControlOf[controls[j].task] = c
                            /\ ControlOf[controls[i].task] = c
        BY <3>1
      <4>2. value'[c] = controls[i].value
        BY <2>2, <3>1, <4>1
      <4> QED BY <1>0, <4>1, <4>2 DEF OrderInv
    <3>2. CASE ~ \E i \in ok : ControlOf[controls[i].task] = c
      BY <2>2, <3>2
    <3> QED BY <3>1, <3>2
  <2>4. value' \in [Control -> 0 .. MaxMessage]
    BY ValueStep DEF ValueTypes
  <2>5. OrderInv'
    BY <1>0, <2>1, <2>3, <2>4 DEF OrderInv, ValueTypes
  <2> QED BY <2>3, <2>5
<1>5. CASE TakeItem \/ PollWhenIdle \/ RunTask \/ FinishTask \/ RunCommissioning \/ CollectChild
             \/ FinishPoll \/ PollRaises \/ LoopCancelsChild
  BY <1>0, <1>5 DEF OrderInv, TakeItem, PollWhenIdle, RunTask, FinishTask, RunCommissioning,
        CollectChild, FinishPoll, PollRaises, LoopCancelsChild
<1>6. CASE LoopCancelled
  BY <1>0, <1>6 DEF OrderInv, LoopCancelled
<1>7. CASE \/ \E r \in Request : SubmitRequest(r)
           \/ \E b \in Batch : SendCommandBatch(b)
           \/ \E t \in Request \cup Batch : CallerGivesUp(t)
           \/ \E s \in Scan : StartCommissioning(s)
           \/ CancelCommissioning
  BY <1>0, <1>7 DEF OrderInv, SubmitRequest, SendCommandBatch, CallerGivesUp, StartCommissioning,
        CancelCommissioning
<1>8. CASE StartBegins \/ StartFails \/ StartEnds \/ StartQuiescentMode \/ StopQuiescentMode
  BY <1>0, <1>8 DEF OrderInv, StartBegins, StartFails, StartEnds, StartQuiescentMode,
        StopQuiescentMode
<1>9. CASE StopBegins \/ StopNext
  BY <1>0, <1>9 DEF OrderInv, StopBegins, StopNext, StopCancelsChild, StopCancelsLoop,
        StopTimesOut, StopDrains, StopEnds
<1>10. CASE ChildNext
  BY <1>0, <1>10 DEF OrderInv, ChildNext, ChildAdvances, ChildCannotStart, ChildReports,
        ChildLeavesScan, ChildEnds, ChildCancelled
<1> QED
  BY <1>1, <1>2, <1>3, <1>4, <1>5, <1>6, <1>7, <1>8, <1>9, <1>10 DEF Next, CallersNext, LoopNext

\* The drain is the end: before it, it has not happened.
LEMMA DrainedStays ==
  ASSUME ControllerInv, Next, stopStep = "drained"
  PROVE  stopStep' = "drained"
<1> USE DEF controlVars, loopVars, childVars, scanVars, stopVars, ChildUnchanged
<1>0. stopStep = "drained" /\ state # "ready"
  BY DEF ControllerInv, StopInv
<1> QED
  BY <1>0 DEF Next, CallersNext, LoopNext, ChildNext, StopNext, StartBegins, StartFails, StartEnds,
        SubmitRequest, SendCommandBatch, CallerGivesUp, HandleOnTopic, StartCommissioning,
        CancelCommissioning, StartQuiescentMode, StopQuiescentMode, TakeItem, PollWhenIdle,
        RefuseItem, GatherControls, FinishControls, RunTask, FinishTask, RunCommissioning,
        CollectChild, FinishPoll, PollRaises, LoopCancelled, LoopCancelsChild, ChildAdvances,
        ChildCannotStart, ChildReports, ChildLeavesScan, ChildEnds, ChildCancelled, StopBegins,
        StopCancelsChild, StopCancelsLoop, StopTimesOut, StopDrains, StopEnds

\* One task for each value that waits, whatever the callers and the loop do.
LEMMA MessageStep ==
  ASSUME ControllerInv, Next
  PROVE  MessageInv'
<1> USE DEF controlVars, loopVars, childVars, scanVars, stopVars, ChildUnchanged
<1>0. /\ MessageInv /\ LoopInv /\ ValueTypes /\ StopInv
      /\ tasksQueue \in Seq(Task) /\ Len(tasksQueue) \in Nat
      /\ \A m \in Message : ControlOf[m] \in Control
  BY TypeParts, ControllerAssumption DEF ControllerInv, QueueTypes
<1>1. ASSUME stopStep = "drained" PROVE MessageInv'
  BY <1>1, DrainedStays DEF MessageInv
<1> SUFFICES ASSUME stopStep # "drained" PROVE MessageInv'
  BY <1>1
<1>15. ASSUME NEW i \in 1 .. Len(tasksQueue), NEW j \in 1 .. Len(tasksQueue),
              tasksQueue[i] \in Message, tasksQueue[j] \in Message,
              ControlOf[tasksQueue[i]] = ControlOf[tasksQueue[j]]
       PROVE  i = j
  BY <1>0, <1>15 DEF MessageInv
<1>2. ASSUME NEW t \in Request \cup Batch \cup Scan,
             SubmitRequest(t) \/ SendCommandBatch(t) \/ StartCommissioning(t)
      PROVE  MessageInv'
  <2>1. t \in Task /\ t \notin Message
    BY Kinds DEF Task
  <2>2. UNCHANGED <<item, valueToSet, stopStep>> /\ tasksQueue' = Append(tasksQueue, t)
    BY <1>2 DEF SubmitRequest, SendCommandBatch, StartCommissioning, Put
  <2>3. /\ Len(tasksQueue') = Len(tasksQueue) + 1
        /\ \A i \in 1 .. Len(tasksQueue) : tasksQueue'[i] = tasksQueue[i]
        /\ tasksQueue'[Len(tasksQueue) + 1] = t
    BY <1>0, <2>1, <2>2, AppendAt
  <2> QED BY <1>0, <2>1, <2>2, <2>3 DEF MessageInv
<1>3. ASSUME NEW m \in Message, HandleOnTopic(m) PROVE MessageInv'
  <2> DEFINE c == ControlOf[m]
  <2>1. UNCHANGED <<item, stopStep>> /\ c \in Control /\ m # 0
    BY <1>0, <1>3, Kinds DEF HandleOnTopic
  <2>2. valueToSet'[c] = m /\ \A d \in Control : d # c => valueToSet'[d] = valueToSet[d]
    BY <1>0, <1>3, <2>1 DEF HandleOnTopic, ValueTypes
  <2>3. CASE valueToSet[c] # 0
    <3>1. UNCHANGED tasksQueue
      BY <1>3, <2>3 DEF HandleOnTopic
    <3> QED BY <1>0, <2>1, <2>2, <2>3, <3>1 DEF MessageInv
  <2>4. CASE valueToSet[c] = 0
    <3>1. tasksQueue' = Append(tasksQueue, m) /\ m \in Task
      BY <1>3, <2>4 DEF HandleOnTopic, Put, Task
    <3>2. /\ Len(tasksQueue') = Len(tasksQueue) + 1
          /\ \A i \in 1 .. Len(tasksQueue) : tasksQueue'[i] = tasksQueue[i]
          /\ tasksQueue'[Len(tasksQueue) + 1] = m
      BY <1>0, <3>1, AppendAt
    <3>3. /\ \A i \in 1 .. Len(tasksQueue) :
                tasksQueue[i] \in Message => ControlOf[tasksQueue[i]] # c
          /\ item \in Message => ControlOf[item] # c
      BY <1>0, <2>4 DEF MessageInv
    <3> HIDE DEF c
    <3>4. ASSUME NEW i \in 1 .. Len(tasksQueue'), NEW j \in 1 .. Len(tasksQueue'),
                 tasksQueue'[i] \in Message, tasksQueue'[j] \in Message,
                 ControlOf[tasksQueue'[i]] = ControlOf[tasksQueue'[j]]
          PROVE  i = j
      <4>1. CASE i \in 1 .. Len(tasksQueue) /\ j \in 1 .. Len(tasksQueue)
        BY <1>0, <3>2, <3>4, <4>1 DEF MessageInv
      <4>2. CASE i = Len(tasksQueue) + 1 /\ j \in 1 .. Len(tasksQueue)
        BY <3>2, <3>3, <3>4, <4>2 DEF c
      <4>3. CASE j = Len(tasksQueue) + 1 /\ i \in 1 .. Len(tasksQueue)
        BY <3>2, <3>3, <3>4, <4>3 DEF c
      <4> QED BY <1>0, <3>2, <4>1, <4>2, <4>3
    <3>5. ASSUME NEW i \in 1 .. Len(tasksQueue'), tasksQueue'[i] \in Message
          PROVE  /\ valueToSet'[ControlOf[tasksQueue'[i]]] # 0
                 /\ item \in Message => ControlOf[tasksQueue'[i]] # ControlOf[item]
      <4>1. CASE i \in 1 .. Len(tasksQueue)
        BY <1>0, <2>1, <2>2, <3>2, <3>3, <3>5, <4>1 DEF MessageInv
      <4>2. CASE i = Len(tasksQueue) + 1
        BY <2>1, <2>2, <3>2, <3>3, <4>2 DEF c
      <4> QED BY <1>0, <3>2, <4>1, <4>2
    <3>6. ASSUME item \in Message PROVE valueToSet'[ControlOf[item]] # 0
      BY <1>0, <2>2, <3>3, <3>6 DEF MessageInv
    <3>7. ASSUME NEW d \in Control, valueToSet'[d] # 0
          PROVE  \/ item \in Message /\ ControlOf[item] = d
                 \/ \E i \in 1 .. Len(tasksQueue') :
                       tasksQueue'[i] \in Message /\ ControlOf[tasksQueue'[i]] = d
      <4>1. CASE d = c
        <5>1. Len(tasksQueue) + 1 \in 1 .. Len(tasksQueue')
          BY <1>0, <3>2
        <5> QED BY <3>2, <4>1, <5>1 DEF c
      <4>2. CASE d # c
        BY <1>0, <2>2, <3>2, <3>7, <4>2 DEF MessageInv
      <4> QED BY <4>1, <4>2
    <3> QED BY <2>1, <3>4, <3>5, <3>6, <3>7 DEF MessageInv
  <2> QED BY <2>3, <2>4
<1>4. CASE CancelCommissioning
  <2>1. UNCHANGED <<item, valueToSet, stopStep>>
    BY <1>4 DEF CancelCommissioning
  <2>2. CASE UNCHANGED tasksQueue
    BY <1>0, <2>1, <2>2 DEF MessageInv
  <2>3. CASE RemoveQueuedScan
    <3>1. PICK k \in QueuedScans :
             tasksQueue' = SubSeq(tasksQueue, 1, k - 1) \o SubSeq(tasksQueue, k + 1, Len(tasksQueue))
      BY <2>3 DEF RemoveQueuedScan
    <3>2. k \in 1 .. Len(tasksQueue) /\ tasksQueue[k] \notin Message
      BY Kinds DEF QueuedScans
    <3>3. /\ Len(tasksQueue') = Len(tasksQueue) - 1
          /\ \A i \in 1 .. Len(tasksQueue) - 1 : i < k => tasksQueue'[i] = tasksQueue[i]
          /\ \A i \in 1 .. Len(tasksQueue) - 1 : ~(i < k) => tasksQueue'[i] = tasksQueue[i + 1]
      BY <1>0, <3>1, <3>2, RemoveAt
    <3> DEFINE f(i) == IF i < k THEN i ELSE i + 1
    <3>4. \A i \in 1 .. Len(tasksQueue') :
             f(i) \in 1 .. Len(tasksQueue) /\ tasksQueue'[i] = tasksQueue[f(i)]
      BY <1>0, <3>2, <3>3
    <3>5. \A i, j \in 1 .. Len(tasksQueue') : f(i) = f(j) => i = j
      BY <3>2
    <3>6. \A p \in 1 .. Len(tasksQueue) : p # k =>
             \E i \in 1 .. Len(tasksQueue') : tasksQueue'[i] = tasksQueue[p]
      <4> SUFFICES ASSUME NEW p \in 1 .. Len(tasksQueue), p # k
                   PROVE  \E i \in 1 .. Len(tasksQueue') : tasksQueue'[i] = tasksQueue[p]
        OBVIOUS
      <4>1. CASE p < k
        <5>1. p \in 1 .. Len(tasksQueue')
          BY <1>0, <3>2, <3>3, <4>1
        <5> QED BY <3>3, <4>1, <5>1
      <4>2. CASE p > k
        <5>1. p - 1 \in 1 .. Len(tasksQueue') /\ ~(p - 1 < k) /\ p - 1 + 1 = p
          BY <1>0, <3>2, <3>3, <4>2
        <5> QED BY <3>3, <5>1
      <4> QED BY <3>2, <4>1, <4>2
    <3> HIDE DEF f
    <3>7. ASSUME NEW d \in Control, valueToSet[d] # 0
          PROVE  \/ item \in Message /\ ControlOf[item] = d
                 \/ \E i \in 1 .. Len(tasksQueue') :
                       tasksQueue'[i] \in Message /\ ControlOf[tasksQueue'[i]] = d
      BY <1>0, <3>2, <3>6, <3>7 DEF MessageInv
    <3>8. \A i, j \in 1 .. Len(tasksQueue') :
              /\ tasksQueue'[i] \in Message /\ tasksQueue'[j] \in Message
              /\ ControlOf[tasksQueue'[i]] = ControlOf[tasksQueue'[j]]
              => i = j
      BY <1>15, <3>4, <3>5
    <3>9. ASSUME NEW i \in 1 .. Len(tasksQueue'), tasksQueue'[i] \in Message
          PROVE  /\ valueToSet'[ControlOf[tasksQueue'[i]]] # 0
                 /\ item' \in Message => ControlOf[tasksQueue'[i]] # ControlOf[item']
      BY <1>0, <2>1, <3>4, <3>9 DEF MessageInv
    <3>10. item' \in Message => valueToSet'[ControlOf[item']] # 0
      BY <1>0, <2>1 DEF MessageInv
    <3> QED BY <2>1, <3>7, <3>8, <3>9, <3>10 DEF MessageInv
  <2> QED BY <1>4, <2>2, <2>3 DEF CancelCommissioning
<1>5. CASE TakeItem
  <2>1. UNCHANGED <<valueToSet, stopStep>> /\ item \notin Message
    BY <1>0, <1>5, Kinds DEF TakeItem, LoopInv
  <2>2. /\ item' = tasksQueue[1] /\ Len(tasksQueue) # 0
        /\ Len(tasksQueue') = Len(tasksQueue) - 1
        /\ \A i \in 1 .. Len(tasksQueue) - 1 : tasksQueue'[i] = tasksQueue[i + 1]
    BY <1>0, <1>5, TailAt DEF TakeItem
  <2>3. \A p \in 1 .. Len(tasksQueue) : tasksQueue[p] = item' \/
             \E i \in 1 .. Len(tasksQueue') : tasksQueue'[i] = tasksQueue[p]
    <3> SUFFICES ASSUME NEW p \in 1 .. Len(tasksQueue), p # 1
                 PROVE  \E i \in 1 .. Len(tasksQueue') : tasksQueue'[i] = tasksQueue[p]
      BY <2>2
    <3>1. p - 1 \in 1 .. Len(tasksQueue') /\ p - 1 + 1 = p
      BY <1>0, <2>2
    <3> QED BY <2>2, <3>1
  <2>4. \A i \in 1 .. Len(tasksQueue') : i + 1 \in 1 .. Len(tasksQueue) /\ i + 1 # 1
    BY <1>0, <2>2
  <2>5. 1 \in 1 .. Len(tasksQueue)
    BY <1>0, <2>2
  <2>6. ASSUME NEW d \in Control, valueToSet'[d] # 0
        PROVE  \/ item' \in Message /\ ControlOf[item'] = d
               \/ \E i \in 1 .. Len(tasksQueue') :
                     tasksQueue'[i] \in Message /\ ControlOf[tasksQueue'[i]] = d
    <3>1. PICK p \in 1 .. Len(tasksQueue) : tasksQueue[p] \in Message /\ ControlOf[tasksQueue[p]] = d
      BY <1>0, <2>1, <2>6 DEF MessageInv
    <3> QED BY <2>3, <3>1
  <2>7. ASSUME NEW i \in 1 .. Len(tasksQueue'), tasksQueue'[i] \in Message
        PROVE  /\ valueToSet'[ControlOf[tasksQueue'[i]]] # 0
               /\ item' \in Message => ControlOf[tasksQueue'[i]] # ControlOf[item']
    BY <1>0, <2>1, <2>2, <2>4, <2>5, <2>7 DEF MessageInv
  <2>8. \A i, j \in 1 .. Len(tasksQueue') :
              /\ tasksQueue'[i] \in Message /\ tasksQueue'[j] \in Message
              /\ ControlOf[tasksQueue'[i]] = ControlOf[tasksQueue'[j]]
              => i = j
    <3> SUFFICES ASSUME NEW i \in 1 .. Len(tasksQueue'), NEW j \in 1 .. Len(tasksQueue'),
                        tasksQueue'[i] \in Message, tasksQueue'[j] \in Message,
                        ControlOf[tasksQueue'[i]] = ControlOf[tasksQueue'[j]]
                 PROVE  i = j
      OBVIOUS
    <3>1. i + 1 = j + 1
      <4>1. /\ i + 1 \in 1 .. Len(tasksQueue) /\ tasksQueue'[i] = tasksQueue[i + 1]
            /\ j + 1 \in 1 .. Len(tasksQueue) /\ tasksQueue'[j] = tasksQueue[j + 1]
        BY <2>2, <2>4
      <4> QED BY <1>15, <4>1, Zenon
    <3> QED BY <3>1
  <2>9. item' \in Message => valueToSet'[ControlOf[item']] # 0
    BY <1>0, <2>1, <2>2, <2>5 DEF MessageInv
  <2> QED BY <2>6, <2>7, <2>8, <2>9 DEF MessageInv
<1>6. CASE RefuseItem
  <2>1. UNCHANGED <<tasksQueue, stopStep>> /\ item' = NoTask /\ item' \notin Message
    BY <1>6, Kinds DEF RefuseItem
  <2>2. CASE item \in Message
    <3>1. valueToSet'[ControlOf[item]] = 0 /\
          \A d \in Control : d # ControlOf[item] => valueToSet'[d] = valueToSet[d]
      BY <1>0, <1>6, <2>2 DEF RefuseItem, ValueTypes
    <3> QED BY <1>0, <2>1, <2>2, <3>1 DEF MessageInv
  <2>3. CASE item \notin Message
    <3>1. UNCHANGED valueToSet
      BY <1>6, <2>3 DEF RefuseItem
    <3> QED BY <1>0, <2>1, <2>3, <3>1 DEF MessageInv
  <2> QED BY <2>2, <2>3
<1>7. CASE GatherControls
  <2>1. UNCHANGED stopStep /\ item \in Message
    BY <1>7 DEF GatherControls
  <2>2. PICK n \in 0 .. Len(tasksQueue) :
            /\ \A i \in 1 .. n : tasksQueue[i] \in Message
            /\ n < Len(tasksQueue) => item' = tasksQueue[n + 1] /\ item' \notin Message
            /\ n = Len(tasksQueue) => item' = NoTask
            /\ n < Len(tasksQueue) => Len(tasksQueue') = Len(tasksQueue) - n - 1
            /\ n = Len(tasksQueue) => Len(tasksQueue') = 0
            /\ \A i \in 1 .. Len(tasksQueue') : tasksQueue'[i] = tasksQueue[n + 1 + i]
            /\ \A c \in Control :
                  LET taken == ControlOf[item] = c \/ \E i \in 1 .. n : ControlOf[tasksQueue[i]] = c
                  IN  /\ taken => valueToSet'[c] = 0 /\ settled'[c] = valueToSet[c]
                      /\ ~taken => valueToSet'[c] = valueToSet[c] /\ settled'[c] = settled[c]
    BY <1>7, GatherIs
  <2>3. item' \notin Message
    BY <1>0, <2>2, Kinds
  <2>4. \A i \in 1 .. Len(tasksQueue') : n + 1 + i \in 1 .. Len(tasksQueue) /\ n + 1 + i \notin 1 .. n
    BY <1>0, <2>2
  <2>5. ASSUME NEW i \in 1 .. Len(tasksQueue'), NEW j \in 1 .. Len(tasksQueue'),
               tasksQueue'[i] \in Message, tasksQueue'[j] \in Message,
               ControlOf[tasksQueue'[i]] = ControlOf[tasksQueue'[j]]
        PROVE  i = j
    <3>1. n + 1 + i = n + 1 + j
      <4>1. /\ n + 1 + i \in 1 .. Len(tasksQueue) /\ tasksQueue'[i] = tasksQueue[n + 1 + i]
            /\ n + 1 + j \in 1 .. Len(tasksQueue) /\ tasksQueue'[j] = tasksQueue[n + 1 + j]
        BY <2>2, <2>4
      <4> QED BY <1>15, <2>5, <4>1, Zenon
    <3> QED BY <3>1
  <2>6. ASSUME NEW i \in 1 .. Len(tasksQueue'), tasksQueue'[i] \in Message
        PROVE  valueToSet'[ControlOf[tasksQueue'[i]]] # 0
    <3> DEFINE p == n + 1 + i
    <3>1. p \in 1 .. Len(tasksQueue) /\ p \notin 1 .. n /\ tasksQueue'[i] = tasksQueue[p]
      BY <2>2, <2>4
    <3> HIDE DEF p
    <3>2. ControlOf[tasksQueue[p]] \in Control /\ valueToSet[ControlOf[tasksQueue[p]]] # 0
      BY <1>0, <2>6, <3>1 DEF MessageInv
    <3>3. ControlOf[item] # ControlOf[tasksQueue[p]]
      BY <1>0, <2>1, <2>6, <3>1 DEF MessageInv
    <3>4. ASSUME NEW q \in 1 .. n PROVE ControlOf[tasksQueue[q]] # ControlOf[tasksQueue[p]]
      <4>1. q \in 1 .. Len(tasksQueue) /\ tasksQueue[q] \in Message /\ q # p
        BY <1>0, <2>2, <3>1
      <4> QED BY <1>0, <2>6, <3>1, <4>1 DEF MessageInv
    <3>5. valueToSet'[ControlOf[tasksQueue[p]]] = valueToSet[ControlOf[tasksQueue[p]]]
      BY <2>2, <3>2, <3>3, <3>4, Zenon
    <3> QED BY <3>1, <3>2, <3>5
  <2>7. ASSUME NEW d \in Control, valueToSet'[d] # 0
        PROVE  \E i \in 1 .. Len(tasksQueue') :
                     tasksQueue'[i] \in Message /\ ControlOf[tasksQueue'[i]] = d
    <3>1. /\ ~(ControlOf[item] = d \/ \E i \in 1 .. n : ControlOf[tasksQueue[i]] = d)
          /\ valueToSet[d] # 0
      BY <2>2, <2>7
    <3>2. PICK p \in 1 .. Len(tasksQueue) : tasksQueue[p] \in Message /\ ControlOf[tasksQueue[p]] = d
      BY <1>0, <3>1 DEF MessageInv
    <3>3. p \notin 1 .. n /\ p # n + 1
      BY <1>0, <2>2, <3>1, <3>2
    <3>4. p - n - 1 \in 1 .. Len(tasksQueue') /\ n + 1 + (p - n - 1) = p
      BY <1>0, <2>2, <3>3
    <3>5. tasksQueue'[p - n - 1] = tasksQueue[p]
      BY <2>2, <3>4
    <3> QED BY <3>2, <3>4, <3>5
  <2> QED BY <2>1, <2>3, <2>5, <2>6, <2>7 DEF MessageInv
<1>8. CASE FinishTask \/ CollectChild \/ LoopCancelled
  <2>1. UNCHANGED <<tasksQueue, valueToSet, stopStep>> /\ item \notin Message /\ item' \notin Message
    BY <1>0, <1>8, Kinds DEF FinishTask, CollectChild, LoopCancelled, LoopInv
  <2> QED BY <1>0, <2>1 DEF MessageInv
<1>9. CASE StopDrains
  BY <1>9 DEF StopDrains, MessageInv
<1>10. ASSUME UNCHANGED <<tasksQueue, valueToSet, item>> PROVE MessageInv'
  BY <1>0, <1>10 DEF MessageInv
<1>11. CASE PollWhenIdle \/ FinishControls \/ RunTask \/ RunCommissioning \/ FinishPoll \/ PollRaises
             \/ LoopCancelsChild
  BY <1>10, <1>11 DEF PollWhenIdle, FinishControls, RunTask, RunCommissioning, FinishPoll, PollRaises,
        LoopCancelsChild
<1>12. CASE ChildNext
  BY <1>10, <1>12 DEF ChildNext, ChildAdvances, ChildCannotStart, ChildReports, ChildLeavesScan,
        ChildEnds, ChildCancelled
<1>13. CASE StartBegins \/ StartFails \/ StartEnds \/ StartQuiescentMode \/ StopQuiescentMode
  BY <1>10, <1>13 DEF StartBegins, StartFails, StartEnds, StartQuiescentMode, StopQuiescentMode
<1>14. CASE \/ StopBegins \/ StopCancelsChild \/ StopCancelsLoop \/ StopTimesOut \/ StopEnds
            \/ \E t \in Request \cup Batch : CallerGivesUp(t)
  BY <1>10, <1>14 DEF StopBegins, StopCancelsChild, StopCancelsLoop, StopTimesOut, StopEnds,
        CallerGivesUp
<1> QED
  BY <1>2, <1>3, <1>4, <1>5, <1>6, <1>7, <1>8, <1>9, <1>11, <1>12, <1>13, <1>14
  DEF Next, CallersNext, LoopNext, StopNext

\* A task that is no scan joins the queue: the queued scans stay.
LEMMA ScansKept ==
  ASSUME tasksQueue \in Seq(Task), NEW t \in Task, t \notin Scan, tasksQueue' = Append(tasksQueue, t)
  PROVE  QueuedScans' = QueuedScans
<1>1. /\ Len(tasksQueue') = Len(tasksQueue) + 1 /\ Len(tasksQueue) \in Nat
      /\ \A i \in 1 .. Len(tasksQueue) : tasksQueue'[i] = tasksQueue[i]
      /\ tasksQueue'[Len(tasksQueue) + 1] = t
  BY AppendAt
<1> QED BY <1>1 DEF QueuedScans

\* One scan at most, known by its status, whatever callers, loop and child do.
LEMMA ScanStep ==
  ASSUME ControllerInv, Next
  PROVE  ScanInv'
<1> USE DEF controlVars, loopVars, childVars, scanVars, stopVars, ChildUnchanged
<1>0. /\ ScanInv /\ LoopInv /\ PlaceTypes
      /\ tasksQueue \in Seq(Task) /\ Len(tasksQueue) \in Nat
  BY TypeParts DEF ControllerInv, QueueTypes
<1>1. ASSUME NEW t \in Request \cup Batch, SubmitRequest(t) \/ SendCommandBatch(t)
      PROVE  ScanInv'
  <2>1. t \in Task /\ t \notin Scan
    BY Kinds DEF Task
  <2>2. UNCHANGED <<item, child, status>> /\ tasksQueue' = Append(tasksQueue, t)
    BY <1>1 DEF SubmitRequest, SendCommandBatch, Put
  <2>3. QueuedScans' = QueuedScans
    BY <1>0, <2>1, <2>2, ScansKept
  <2> QED BY <1>0, <2>2, <2>3 DEF ScanInv, ScanHeld, IsRunning
<1>2. ASSUME NEW m \in Message, HandleOnTopic(m) PROVE ScanInv'
  <2>1. m \in Task /\ m \notin Scan
    BY Kinds DEF Task
  <2>2. UNCHANGED <<item, child, status>>
    BY <1>2 DEF HandleOnTopic
  <2>3. QueuedScans' = QueuedScans
    <3>1. CASE UNCHANGED tasksQueue
      BY <3>1 DEF QueuedScans
    <3>2. CASE Put(m)
      BY <1>0, <2>1, <3>2, ScansKept DEF Put
    <3> QED BY <1>2, <3>1, <3>2 DEF HandleOnTopic
  <2> QED BY <1>0, <2>2, <2>3 DEF ScanInv, ScanHeld, IsRunning
<1>3. ASSUME NEW s \in Scan, StartCommissioning(s) PROVE ScanInv'
  <2>1. UNCHANGED <<item, child>> /\ status' = "queued" /\ tasksQueue' = Append(tasksQueue, s)
    BY <1>3 DEF StartCommissioning, Put
  <2>2. ~ScanHeld /\ QueuedScans = {}
    BY <1>0, <1>3 DEF StartCommissioning, ScanInv
  <2>3. s \in Task
    BY DEF Task
  <2>4. /\ Len(tasksQueue') = Len(tasksQueue) + 1
        /\ \A i \in 1 .. Len(tasksQueue) : tasksQueue'[i] = tasksQueue[i]
    BY <1>0, <2>1, <2>3, AppendAt
  <2>5. \A i \in QueuedScans' : i = Len(tasksQueue) + 1
    BY <1>0, <2>2, <2>4 DEF QueuedScans
  <2> QED BY <2>1, <2>2, <2>5 DEF ScanInv, ScanHeld, IsRunning
<1>4. CASE CancelCommissioning
  <2>1. UNCHANGED <<item, child>>
    BY <1>4 DEF CancelCommissioning
  <2>2. CASE UNCHANGED <<tasksQueue, status>>
    BY <1>0, <2>1, <2>2 DEF ScanInv, ScanHeld, IsRunning, QueuedScans
  <2>3. CASE RemoveQueuedScan
    <3>1. PICK k \in QueuedScans :
             tasksQueue' = SubSeq(tasksQueue, 1, k - 1) \o SubSeq(tasksQueue, k + 1, Len(tasksQueue))
      BY <2>3 DEF RemoveQueuedScan
    <3>2. k \in 1 .. Len(tasksQueue)
      BY DEF QueuedScans
    <3>3. /\ Len(tasksQueue') = Len(tasksQueue) - 1
          /\ \A i \in 1 .. Len(tasksQueue) - 1 : i < k => tasksQueue'[i] = tasksQueue[i]
          /\ \A i \in 1 .. Len(tasksQueue) - 1 : ~(i < k) => tasksQueue'[i] = tasksQueue[i + 1]
      BY <1>0, <3>1, <3>2, RemoveAt
    <3>4. ASSUME NEW i \in 1 .. Len(tasksQueue') PROVE tasksQueue'[i] \notin Scan
      <4>1. CASE i < k
        <5>1. i \in 1 .. Len(tasksQueue) /\ i # k /\ tasksQueue'[i] = tasksQueue[i]
          BY <1>0, <3>2, <3>3, <4>1
        <5> QED BY <1>0, <3>1, <5>1 DEF ScanInv, QueuedScans
      <4>2. CASE ~(i < k)
        <5>1. i + 1 \in 1 .. Len(tasksQueue) /\ i + 1 # k /\ tasksQueue'[i] = tasksQueue[i + 1]
          BY <1>0, <3>2, <3>3, <4>2
        <5> QED BY <1>0, <3>1, <5>1 DEF ScanInv, QueuedScans
      <4> QED BY <4>1, <4>2
    <3>5. QueuedScans' = {}
      BY <3>4 DEF QueuedScans
    <3>6. ~ScanHeld
      BY <1>0, <3>1 DEF ScanInv
    <3> QED BY <2>1, <3>5, <3>6 DEF ScanInv, ScanHeld
  <2> QED BY <1>4, <2>2, <2>3 DEF CancelCommissioning
<1>5. CASE TakeItem
  <2>1. UNCHANGED <<child, status>> /\ child = "none"
    BY <1>0, <1>5 DEF TakeItem, LoopInv
  <2>2. /\ item' = tasksQueue[1] /\ 1 \in 1 .. Len(tasksQueue)
        /\ Len(tasksQueue') = Len(tasksQueue) - 1
        /\ \A i \in 1 .. Len(tasksQueue) - 1 : tasksQueue'[i] = tasksQueue[i + 1]
    BY <1>0, <1>5, TailAt DEF TakeItem
  <2>3. \A i \in QueuedScans' : i + 1 \in QueuedScans /\ i \in Nat \ {0}
    BY <1>0, <2>2 DEF QueuedScans
  <2>4. item' \in Scan => 1 \in QueuedScans
    BY <2>2 DEF QueuedScans
  <2>5. \A i, j \in QueuedScans : i = j
    BY <1>0 DEF ScanInv
  <2>6. \A i, j \in QueuedScans' : i = j
    <3> SUFFICES ASSUME NEW i \in QueuedScans', NEW j \in QueuedScans' PROVE i = j
      OBVIOUS
    <3>1. i + 1 = j + 1 /\ i \in Nat /\ j \in Nat
      BY <2>3, <2>5
    <3> QED BY <3>1
  <2>7. ASSUME item' \in Scan PROVE QueuedScans' = {}
    <3> SUFFICES ASSUME NEW i \in QueuedScans' PROVE FALSE
      OBVIOUS
    <3>1. i + 1 = 1 /\ i \in Nat \ {0}
      BY <2>3, <2>4, <2>5, <2>7
    <3> QED BY <3>1
  <2>8. ScanHeld' \/ QueuedScans' # {} => QueuedScans # {}
    BY <2>3, <2>4 DEF ScanHeld
  <2>9. QueuedScans # {} => IsRunning
    BY <1>0 DEF ScanInv
  <2>10. IsRunning' <=> IsRunning
    BY <2>1 DEF IsRunning
  <2> QED BY <2>6, <2>7, <2>8, <2>9, <2>10 DEF ScanInv, ScanHeld
<1>6. CASE GatherControls
  <2>1. UNCHANGED <<child, status>> /\ item \notin Scan /\ child = "none"
    BY <1>0, <1>6, Kinds DEF GatherControls, LoopInv
  <2>2. PICK n \in 0 .. Len(tasksQueue) :
            /\ n < Len(tasksQueue) => item' = tasksQueue[n + 1]
            /\ n = Len(tasksQueue) => item' = NoTask
            /\ n < Len(tasksQueue) => Len(tasksQueue') = Len(tasksQueue) - n - 1
            /\ n = Len(tasksQueue) => Len(tasksQueue') = 0
            /\ \A i \in 1 .. Len(tasksQueue') : tasksQueue'[i] = tasksQueue[n + 1 + i]
    BY <1>6, GatherIs
  <2>3. \A i \in QueuedScans' : n + 1 + i \in QueuedScans /\ i \in Nat \ {0}
    BY <1>0, <2>2 DEF QueuedScans
  <2>4. item' \in Scan => n + 1 \in QueuedScans
    BY <1>0, <2>2, Kinds DEF QueuedScans
  <2>5. \A i, j \in QueuedScans : i = j
    BY <1>0 DEF ScanInv
  <2>6. \A i, j \in QueuedScans' : i = j
    <3> SUFFICES ASSUME NEW i \in QueuedScans', NEW j \in QueuedScans' PROVE i = j
      OBVIOUS
    <3>1. n + 1 + i = n + 1 + j /\ i \in Nat /\ j \in Nat
      BY <2>3, <2>5
    <3> QED BY <3>1
  <2>7. ASSUME item' \in Scan PROVE QueuedScans' = {}
    <3> SUFFICES ASSUME NEW i \in QueuedScans' PROVE FALSE
      OBVIOUS
    <3>1. n + 1 + i = n + 1 /\ i \in Nat \ {0}
      BY <2>3, <2>4, <2>5, <2>7
    <3> QED BY <3>1
  <2>8. ScanHeld' \/ QueuedScans' # {} => QueuedScans # {}
    BY <2>3, <2>4 DEF ScanHeld
  <2>9. QueuedScans # {} => IsRunning
    BY <1>0 DEF ScanInv
  <2>10. IsRunning' <=> IsRunning
    BY <2>1 DEF IsRunning
  <2> QED BY <2>6, <2>7, <2>8, <2>9, <2>10 DEF ScanInv, ScanHeld
<1>7. CASE RefuseItem \/ FinishTask \/ CollectChild \/ LoopCancelled
  <2>1. UNCHANGED <<tasksQueue, status>> /\ item' \notin Scan
    BY <1>7, Kinds DEF RefuseItem, FinishTask, CollectChild, LoopCancelled
  <2>2. QueuedScans' = QueuedScans
    BY <2>1 DEF QueuedScans
  <2> QED BY <1>0, <2>1, <2>2 DEF ScanInv, ScanHeld, IsRunning
<1>8. CASE RunCommissioning
  <2>1. UNCHANGED <<tasksQueue, status, item>> /\ child = "none"
    BY <1>0, <1>8 DEF RunCommissioning, LoopInv
  <2>2. QueuedScans' = QueuedScans
    BY <2>1 DEF QueuedScans
  <2> QED BY <1>0, <2>1, <2>2 DEF ScanInv, ScanHeld, IsRunning
<1>9. CASE ChildNext
  <2>1. UNCHANGED <<tasksQueue, item>> /\ child \notin {"none", "done"}
    BY <1>9 DEF ChildNext, ChildAdvances, ChildCannotStart, ChildReports,
          ChildLeavesScan, ChildEnds, ChildCancelled
  <2>2. ScanHeld /\ QueuedScans = {} /\ IsRunning
    BY <1>0, <2>1 DEF LoopInv, ScanInv, ScanHeld
  <2>3. QueuedScans' = {}
    BY <2>1, <2>2 DEF QueuedScans
  <2>4. child' = "done" \/ status' \in {"queued", "searching", "reading"}
    BY <2>2, <1>9 DEF IsRunning, ChildNext, ChildAdvances, ChildCannotStart, ChildReports,
          ChildLeavesScan, ChildEnds, ChildCancelled
  <2> QED BY <2>3, <2>4 DEF ScanInv, ScanHeld, IsRunning
<1>10. CASE StopDrains
  <2>1. UNCHANGED <<item, child, status>> /\ tasksQueue' = <<>>
    BY <1>10 DEF StopDrains
  <2>2. QueuedScans' = {}
    BY <2>1 DEF QueuedScans
  <2> QED BY <1>0, <2>1, <2>2 DEF ScanInv, ScanHeld, IsRunning
<1>11. ASSUME UNCHANGED <<tasksQueue, item, child, status>> PROVE ScanInv'
  <2>1. QueuedScans' = QueuedScans
    BY <1>11 DEF QueuedScans
  <2> QED BY <1>0, <1>11, <2>1 DEF ScanInv, ScanHeld, IsRunning
<1>12. CASE PollWhenIdle \/ FinishControls \/ RunTask \/ FinishPoll \/ PollRaises \/ LoopCancelsChild
  BY <1>11, <1>12 DEF PollWhenIdle, FinishControls, RunTask, FinishPoll, PollRaises, LoopCancelsChild
<1>13. CASE StartBegins \/ StartFails \/ StartEnds \/ StartQuiescentMode \/ StopQuiescentMode
  BY <1>11, <1>13 DEF StartBegins, StartFails, StartEnds, StartQuiescentMode, StopQuiescentMode
<1>14. CASE \/ StopBegins \/ StopCancelsChild \/ StopCancelsLoop \/ StopTimesOut \/ StopEnds
            \/ \E t \in Request \cup Batch : CallerGivesUp(t)
  BY <1>11, <1>14 DEF StopBegins, StopCancelsChild, StopCancelsLoop, StopTimesOut, StopEnds,
        CallerGivesUp
<1> QED
  BY <1>1, <1>2, <1>3, <1>4, <1>5, <1>6, <1>7, <1>8, <1>9, <1>10, <1>12, <1>13, <1>14
  DEF Next, CallersNext, LoopNext, StopNext

-----------------------------------------------------------------------------
(* The theorems *)

\* A controller that was just created holds nothing.
LEMMA ControllerInitInv == Init => ControllerInv
<1> SUFFICES ASSUME Init PROVE ControllerInv
  OBVIOUS
<1>1. 0 \in 0 .. MaxMessage /\ MaxMessage \in Nat
  BY ControllerAssumption
<1>2. QueueTypes
  BY DEF Init, QueueTypes
<1>3. ValueTypes
  BY <1>1 DEF Init, ValueTypes
<1>4. PlaceTypes /\ FlagTypes
  BY DEF Init, PlaceTypes, FlagTypes
<1>5. LoopInv /\ StopInv
  BY Kinds DEF Init, LoopInv, StopInv
<1>6. QueuedScans = {} /\ ~ScanHeld
  BY Kinds DEF Init, QueuedScans, ScanHeld
<1>7. ScanInv
  BY <1>6 DEF ScanInv
<1>8. MessageInv
  BY Kinds DEF Init, MessageInv
<1>9. OrderInv
  BY DEF Init, OrderInv
<1> QED BY <1>2, <1>3, <1>4, <1>5, <1>7, <1>8, <1>9, TypeParts DEF ControllerInv

\* Every step of callers, loop, child and stop() keeps the invariant.
LEMMA ControllerStepInv == ControllerInv /\ [Next]_vars => ControllerInv'
<1> SUFFICES ASSUME ControllerInv, [Next]_vars PROVE ControllerInv'
  OBVIOUS
<1>1. CASE Next
  <2>1. TypeOK'
    <3>1. QueueTypes' /\ ValueTypes' /\ PlaceTypes' /\ FlagTypes'
      BY <1>1, QueueStep, ValueStep, PlaceStep
    <3> QED BY <3>1, Zenon DEF TypeOK, QueueTypes, ValueTypes, PlaceTypes, FlagTypes
  <2> QED BY <1>1, <2>1, LoopStep, StopInvStep, MessageStep, ScanStep, OrderStep DEF ControllerInv
<1>2. CASE UNCHANGED vars
  <2>1. UNCHANGED <<state, tasksQueue, future, arrived, valueToSet, settled, value, pc, item, controls,
                    quiescent, status, child, childCancel, leaving, stopStep, stopRequested, loopCancel>>
    BY <1>2 DEF vars, controlVars, loopVars, childVars, scanVars, stopVars
  <2>2. TypeOK /\ LoopInv /\ StopInv /\ MessageInv /\ ScanInv /\ OrderInv
    BY DEF ControllerInv
  <2>3. TypeOK'
    <3>1. QueueTypes /\ ValueTypes /\ PlaceTypes /\ FlagTypes
      BY <2>2, TypeParts
    <3>2. QueueTypes' /\ ValueTypes'
      BY <2>1, <3>1 DEF QueueTypes, ValueTypes
    <3>3. PlaceTypes' /\ FlagTypes'
      BY <2>1, <3>1 DEF PlaceTypes, FlagTypes
    <3> QED BY <3>2, <3>3, Zenon DEF TypeOK, QueueTypes, ValueTypes, PlaceTypes, FlagTypes
  <2>4. LoopInv' /\ StopInv'
    BY <2>1, <2>2 DEF LoopInv, StopInv
  <2>5. MessageInv' /\ OrderInv'
    BY <2>1, <2>2 DEF MessageInv, OrderInv
  <2>6. ScanInv'
    BY <2>1, <2>2 DEF ScanInv, QueuedScans, ScanHeld, IsRunning
  <2> QED BY <2>3, <2>4, <2>5, <2>6 DEF ControllerInv
<1> QED BY <1>1, <1>2

\* TypeOK of the controller, for any callers, controls and messages: the queue
\* holds tasks, and loop, child and stop() stand where the code can stand.
THEOREM ControllerTypeOK == Spec => []TypeOK
<1>1. ControllerInv => TypeOK
  BY DEF ControllerInv
<1> QED BY <1>1, ControllerInitInv, ControllerStepInv, PTL DEF Spec

\* _handle_on_topic and the loop together: until stop() drains the queue, a
\* control with a value to set has exactly one task that will pick it up, and
\* a control without one has none.
THEOREM ControllerQueuedOnce == Spec => []QueuedOnce
<1>1. ControllerInv => QueuedOnce
  <2> SUFFICES ASSUME ControllerInv, stopStep # "drained", NEW c \in Control
               PROVE  Cardinality({m \in Waiting \cap Message : ControlOf[m] = c})
                         = IF valueToSet[c] # 0 THEN 1 ELSE 0
    BY DEF QueuedOnce
  <2> DEFINE S == {m \in Waiting \cap Message : ControlOf[m] = c}
  <2>0. MessageInv /\ LoopInv
    BY DEF ControllerInv
  <2>1. \A m : m \in S <=> /\ m \in Message
                           /\ ControlOf[m] = c
                           /\ m = item \/ \E i \in 1 .. Len(tasksQueue) : tasksQueue[i] = m
    BY <2>0, Kinds DEF Waiting, LoopInv
  <2> HIDE DEF S
  <2>2. CASE valueToSet[c] = 0
    <3>1. S = {}
      BY <2>0, <2>1, <2>2 DEF MessageInv
    <3> QED BY <2>2, <3>1, FS_EmptySet DEF S
  <2>3. CASE valueToSet[c] # 0
    <3>1. PICK m \in Message : m \in S
      BY <2>0, <2>1, <2>3 DEF MessageInv
    <3>2. ASSUME NEW k \in S PROVE k = m
      BY <2>0, <2>1, <3>1 DEF MessageInv
    <3>3. S = {m}
      BY <3>1, <3>2
    <3> QED BY <2>3, <3>3, FS_Singleton DEF S
  <2> QED BY <2>2, <2>3
<1> QED BY <1>1, ControllerInitInv, ControllerStepInv, PTL DEF Spec

\* start_commissioning, cancel_commissioning, the loop, the child and stop()
\* together: at most one scan waits or runs, and the status says so.
THEOREM ControllerScanKnown == Spec => []ScanKnown
<1>1. ControllerInv => ScanKnown
  <2> SUFFICES ASSUME ControllerInv PROVE ScanKnown
    OBVIOUS
  <2> DEFINE alive == (Waiting \cap Scan) \cup (IF ChildAlive THEN {item} ELSE {})
  <2>0. ScanInv /\ LoopInv
    BY DEF ControllerInv
  <2>1. \A s \in alive : s \in Scan /\ ((s = item /\ ScanHeld) \/ \E i \in QueuedScans : tasksQueue[i] = s)
    BY <2>0, Kinds DEF Waiting, ChildAlive, LoopInv, ScanHeld, QueuedScans
  <2> HIDE DEF alive
  <2>2. \A s, t \in alive : s = t
    BY <2>0, <2>1 DEF ScanInv
  <2>3. alive # {} => IsRunning
    BY <2>0, <2>1 DEF ScanInv
  <2>4. Cardinality(alive) <= 1
    <3>1. CASE alive = {}
      BY <3>1, FS_EmptySet
    <3>2. CASE alive # {}
      <4>1. PICK s \in alive : alive = {s}
        BY <2>2, <3>2
      <4>2. Cardinality(alive) = 1
        BY <4>1, FS_Singleton, Zenon
      <4> QED BY <4>2
    <3> QED BY <3>1, <3>2
  <2> QED BY <2>3, <2>4 DEF ScanKnown, alive
<1> QED BY <1>1, ControllerInitInv, ControllerStepInv, PTL DEF Spec

\* The gather confirms a value on a control only after the loop handed it to
\* the device, and never after a newer one.
THEOREM ControllerConfirmedInOrder == Spec => ConfirmedInOrder
<1>1. ControllerInv /\ [Next]_vars =>
         [\A c \in Control :
             value'[c] # value[c] => value[c] < value'[c] /\ value'[c] <= settled[c]]_vars
  BY OrderStep
<1> QED BY <1>1, ControllerInitInv, ControllerStepInv, PTL DEF Spec, ConfirmedInOrder
==============================================================================

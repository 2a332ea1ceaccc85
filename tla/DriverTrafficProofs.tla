------------------------- MODULE DriverTrafficProofs -------------------------
(***************************************************************************)
(* The sorted list of BusTrafficCallbacks, fed by the driver, implements   *)
(* TrafficOrder, and while the broker link stays up no command is skipped, *)
(* for any number of slots, commands and calls.                            *)
(***************************************************************************)
EXTENDS DriverTraffic, DaliDriverProofs, WellFoundedInduction

\* The ids in _waiting_for_publish.
Held == Traffic!Range(waitingForPublish)

\* The list is sorted, holds no id twice, and nothing further ahead of the
\* cursor than the gateway queue is long.
ListInv ==
    /\ lastItemSequenceId \in Int /\ lastItemSequenceId >= -1
    /\ waitingForPublish \in Seq(Nat)
    /\ \A i, j \in 1 .. Len(waitingForPublish) :
          i < j => waitingForPublish[i] < waitingForPublish[j]
    /\ \A i \in 1 .. Len(waitingForPublish) :
          waitingForPublish[i] <= lastItemSequenceId + QueueSize
    /\ dispatched \subseteq Nat

\* The driver hands over each id once.
FeedInv ==
    /\ inbox \in Seq(Nat)
    /\ \A i, j \in 1 .. Len(inbox) : inbox[i] = inbox[j] => i = j
    /\ \A i \in 1 .. Len(inbox) :
          inbox[i] \in notified /\ inbox[i] \notin Held /\ inbox[i] \notin dispatched
    /\ Held \cup dispatched \subseteq notified

-----------------------------------------------------------------------------
(* Lists and positions *)

\* A set of positions has a first one.
LEMMA FirstPosition ==
  ASSUME NEW T \in SUBSET Nat, T # {}
  PROVE  \E k \in T : \A i \in T : k <= i
<1>1. PICK k \in T : \A i \in T : ~(<<i, k>> \in OpToRel(<, Nat))
  BY NatLessThanWellFounded, WFMin, Zenon
<1>2. ASSUME NEW i \in T PROVE k <= i
  <2>1. ~(i < k)
    BY <1>1 DEF OpToRel
  <2> QED BY <2>1
<1> QED BY <1>2

\* The members of a list are what stands at its positions.
LEMMA RangeIs ==
  ASSUME NEW S, NEW q \in Seq(S)
  PROVE  Traffic!Range(q) = {q[i] : i \in 1 .. Len(q)}
  BY DEF Traffic!Range

-----------------------------------------------------------------------------
(* notify_command *)

\* The cursor of _drain_contiguous on its way over the first n ids of the list.
CursorRun(w, id, n, run) ==
    /\ run[0] = id
    /\ \A i \in 1 .. n : \/ w[i] <= run[i - 1] /\ run[i] = run[i - 1]
                         \/ w[i] = run[i - 1] + 1 /\ run[i] = w[i]

\* It has dispatched exactly the ids up to m, and popped nothing past it.
DispatchedUpTo(m, w, id, n, run) ==
    /\ m >= id
    /\ \A i \in 1 .. n : w[i] <= m
    /\ \A x \in id + 1 .. m : \E i \in 1 .. n : w[i] = x
    /\ {run[i] : i \in 0 .. n} = id .. m

\* The loop of _drain_contiguous dispatches the ids from id to the cursor.
LEMMA DrainRun ==
  ASSUME NEW w \in Seq(Nat), NEW id \in Nat, NEW n \in 0 .. Len(w),
         NEW run \in [0 .. n -> Nat],
         CursorRun(w, id, n, run)
  PROVE  DispatchedUpTo(run[n], w, id, n, run)
<1> USE DEF CursorRun
<1> DEFINE P(j) == /\ run[j] >= id
                   /\ \A i \in 1 .. j : w[i] <= run[j]
                   /\ \A x \in id + 1 .. run[j] : \E i \in 1 .. j : w[i] = x /\ run[i] = x
                   /\ \A i \in 0 .. j : run[i] \in id .. run[j]
           T == {j \in 0 .. n : ~P(j)}
<1>0. n \in Nat /\ Len(w) \in Nat /\ n <= Len(w) /\ \A i \in 0 .. n : run[i] \in Nat
  OBVIOUS
<1>1. P(0)
  BY <1>0
<1>2. ASSUME NEW j \in 1 .. n, P(j - 1) PROVE P(j)
  <2>0. /\ j \in Nat /\ j - 1 \in 0 .. n /\ j \in 0 .. n
        /\ run[j] \in Nat /\ run[j - 1] \in Nat /\ w[j] \in Nat
    BY <1>0
  <2>1. CASE w[j] <= run[j - 1] /\ run[j] = run[j - 1]
    <3>1. ASSUME NEW i \in 1 .. j PROVE w[i] <= run[j]
      <4>1. i \in 1 .. j - 1 \/ i = j
        BY <2>0
      <4> QED BY <1>2, <2>1, <4>1
    <3>2. ASSUME NEW x \in id + 1 .. run[j] PROVE \E i \in 1 .. j : w[i] = x /\ run[i] = x
      <4>1. PICK i \in 1 .. j - 1 : w[i] = x /\ run[i] = x
        BY <1>2, <2>1
      <4> QED BY <2>0, <4>1
    <3>3. ASSUME NEW i \in 0 .. j PROVE run[i] \in id .. run[j]
      <4>1. i \in 0 .. j - 1 \/ i = j
        BY <2>0
      <4> QED BY <1>2, <2>0, <2>1, <4>1
    <3> QED BY <1>2, <2>1, <3>1, <3>2, <3>3
  <2>2. CASE w[j] = run[j - 1] + 1 /\ run[j] = w[j]
    <3>1. ASSUME NEW i \in 1 .. j PROVE w[i] <= run[j]
      <4>1. CASE i = j
        BY <2>0, <2>2, <4>1
      <4>2. CASE i \in 1 .. j - 1
        <5>1. w[i] <= run[j - 1] /\ w[i] \in Nat
          BY <1>0, <1>2, <4>2
        <5> QED BY <2>0, <2>2, <5>1
      <4> QED BY <2>0, <4>1, <4>2
    <3>2. ASSUME NEW x \in id + 1 .. run[j] PROVE \E i \in 1 .. j : w[i] = x /\ run[i] = x
      <4>1. CASE x = run[j]
        BY <2>0, <2>2, <4>1
      <4>2. CASE x # run[j]
        <5>1. x \in id + 1 .. run[j - 1]
          BY <2>0, <2>2, <4>2
        <5>2. PICK i \in 1 .. j - 1 : w[i] = x /\ run[i] = x
          BY <1>2, <5>1
        <5> QED BY <2>0, <5>2
      <4> QED BY <4>1, <4>2
    <3>3. ASSUME NEW i \in 0 .. j PROVE run[i] \in id .. run[j]
      <4>1. CASE i = j
        BY <1>2, <2>0, <2>2, <4>1
      <4>2. CASE i \in 0 .. j - 1
        <5>1. run[i] \in id .. run[j - 1]
          BY <1>2, <4>2
        <5> QED BY <2>0, <2>2, <5>1
      <4> QED BY <2>0, <4>1, <4>2
    <3>4. run[j] >= id
      BY <1>2, <2>0, <2>2
    <3> QED BY <3>1, <3>2, <3>3, <3>4
  <2> QED BY <2>1, <2>2
<1>3. T = {}
  <2> SUFFICES ASSUME T # {} PROVE FALSE
    OBVIOUS
  <2>1. T \in SUBSET Nat
    OBVIOUS
  <2>2. PICK k \in T : \A i \in T : k <= i
    <3> HIDE DEF T
    <3> QED BY <2>1, FirstPosition
  <2> HIDE DEF P
  <2>3. k \in 0 .. n /\ ~P(k)
    OBVIOUS
  <2>4. k # 0
    BY <1>1, <2>3
  <2>5. k \in 1 .. n /\ k - 1 \in 0 .. n /\ ~(k <= k - 1)
    BY <2>3, <2>4
  <2>6. P(k - 1)
    BY <2>2, <2>5
  <2> QED BY <1>2, <2>3, <2>5, <2>6
<1>4. P(n)
  <2> HIDE DEF P
  <2> QED BY <1>0, <1>3
<1>5. ASSUME NEW x \in id .. run[n] PROVE \E i \in 0 .. n : run[i] = x
  <2>1. CASE x = id
    BY <1>0, <2>1
  <2>2. CASE x # id
    <3>1. x \in id + 1 .. run[n]
      BY <1>0, <2>2
    <3>2. PICK i \in 1 .. n : run[i] = x
      BY <1>4, <3>1
    <3> QED BY <1>0, <3>2
  <2> QED BY <2>1, <2>2
<1>6. {run[i] : i \in 0 .. n} = id .. run[n]
  BY <1>4, <1>5
<1> QED BY <1>4, <1>6 DEF DispatchedUpTo

\* The k smaller ids of a list stand before the place of id, the others behind.
PlaceOf(id, w, k) ==
    /\ \A i \in 1 .. k : w[i] < id
    /\ \A i \in k + 1 .. Len(w) : w[i] > id

\* v is the list w with id put behind its first k members.
Spliced(v, w, id, k) ==
    /\ Len(v) = Len(w) + 1
    /\ \A i \in 1 .. k : v[i] = w[i]
    /\ v[k + 1] = id
    /\ \A i \in k + 1 .. Len(w) : v[i + 1] = w[i]

\* The list v has the members of w, and id.
OneMore(v, w, id) ==
    /\ \A i \in 1 .. Len(v) : v[i] = id \/ \E j \in 1 .. Len(w) : v[i] = w[j]
    /\ \E i \in 1 .. Len(v) : v[i] = id
    /\ \A j \in 1 .. Len(w) : \E i \in 1 .. Len(v) : v[i] = w[j]

\* append and sort() put the id at its place in the sorted list.
LEMMA InsertedAt ==
  ASSUME NEW w \in Seq(Nat), NEW id \in Nat,
         Ascending(w),
         \A i \in 1 .. Len(w) : w[i] # id
  PROVE  \E k \in 0 .. Len(w) :
            /\ PlaceOf(id, w, k)
            /\ Traffic!Inserted(w, id) = SubSeq(w, 1, k) \o <<id>> \o SubSeq(w, k + 1, Len(w))
<1> USE DEF Ascending
<1> DEFINE Place(k) == /\ \A i \in 1 .. k : w[i] <= id
                       /\ k < Len(w) => w[k + 1] > id
           T == {k \in 0 .. Len(w) : k < Len(w) => w[k + 1] > id}
           c == CHOOSE k \in 0 .. Len(w) : Place(k)
<1>0. Len(w) \in Nat /\ \A i \in 1 .. Len(w) : w[i] \in Nat
  OBVIOUS
<1>1. \E k \in 0 .. Len(w) : Place(k)
  <2>1. T \in SUBSET Nat /\ T # {}
    BY <1>0
  <2>2. PICK k \in T : \A i \in T : k <= i
    <3> HIDE DEF T
    <3> QED BY <2>1, FirstPosition
  <2>3. ASSUME NEW i \in 1 .. k PROVE w[i] <= id
    <3>1. i - 1 \in 0 .. Len(w) /\ i - 1 < Len(w) /\ ~(k <= i - 1) /\ (i - 1) + 1 = i /\ i \in 1 .. Len(w)
      BY <1>0, <2>2
    <3>2. i - 1 \notin T
      BY <2>2, <3>1
    <3> QED BY <1>0, <3>1, <3>2
  <2> QED BY <2>2, <2>3
<1>2. c \in 0 .. Len(w) /\ Place(c)
  <2> HIDE DEF Place
  <2> QED BY <1>1
<1>3. Traffic!Inserted(w, id) = SubSeq(w, 1, c) \o <<id>> \o SubSeq(w, c + 1, Len(w))
  BY DEF Traffic!Inserted
<1> HIDE DEF c
<1>4. ASSUME NEW i \in 1 .. c PROVE w[i] < id
  BY <1>0, <1>2
<1>5. ASSUME NEW i \in c + 1 .. Len(w) PROVE w[i] > id
  <2>1. c + 1 \in 1 .. Len(w) /\ c < Len(w) /\ i \in 1 .. Len(w)
    BY <1>0, <1>2
  <2>2. w[c + 1] > id /\ w[c + 1] \in Nat /\ w[i] \in Nat
    BY <1>0, <1>2, <2>1
  <2>3. i = c + 1 \/ w[c + 1] < w[i]
    BY <1>0, <1>2, <2>1
  <2> QED BY <2>2, <2>3
<1> QED BY <1>2, <1>3, <1>4, <1>5 DEF PlaceOf

\* Where the old members and the new one stand in the list.
LEMMA SplicedList ==
  ASSUME NEW w \in Seq(Nat), NEW id \in Nat, NEW k \in 0 .. Len(w),
         NEW v, v = SubSeq(w, 1, k) \o <<id>> \o SubSeq(w, k + 1, Len(w))
  PROVE  v \in Seq(Nat) /\ Spliced(v, w, id, k)
<1> DEFINE a == SubSeq(w, 1, k)
           b == SubSeq(w, k + 1, Len(w))
           e == <<id>>
<1>0. Len(w) \in Nat /\ k \in Nat /\ k <= Len(w) /\ \A i \in 1 .. Len(w) : w[i] \in Nat
  OBVIOUS
<1>1. a \in Seq(Nat) /\ Len(a) = k /\ \A i \in 1 .. k : a[i] = w[i]
  <2>1. \A i \in 1 .. k : w[i] \in Nat
    BY <1>0
  <2>2. a \in Seq(Nat) /\ Len(a) = IF 1 <= k THEN k - 1 + 1 ELSE 0
    BY <1>0, <2>1, SubSeqProperties
  <2>3. \A i \in 1 .. k : a[i] = w[1 + i - 1]
    BY <1>0, <2>1, SubSeqProperties
  <2> QED BY <1>0, <2>2, <2>3
<1>2. b \in Seq(Nat) /\ Len(b) = Len(w) - k /\ \A i \in 1 .. Len(w) - k : b[i] = w[k + i]
  <2>1. \A i \in k + 1 .. Len(w) : w[i] \in Nat
    BY <1>0
  <2>2. b \in Seq(Nat) /\ Len(b) = IF k + 1 <= Len(w) THEN Len(w) - (k + 1) + 1 ELSE 0
    BY <1>0, <2>1, SubSeqProperties
  <2>3. \A i \in 1 .. Len(w) - (k + 1) + 1 : b[i] = w[k + 1 + i - 1]
    BY <1>0, <2>1, SubSeqProperties
  <2> QED BY <1>0, <2>2, <2>3
<1>3. e \in Seq(Nat) /\ Len(e) = 1 /\ e[1] = id
  OBVIOUS
<1>4. v = a \o e \o b
  OBVIOUS
<1> HIDE DEF a, b, e
<1>5. /\ a \o e \in Seq(Nat) /\ Len(a \o e) = k + 1
      /\ \A i \in 1 .. k : (a \o e)[i] = w[i]
      /\ (a \o e)[k + 1] = id
  <2>1. /\ a \o e \in Seq(Nat) /\ Len(a \o e) = Len(a) + Len(e)
        /\ \A i \in 1 .. Len(a) : (a \o e)[i] = a[i]
        /\ \A i \in 1 .. Len(e) : (a \o e)[Len(a) + i] = e[i]
    <3>1. a \in Seq(Nat) /\ e \in Seq(Nat)
      BY <1>1, <1>3
    <3> QED BY ONLY <3>1, ConcatAt, SMT
  <2> QED BY <1>0, <1>1, <1>3, <2>1
<1>6. /\ v \in Seq(Nat) /\ Len(v) = Len(w) + 1
      /\ \A i \in 1 .. k : v[i] = w[i]
      /\ v[k + 1] = id
      /\ \A i \in k + 1 .. Len(w) : v[i + 1] = w[i]
  <2> DEFINE ae == a \o e
  <2>0. ae \in Seq(Nat) /\ Len(ae) = k + 1
    BY <1>5
  <2> HIDE DEF ae
  <2>1. /\ ae \o b \in Seq(Nat) /\ Len(ae \o b) = Len(ae) + Len(b)
        /\ \A i \in 1 .. Len(ae) : (ae \o b)[i] = ae[i]
        /\ \A i \in 1 .. Len(b) : (ae \o b)[Len(ae) + i] = b[i]
    <3>1. ae \in Seq(Nat) /\ b \in Seq(Nat)
      BY <1>2, <2>0
    <3> QED BY ONLY <3>1, ConcatAt, SMT
  <2>2. v = ae \o b /\ (\A i \in 1 .. k : ae[i] = w[i]) /\ ae[k + 1] = id
    BY <1>4, <1>5 DEF ae
  <2>3. ASSUME NEW i \in k + 1 .. Len(w) PROVE v[i + 1] = w[i]
    <3>1. i - k \in 1 .. Len(b) /\ Len(ae) + (i - k) = i + 1 /\ k + (i - k) = i /\ i - k \in 1 .. Len(w) - k
      BY <1>0, <1>2, <2>0
    <3>2. (ae \o b)[Len(ae) + (i - k)] = b[i - k] /\ b[i - k] = w[k + (i - k)]
      BY <1>2, <2>1, <3>1
    <3> QED BY <2>2, <3>1, <3>2
  <2>4. v \in Seq(Nat) /\ Len(v) = Len(w) + 1
    <3>1. ae \o b \in Seq(Nat) /\ Len(ae \o b) = Len(w) + 1
      BY <1>0, <1>2, <2>0, <2>1
    <3> QED BY <2>2, <3>1, Zenon
  <2>5. ASSUME NEW i \in 1 .. k + 1 PROVE v[i] = ae[i]
    BY <1>0, <2>0, <2>1, <2>2
  <2>6. (\A i \in 1 .. k : i \in 1 .. k + 1) /\ k + 1 \in 1 .. k + 1
    BY <1>0
  <2>7. (\A i \in 1 .. k : v[i] = w[i]) /\ v[k + 1] = id
    BY <2>2, <2>5, <2>6
  <2> QED BY <2>3, <2>4, <2>7
<1> QED BY <1>6 DEF Spliced

\* The list with the id at its place is sorted and has one member more.
LEMMA InsertedList ==
  ASSUME NEW w \in Seq(Nat), NEW id \in Nat, NEW k \in 0 .. Len(w),
         Ascending(w), PlaceOf(id, w, k), NEW v \in Seq(Nat), Spliced(v, w, id, k)
  PROVE  Ascending(v) /\ OneMore(v, w, id)
<1> USE DEF Ascending, PlaceOf, Spliced
<1>0. /\ Len(w) \in Nat /\ k \in Nat /\ k <= Len(w) /\ Len(v) = Len(w) + 1
      /\ \A i \in 1 .. Len(w) : w[i] \in Nat
  OBVIOUS
<1>7. ASSUME NEW i \in 1 .. Len(v)
      PROVE  \/ i \in 1 .. k /\ v[i] = w[i]
             \/ i = k + 1 /\ v[i] = id
             \/ i - 1 \in k + 1 .. Len(w) /\ v[i] = w[i - 1]
  <2>1. i \in 1 .. k \/ i = k + 1 \/ i - 1 \in k + 1 .. Len(w)
    BY <1>0
  <2>2. CASE i - 1 \in k + 1 .. Len(w)
    <3>1. PICK x \in k + 1 .. Len(w) : x = i - 1
      BY <2>2
    <3>2. v[x + 1] = w[x]
      BY Zenon
    <3>3. x + 1 = i
      BY <1>0, <3>1
    <3> QED BY <2>2, <3>1, <3>2, <3>3
  <2> QED BY <1>0, <2>1, <2>2
<1>low. \A n \in 1 .. k : n \in 1 .. Len(w) /\ w[n] \in Nat /\ w[n] < id
  <2>1. \A n \in 1 .. k : n \in 1 .. Len(w)
    BY <1>0
  <2>2. \A n \in 1 .. k : w[n] < id
    BY Zenon
  <2> QED BY <1>0, <2>1, <2>2, Zenon
<1>high. \A n \in k + 1 .. Len(w) : n \in 1 .. Len(w) /\ w[n] \in Nat /\ w[n] > id
  <2>1. \A n \in k + 1 .. Len(w) : n \in 1 .. Len(w)
    BY <1>0
  <2>2. \A n \in k + 1 .. Len(w) : w[n] > id
    BY Zenon
  <2> QED BY <1>0, <2>1, <2>2, Zenon
<1>up. \A m, n \in 1 .. Len(w) : m < n => w[m] < w[n]
  BY Zenon
<1>8. ASSUME NEW i \in 1 .. Len(v), NEW j \in 1 .. Len(v), i < j PROVE v[i] < v[j]
  <2> USE <1>low, <1>high
  <2> HIDE DEF Ascending, PlaceOf, Spliced
  <2>0. \/ j \in 1 .. k /\ v[j] = w[j]
        \/ j = k + 1 /\ v[j] = id
        \/ j - 1 \in k + 1 .. Len(w) /\ v[j] = w[j - 1]
    BY <1>7
  <2>1. CASE i \in 1 .. k /\ v[i] = w[i]
    <3>1. i \in 1 .. Len(w) /\ w[i] \in Nat /\ w[i] < id
      BY <2>1
    <3>2. CASE j - 1 \in k + 1 .. Len(w) /\ v[j] = w[j - 1]
      <4>1. v[j] > id /\ v[j] \in Nat
        BY <3>2, Zenon
      <4>2. v[i] < id /\ v[i] \in Nat
        BY <2>1, <3>1, Zenon
      <4> HIDE <1>low, <1>high
      <4> QED BY <4>1, <4>2, SMT
    <3>3. CASE j \in 1 .. k /\ v[j] = w[j]
      <4>1. w[i] < w[j]
        BY <1>up, <1>8, <2>1, <3>3
      <4> QED BY <2>1, <3>3, <4>1
    <3> QED BY <2>0, <2>1, <3>1, <3>2, <3>3
  <2>2. CASE i = k + 1 /\ v[i] = id
    <3>1. j - 1 \in k + 1 .. Len(w) /\ v[j] = w[j - 1]
      BY <1>0, <1>8, <2>0, <2>2
    <3>2. w[j - 1] > id
      BY <3>1
    <3> QED BY <1>0, <2>2, <3>1, <3>2
  <2>3. CASE i - 1 \in k + 1 .. Len(w) /\ v[i] = w[i - 1]
    <3>1. j - 1 \in k + 1 .. Len(w) /\ v[j] = w[j - 1] /\ i - 1 < j - 1
      BY <1>0, <1>7, <1>8, <2>3
    <3>2. i - 1 \in 1 .. Len(w) /\ j - 1 \in 1 .. Len(w)
      BY <2>3, <3>1
    <3>3. w[i - 1] < w[j - 1]
      BY <1>up, <3>1, <3>2
    <3> QED BY <2>3, <3>1, <3>3
  <2> QED BY <1>7, <2>1, <2>2, <2>3
<1>9. ASSUME NEW j \in 1 .. Len(w) PROVE \E i \in 1 .. Len(v) : v[i] = w[j]
  <2>1. CASE j <= k
    BY <1>0, <2>1
  <2>2. CASE j > k
    <3>1. j + 1 \in 1 .. Len(v) /\ v[j + 1] = w[j]
      BY <1>0, <2>2
    <3> QED BY <3>1
  <2> QED BY <1>0, <2>1, <2>2
<1>10. \E i \in 1 .. Len(v) : v[i] = id
  <2>1. k + 1 \in 1 .. Len(v)
    BY <1>0
  <2> QED BY <2>1
<1>11. ASSUME NEW i \in 1 .. Len(v) PROVE v[i] = id \/ \E j \in 1 .. Len(w) : v[i] = w[j]
  <2>2. CASE i \in 1 .. k /\ v[i] = w[i]
    <3>1. i \in 1 .. Len(w)
      BY <1>0, <2>2
    <3> QED BY <2>2, <3>1
  <2>3. CASE i - 1 \in k + 1 .. Len(w) /\ v[i] = w[i - 1]
    <3>1. i - 1 \in 1 .. Len(w)
      BY <1>0, <2>3
    <3> QED BY <2>3, <3>1
  <2> QED BY <1>7, <2>2, <2>3
<1> QED BY <1>8, <1>9, <1>10, <1>11 DEF OneMore


\* The id is the one expected: the popped head of the list is the run of ids
\* that directly follow it.
LEMMA NextSimulates ==
  ASSUME ListInv, NEW id \in Nat, id \notin Held, Traffic!NotifyNext(id)
  PROVE  /\ ListInv' /\ Traffic!Order!HearNext(id)
         /\ id \in dispatched' /\ dispatched \subseteq dispatched'
         /\ Held' \cup dispatched' \subseteq Held \cup dispatched \cup {id}
<1> DEFINE w == waitingForPublish
<1>0. /\ w \in Seq(Nat) /\ Len(w) \in Nat /\ \A i \in 1 .. Len(w) : w[i] \in Nat
      /\ \A i, j \in 1 .. Len(w) : i < j => w[i] < w[j]
      /\ lastItemSequenceId \in Int /\ id = lastItemSequenceId + 1
      /\ \A i \in 1 .. Len(w) : w[i] <= lastItemSequenceId + QueueSize
      /\ QueueSize \in Nat /\ QueueSize > 0
      /\ dispatched \subseteq Nat
  BY QueueSizeType DEF ListInv, Traffic!NotifyNext
<1>r. Held = {w[i] : i \in 1 .. Len(w)}
  BY <1>0, RangeIs DEF Held
<1>w. PICK n \in 0 .. Len(w) :
         \E run \in [0 .. n -> {id} \cup Held] :
         /\ run[0] = id
         /\ \A i \in 1 .. n : \/ w[i] <= run[i - 1] /\ run[i] = run[i - 1]
                              \/ w[i] = run[i - 1] + 1 /\ run[i] = w[i]
         /\ n < Len(w) => w[n + 1] > run[n] + 1
         /\ lastItemSequenceId' = run[n]
         /\ waitingForPublish' = SubSeq(w, n + 1, Len(w))
         /\ dispatched' = dispatched \cup {run[i] : i \in 0 .. n}
  BY DEF Traffic!NotifyNext, Traffic!DrainContiguous, Held
<1>1. PICK run \in [0 .. n -> {id} \cup Held] :
         /\ run[0] = id
         /\ \A i \in 1 .. n : \/ w[i] <= run[i - 1] /\ run[i] = run[i - 1]
                              \/ w[i] = run[i - 1] + 1 /\ run[i] = w[i]
         /\ n < Len(w) => w[n + 1] > run[n] + 1
         /\ lastItemSequenceId' = run[n]
         /\ waitingForPublish' = SubSeq(w, n + 1, Len(w))
         /\ dispatched' = dispatched \cup {run[i] : i \in 0 .. n}
  BY <1>w
<1>2. run \in [0 .. n -> Nat]
  BY <1>0, <1>r
<1> HIDE DEF w
<1> DEFINE m == run[n]
<1>3. /\ m >= id
      /\ \A i \in 1 .. n : w[i] <= m
      /\ \A x \in id + 1 .. m : \E i \in 1 .. n : w[i] = x
      /\ {run[i] : i \in 0 .. n} = id .. m
  <2>1. w \in Seq(Nat) /\ id \in Nat /\ n \in 0 .. Len(w) /\ run \in [0 .. n -> Nat]
    BY <1>0, <1>2
  <2>2. CursorRun(w, id, n, run)
    BY <1>1 DEF CursorRun
  <2>3. DispatchedUpTo(run[n], w, id, n, run)
    BY ONLY <2>1, <2>2, DrainRun, SMT
  <2> QED BY <2>3 DEF m, DispatchedUpTo
<1>4. m \in Nat /\ n \in Nat /\ n <= Len(w)
  BY <1>0, <1>2
<1>5. /\ lastItemSequenceId' = m
      /\ dispatched' = dispatched \cup id .. m
  BY <1>1, <1>3
<1>6. ASSUME NEW i \in n + 1 .. Len(w) PROVE w[i] > m + 1
  <2>1. n + 1 \in 1 .. Len(w) /\ i \in 1 .. Len(w) /\ n < Len(w)
    BY <1>0, <1>4
  <2>2. w[n + 1] > m + 1 /\ w[n + 1] \in Nat /\ w[i] \in Nat
    BY <1>0, <1>1, <2>1
  <2>3. i = n + 1 \/ w[n + 1] < w[i]
    BY <1>0, <1>4, <2>1
  <2> QED BY <1>4, <2>2, <2>3
<1> DEFINE v == SubSeq(w, n + 1, Len(w))
<1>7. /\ v \in Seq(Nat) /\ Len(v) = Len(w) - n
      /\ \A i \in 1 .. Len(w) - n : v[i] = w[n + i]
  <2>1. \A i \in n + 1 .. Len(w) : w[i] \in Nat
    BY <1>0, <1>4
  <2>2. v \in Seq(Nat) /\ Len(v) = IF n + 1 <= Len(w) THEN Len(w) - (n + 1) + 1 ELSE 0
    BY <1>0, <1>4, <2>1, SubSeqProperties
  <2>3. \A i \in 1 .. Len(w) - (n + 1) + 1 : v[i] = w[n + 1 + i - 1]
    BY <1>0, <1>4, <2>1, SubSeqProperties
  <2> QED BY <1>0, <1>4, <2>2, <2>3
<1>8. waitingForPublish' = v
  BY <1>1
<1> HIDE DEF m, v
<1>9. Held' = {v[i] : i \in 1 .. Len(v)}
  <2>1. Held' = Traffic!Range(v)
    BY <1>8 DEF Held, Traffic!Range
  <2> QED BY <1>7, <2>1, RangeIs
<1>10. Held' = {h \in Held : h > m}
  <2>1. ASSUME NEW h \in Held' PROVE h \in Held /\ h > m
    <3>1. PICK i \in 1 .. Len(v) : h = v[i]
      BY <1>9
    <3>2. n + i \in n + 1 .. Len(w) /\ n + i \in 1 .. Len(w) /\ i \in 1 .. Len(w) - n
      BY <1>0, <1>4, <1>7
    <3>3. h = w[n + i]
      BY <1>7, <3>1, <3>2
    <3>4. w[n + i] > m + 1 /\ w[n + i] \in Nat
      BY <1>0, <1>6, <3>2
    <3> QED BY <1>4, <1>r, <3>2, <3>3, <3>4
  <2>2. ASSUME NEW h \in Held, h > m PROVE h \in Held'
    <3>1. PICK i \in 1 .. Len(w) : h = w[i]
      BY <1>r
    <3>2. ~(i \in 1 .. n)
      BY <1>0, <1>3, <1>4, <2>2, <3>1
    <3>3. i - n \in 1 .. Len(w) - n /\ n + (i - n) = i
      BY <1>0, <1>4, <3>2
    <3>4. v[i - n] = w[n + (i - n)]
      BY <1>7, <3>3
    <3>5. i - n \in 1 .. Len(v) /\ v[i - n] = h
      BY <1>7, <3>1, <3>3, <3>4
    <3> QED BY <1>9, <3>5
  <2> QED BY <2>1, <2>2
<1>11. m + 1 \notin Held
  <2> SUFFICES ASSUME m + 1 \in Held PROVE FALSE
    OBVIOUS
  <2>1. PICK i \in 1 .. Len(w) : w[i] = m + 1
    BY <1>r
  <2>2. i \in 1 .. n \/ i \in n + 1 .. Len(w)
    BY <1>0, <1>4
  <2> QED BY <1>3, <1>4, <1>6, <2>1, <2>2
<1>12. id + 1 .. m \subseteq Held
  <2> SUFFICES ASSUME NEW x \in id + 1 .. m PROVE x \in Held
    OBVIOUS
  <2>1. PICK i \in 1 .. n : w[i] = x
    BY <1>3
  <2>2. i \in 1 .. Len(w)
    BY <1>0, <1>4
  <2> QED BY <1>r, <2>1, <2>2
<1>13. m \in id .. id + QueueSize
  <2>1. CASE m = id
    BY <1>0, <1>4, <2>1
  <2>2. CASE m # id
    <3>1. m \in id + 1 .. m
      BY <1>3, <1>4, <2>2
    <3>2. PICK i \in 1 .. Len(w) : w[i] = m
      BY <1>12, <1>r, <3>1
    <3> QED BY <1>0, <1>3, <1>4, <3>2
  <2> QED BY <2>1, <2>2
<1>14. Traffic!Order!HearNext(id)
  BY <1>0, <1>5, <1>10, <1>11, <1>12, <1>13 DEF Traffic!Order!HearNext, Held
<1>15. ListInv'
  <2>1. ASSUME NEW i \in 1 .. Len(v), NEW j \in 1 .. Len(v), i < j PROVE v[i] < v[j]
    <3>1. n + i \in 1 .. Len(w) /\ n + j \in 1 .. Len(w) /\ n + i < n + j
      BY <1>0, <1>4, <1>7, <2>1
    <3>2. v[i] = w[n + i] /\ v[j] = w[n + j]
      BY <1>7
    <3> QED BY <1>0, <3>1, <3>2
  <2>2. ASSUME NEW i \in 1 .. Len(v) PROVE v[i] <= m + QueueSize
    <3>1. n + i \in 1 .. Len(w) /\ v[i] = w[n + i]
      BY <1>0, <1>4, <1>7
    <3>2. w[n + i] <= lastItemSequenceId + QueueSize /\ w[n + i] \in Nat
      BY <1>0, <3>1
    <3> QED BY <1>0, <1>3, <1>4, <3>1, <3>2
  <2>3. dispatched' \subseteq Nat
    BY <1>0, <1>4, <1>5
  <2>4. lastItemSequenceId' \in Int /\ lastItemSequenceId' >= -1 /\ lastItemSequenceId' = m
    BY <1>4, <1>5
  <2>5. v \in Seq(Nat) /\ waitingForPublish' = v
    BY <1>7, <1>8
  <2> QED BY <2>1, <2>2, <2>3, <2>4, <2>5, Zenon DEF ListInv
<1>16. id \in dispatched'
  BY <1>0, <1>3, <1>4, <1>5
<1>17. dispatched' \subseteq Held \cup dispatched \cup {id}
  <2> SUFFICES ASSUME NEW x \in id .. m PROVE x \in Held \cup {id}
    BY <1>5
  <2>1. x = id \/ x \in id + 1 .. m
    BY <1>4
  <2> QED BY <1>12, <2>1
<1> QED BY <1>5, <1>10, <1>14, <1>15, <1>16, <1>17

\* The gap is too long to wait out: the list is given up in its order.
LEMMA FlushSimulates ==
  ASSUME ListInv, NEW id \in Nat, Traffic!NotifyFlush(id)
  PROVE  /\ ListInv' /\ Traffic!Order!HearAll(id)
         /\ id \in dispatched' /\ dispatched \subseteq dispatched'
         /\ Held' \cup dispatched' \subseteq Held \cup dispatched \cup {id}
<1>0. Held \subseteq Nat /\ dispatched \subseteq Nat
  BY RangeIs DEF ListInv, Held
<1>1. Held' = {} /\ waitingForPublish' = <<>>
  BY DEF Held, Traffic!NotifyFlush, Traffic!Range
<1>2. dispatched' = dispatched \cup {h \in Held : h > lastItemSequenceId} \cup {id}
  BY DEF Held, Traffic!NotifyFlush
<1>3. Traffic!Order!HearAll(id)
  BY <1>1, <1>2 DEF Held, Traffic!NotifyFlush, Traffic!Order!HearAll
<1>4. dispatched' \subseteq Nat
  BY <1>0, <1>2
<1>5. lastItemSequenceId' = id
  BY DEF Traffic!NotifyFlush
<1>6. Len(<<>>) = 0 /\ <<>> \in Seq(Nat)
  OBVIOUS
<1>7. ListInv'
  BY <1>1, <1>4, <1>5, <1>6 DEF ListInv
<1> QED BY <1>1, <1>2, <1>3, <1>7

\* The id waits for its predecessors.
LEMMA WaitSimulates ==
  ASSUME ListInv, NEW id \in Nat, id \notin Held, Traffic!NotifyWait(id)
  PROVE  /\ ListInv' /\ Traffic!Order!Hold(id)
         /\ id \in Held' /\ dispatched' = dispatched
         /\ Held' \cup dispatched' \subseteq Held \cup dispatched \cup {id}
<1> DEFINE w == waitingForPublish
           v == Traffic!Inserted(w, id)
<1>0. /\ w \in Seq(Nat) /\ \A i, j \in 1 .. Len(w) : i < j => w[i] < w[j]
      /\ \A i \in 1 .. Len(w) : w[i] <= lastItemSequenceId + QueueSize
      /\ lastItemSequenceId \in Int /\ lastItemSequenceId >= -1
      /\ dispatched \subseteq Nat
  BY DEF ListInv
<1>1. /\ waitingForPublish' = v
      /\ lastItemSequenceId' = lastItemSequenceId /\ dispatched' = dispatched
      /\ id # lastItemSequenceId + 1 /\ id <= lastItemSequenceId + QueueSize
  BY DEF Traffic!NotifyWait
<1>2. Held = {w[i] : i \in 1 .. Len(w)}
  BY <1>0, RangeIs DEF Held
<1> HIDE DEF w
<1>3. PICK k \in 0 .. Len(w) :
         PlaceOf(id, w, k) /\ v = SubSeq(w, 1, k) \o <<id>> \o SubSeq(w, k + 1, Len(w))
  <2>1. Ascending(w) /\ \A i \in 1 .. Len(w) : w[i] # id
    BY <1>0, <1>2 DEF Ascending
  <2> QED BY <1>0, <2>1, InsertedAt
<1> HIDE DEF v
<1>4. v \in Seq(Nat) /\ Spliced(v, w, id, k)
  BY ONLY <1>0, <1>3, SplicedList, Zenon
<1>5. Ascending(v) /\ OneMore(v, w, id)
  <2>1. Ascending(w)
    BY <1>0 DEF Ascending
  <2> QED BY ONLY <1>0, <1>3, <1>4, <2>1, InsertedList, Zenon
<1>6. Held' = {v[i] : i \in 1 .. Len(v)}
  <2>1. Held' = Traffic!Range(v)
    BY <1>1 DEF Held, Traffic!Range
  <2> QED BY <1>4, <2>1, RangeIs
<1>7. Held' = Held \cup {id}
  <2>1. ASSUME NEW h \in Held' PROVE h \in Held \cup {id}
    <3>1. PICK i \in 1 .. Len(v) : h = v[i]
      BY <1>6, Zenon
    <3>2. h = id \/ \E j \in 1 .. Len(w) : h = w[j]
      BY <1>5, <3>1, Zenon DEF OneMore
    <3> QED BY <1>2, <3>2
  <2>2. ASSUME NEW h \in Held PROVE h \in Held'
    <3>1. PICK j \in 1 .. Len(w) : h = w[j]
      BY <1>2, Zenon
    <3>2. PICK i \in 1 .. Len(v) : v[i] = w[j]
      BY <1>5, Zenon DEF OneMore
    <3> QED BY <1>6, <3>1, <3>2
  <2>3. id \in Held'
    BY <1>5, <1>6 DEF OneMore
  <2> QED BY <2>1, <2>2, <2>3
<1>8. Traffic!Order!Hold(id)
  BY <1>1, <1>7 DEF Held, Traffic!Order!Hold
<1>9. \A i \in 1 .. Len(v) : v[i] <= lastItemSequenceId + QueueSize
  BY <1>0, <1>1, <1>5 DEF OneMore
<1>10. ListInv'
  BY <1>0, <1>1, <1>4, <1>5, <1>9, Zenon DEF ListInv, Ascending
<1> QED BY <1>1, <1>7, <1>8, <1>10

\* notify_command does what TrafficOrder allows, and loses no id it was given.
LEMMA NotifySimulates ==
  ASSUME ListInv, NEW id \in Nat, id \notin Held, id \notin dispatched,
         Traffic!notify_command(id)
  PROVE  /\ ListInv' /\ Traffic!Order!TrafficNext
         /\ Held' \cup dispatched' \subseteq Held \cup dispatched \cup {id}
<1>1. /\ ListInv' /\ Traffic!Order!NotifyCommand(id)
      /\ id \in dispatched' \cup Held'
      /\ Held' \cup dispatched' \subseteq Held \cup dispatched \cup {id}
  <2>1. CASE Traffic!NotifyNext(id)
    BY <2>1, NextSimulates DEF Traffic!Order!NotifyCommand
  <2>2. CASE Traffic!NotifyFlush(id)
    BY <2>2, FlushSimulates DEF Traffic!Order!NotifyCommand
  <2>3. CASE Traffic!NotifyWait(id)
    BY <2>3, WaitSimulates DEF Traffic!Order!NotifyCommand
  <2> QED BY <2>1, <2>2, <2>3 DEF Traffic!notify_command
<1>2. Traffic!Order!Fresh(id)
  BY DEF Traffic!Order!Fresh, Held
<1>3. Traffic!Order!TrafficNext
  BY <1>1, <1>2 DEF Traffic!Order!TrafficNext, Held
<1> QED BY <1>1, <1>3

-----------------------------------------------------------------------------
(* The ids the driver hands over *)

\* A step of the driver notifies ids of waiters it resolves and fresh ones.
LEMMA NotifiedGrows ==
  ASSUME TypeOK, TypeOK', Next
  PROVE  /\ notified \subseteq notified'
         /\ notified' \subseteq notified \cup PendingIds \cup itemIndex .. itemIndex' - 1
<1>0. itemIndex \in Nat
  BY DEF TypeOK
<1>1. ASSUME NEW s \in Slot, TimeoutCallback(s)
      PROVE  notified \subseteq notified' /\ notified' \subseteq notified \cup PendingIds
  BY <1>1 DEF TimeoutCallback, PendingIds, PendingSlots
<1>2. ASSUME NEW k \in Call, Caller(k) \/ CancelCall(k)
      PROVE  notified \subseteq notified' /\ notified' \subseteq notified \cup itemIndex .. itemIndex' - 1
  <2>1. ASSUME NEW S, IsFiniteSet(S), Refuse(S)
        PROVE  notified \subseteq notified' /\ notified' \subseteq notified \cup itemIndex .. itemIndex' - 1
    <3>1. Cardinality(S) \in Nat
      BY <2>1, FS_CardinalityType
    <3>2. itemIndex' - 1 = itemIndex + Cardinality(S) - 1
      BY <1>0, <2>1, <3>1 DEF Refuse
    <3> QED BY <2>1, <3>2 DEF Refuse
  <2>2. CASE CallUnavailable(k)
    <3>1. IsFiniteSet(Rng(CmdsOf[k]))
      <4>1. CmdsOf[k] \in Seq(Cmd)
        BY DriverAssumption
      <4> QED BY <4>1, RngFinite, Zenon
    <3> QED BY <2>1, <2>2, <3>1 DEF CallUnavailable
  <2>3. CASE SequenceRefused(k)
    <3>1. IsFiniteSet({CurrentCmd(k)})
      BY FS_Singleton
    <3> QED BY <2>1, <2>3, <3>1 DEF SequenceRefused
  <2> QED
    BY <1>2, <2>2, <2>3
       DEF Caller, CancelCall, CallStart, AcquireLock, SequenceBlocks, Put, Gathered, idVars
<1>3. CASE Sender
  <2>0. ASSUME NEW drain \in BOOLEAN, FailBatch(drain)
        PROVE  /\ notified \subseteq notified'
               /\ notified' \subseteq notified \cup PendingIds \cup itemIndex .. itemIndex' - 1
    <3> DEFINE failed == {c \in Rng(batch) : future[c] = "pending"}
                            \ (IF drain THEN PendingWaiters ELSE {})
               count == Cardinality(failed)
    <3>1. /\ notified' = notified \cup (IF drain THEN PendingIds ELSE {})
                                  \cup itemIndex .. itemIndex + count - 1
          /\ itemIndex' = itemIndex + count
      BY <2>0 DEF FailBatch
    <3>2. IsFiniteSet(failed)
      <4>1. IsFiniteSet(Rng(batch)) /\ failed \in SUBSET Rng(batch)
        BY RngFinite DEF TypeOK
      <4> QED BY <4>1, FS_Subset
    <3>3. count \in Nat
      BY <3>2, FS_CardinalityType
    <3> HIDE DEF count
    <3>4. itemIndex' - 1 = itemIndex + count - 1
      BY <1>0, <3>1, <3>3
    <3> QED BY <3>1, <3>4
  <2>1. CASE SendUnavailable
    BY <2>0, <2>1 DEF SendUnavailable, TypeOK
  <2>2. CASE PublishFailed
    BY <2>0, <2>2 DEF PublishFailed
  <2>3. CASE SendReset
    BY <2>3 DEF SendReset, DrainPending, idVars
  <2> QED
    BY <1>3, <2>1, <2>2, <2>3 DEF Sender, SenderTop, SenderGet, SenderGetTimeout, SendWrite,
              ResetPublished, WritePublished, SlotFree, Register, idVars
<1>4. CASE \E s \in Slot : Timeout(s) \/ OrphanTimeout(s)
  BY <1>1, <1>4 DEF Timeout, OrphanTimeout
<1>5. CASE Environment
  <2>1. CASE Reply
    <3>1. Head(rpc).slot \in Slot
      <4>1. rpc \in Seq([slot : Slot, cmd : Cmd]) /\ rpc # <<>>
        BY <2>1 DEF TypeOK, Reply
      <4>2. Head(rpc) \in [slot : Slot, cmd : Cmd]
        BY <4>1, RngTail, Zenon
      <4> QED BY <4>2
    <3> QED BY <2>1, <3>1 DEF Reply, PendingIds, PendingSlots
  <2> QED
    BY <1>5, <2>1 DEF Environment, ReplyLost, ReportUnreachable, ReportReachable,
              ConnectionLost, ConnectionRestored, DrainPending, idVars
<1>6. CASE Deinitialize \/ Deinitialized
  BY <1>6 DEF Deinitialize, Deinitialized, idVars
<1> QED BY <1>2, <1>3, <1>4, <1>5, <1>6 DEF Next

\* They are finitely many.
LEMMA NewIdsFinite ==
  ASSUME TypeOK, TypeOK', Next
  PROVE  IsFiniteSet(notified' \ notified) /\ notified' \subseteq Nat
<1>1. IsFiniteSet(PendingIds)
  <2>1. IsFiniteSet(PendingSlots)
    <3>1. IsFiniteSet(Slot)
      BY QueueSizeType, FS_Interval
    <3> QED BY <3>1, FS_Subset DEF PendingSlots
  <2>2. [s \in PendingSlots |-> waiting[s].id] \in Surjection(PendingSlots, PendingIds)
    BY DEF PendingIds, Surjection
  <2> QED BY <2>1, <2>2, FS_Surjection
<1>2. IsFiniteSet(itemIndex .. itemIndex' - 1)
  BY FS_Interval DEF TypeOK
<1>3. IsFiniteSet(PendingIds \cup itemIndex .. itemIndex' - 1)
  BY <1>1, <1>2, FS_Union
<1>4. notified' \ notified \subseteq PendingIds \cup itemIndex .. itemIndex' - 1
  BY NotifiedGrows
<1> QED BY <1>3, <1>4, FS_Subset DEF TypeOK

\* A list of members of S, none twice.
OnceEach(q, S) ==
    /\ \A i \in 1 .. Len(q) : q[i] \in S
    /\ \A i, j \in 1 .. Len(q) : q[i] = q[j] => i = j

\* The members of a finite set in some order, each once.
LEMMA InSomeOrder ==
  ASSUME NEW S \in SUBSET Nat, IsFiniteSet(S), NEW q \in SetToSeqs(S)
  PROVE  q \in Seq(Nat) /\ OnceEach(q, S)
<1>1. Cardinality(S) \in Nat
  BY FS_CardinalityType
<1>2. q \in [1 .. Cardinality(S) -> S]
  BY DEF SetToSeqs
<1>3. q \in Seq(Nat) /\ Len(q) = Cardinality(S)
  <2> DEFINE n == Cardinality(S)
  <2>1. n \in Nat /\ q \in [1 .. n -> Nat]
    BY <1>1, <1>2
  <2> HIDE DEF n
  <2>2. q \in Seq(Nat) /\ Len(q) = n
    BY <2>1
  <2> QED BY <2>2 DEF n
<1>4. \A i, j \in 1 .. Cardinality(S) : i # j => q[i] # q[j]
  BY DEF SetToSeqs
<1> QED BY <1>2, <1>3, <1>4 DEF OnceEach

\* Two lists without a common member, one after the other.
LEMMA NoneTwice ==
  ASSUME NEW A, NEW B, A \cap B = {}, NEW a \in Seq(Nat), NEW b \in Seq(Nat),
         OnceEach(a, A), OnceEach(b, B), NEW q, q = a \o b
  PROVE  q \in Seq(Nat) /\ OnceEach(q, A \cup B)
<1> USE DEF OnceEach
<1>1. /\ a \o b \in Seq(Nat)
      /\ Len(a \o b) = Len(a) + Len(b)
      /\ \A i \in 1 .. Len(a) : (a \o b)[i] = a[i]
      /\ \A i \in 1 .. Len(b) : (a \o b)[Len(a) + i] = b[i]
  BY ConcatAt
<1>2. /\ q \in Seq(Nat)
      /\ Len(q) = Len(a) + Len(b)
      /\ \A i \in 1 .. Len(a) : q[i] = a[i]
      /\ \A i \in 1 .. Len(b) : q[Len(a) + i] = b[i]
  BY ONLY q = a \o b, <1>1, Zenon
<1>0. Len(a) \in Nat /\ Len(b) \in Nat
  OBVIOUS
<1>3. ASSUME NEW i \in 1 .. Len(q)
      PROVE  \/ i \in 1 .. Len(a) /\ q[i] = a[i] /\ q[i] \in A
             \/ i - Len(a) \in 1 .. Len(b) /\ q[i] = b[i - Len(a)] /\ q[i] \in B
  <2>1. i \in 1 .. Len(a) \/ i - Len(a) \in 1 .. Len(b)
    BY <1>0, <1>2
  <2>2. CASE i \in 1 .. Len(a)
    BY <1>2, <2>2
  <2>3. CASE i - Len(a) \in 1 .. Len(b)
    <3>1. PICK x \in 1 .. Len(b) : x = i - Len(a)
      BY <2>3
    <3>2. q[Len(a) + x] = b[x] /\ b[x] \in B
      BY <1>2, Zenon
    <3>3. Len(a) + x = i
      BY <1>0, <1>2, <3>1
    <3> QED BY <2>3, <3>1, <3>2, <3>3
  <2> QED BY <2>1, <2>2, <2>3
<1>4. ASSUME NEW i \in 1 .. Len(q), NEW j \in 1 .. Len(q), q[i] = q[j] PROVE i = j
  <2>1. CASE /\ i \in 1 .. Len(a) /\ q[i] = a[i]
             /\ j \in 1 .. Len(a) /\ q[j] = a[j]
    BY <1>4, <2>1
  <2>2. CASE /\ i - Len(a) \in 1 .. Len(b) /\ q[i] = b[i - Len(a)]
             /\ j - Len(a) \in 1 .. Len(b) /\ q[j] = b[j - Len(a)]
    <3>1. i - Len(a) = j - Len(a)
      BY <1>4, <2>2
    <3> QED BY <1>0, <1>2, <3>1
  <2>3. ~(q[i] \in A /\ q[j] \in B) /\ ~(q[i] \in B /\ q[j] \in A)
    BY <1>4
  <2> QED BY <1>3, <2>1, <2>2, <2>3
<1> QED BY <1>2, <1>3, <1>4

-----------------------------------------------------------------------------
(* The refinement *)

FeedsInv == TInv /\ ListInv /\ FeedInv

\* What a driver step hands over is new to the list and the listeners.
LEMMA DriverFeeds ==
  ASSUME FeedsInv, DriverStep
  PROVE  FeedsInv'
<1>0. TypeOK /\ TypeOK' /\ TInv' /\ Next
  <2>1. Next /\ [Next]_vars /\ TInv
    BY DEF FeedsInv, DriverStep
  <2>2. TInv'
    BY <2>1, TypesStep, CallInvStep DEF TInv
  <2>3. TypeOK /\ TypeOK'
    BY <2>1, <2>2, TypeParts, PTL DEF TInv
  <2> QED BY <2>1, <2>2, <2>3
<1> DEFINE new == notified' \ notified
           A == new \cap PendingIds
           B == new \ PendingIds
<1>1. IsFiniteSet(new) /\ notified' \subseteq Nat /\ notified \subseteq notified'
  BY <1>0, NewIdsFinite, NotifiedGrows
<1>2. /\ A \in SUBSET Nat /\ B \in SUBSET Nat /\ A \cap B = {} /\ A \cup B \subseteq new
      /\ IsFiniteSet(A) /\ IsFiniteSet(B)
  BY <1>1, FS_Subset
<1>3. PICK drained \in SetToSeqs(A), fresh \in SetToSeqs(B) : inbox' = drained \o fresh
  BY DEF DriverStep
<1>4. Held' = Held /\ ListInv' /\ dispatched' = dispatched
  BY DEF FeedsInv, ListInv, Held, DriverStep, callbackVars
<1> HIDE DEF A, B
<1>5. drained \in Seq(Nat) /\ OnceEach(drained, A)
  BY <1>2, InSomeOrder
<1>6. fresh \in Seq(Nat) /\ OnceEach(fresh, B)
  BY <1>2, InSomeOrder
<1>7. inbox' \in Seq(Nat) /\ OnceEach(inbox', A \cup B)
  <2> DEFINE q == drained \o fresh
  <2>1. A \cap B = {} /\ q = drained \o fresh
    BY <1>2
  <2> HIDE DEF q
  <2>2. q \in Seq(Nat) /\ OnceEach(q, A \cup B)
    BY ONLY <1>5, <1>6, <2>1, NoneTwice, Zenon
  <2> QED BY <1>3, <2>1, <2>2, Zenon
<1>8. \A x \in A \cup B : x \in notified' /\ x \notin Held' /\ x \notin dispatched'
  BY <1>2, <1>4 DEF FeedsInv, FeedInv
<1>9. FeedInv'
  BY <1>1, <1>4, <1>7, <1>8, Zenon DEF FeedsInv, FeedInv, OnceEach
<1> QED BY <1>0, <1>4, <1>9 DEF FeedsInv

\* One id is taken off the inbox and given to notify_command.
LEMMA NotifyFeeds ==
  ASSUME FeedsInv, NotifyStep
  PROVE  FeedsInv' /\ Traffic!Order!TrafficNext
<1> DEFINE id == Head(inbox)
<1>1. /\ inbox \in Seq(Nat) /\ inbox # <<>>
      /\ \A i, j \in 1 .. Len(inbox) : inbox[i] = inbox[j] => i = j
      /\ \A i \in 1 .. Len(inbox) :
            inbox[i] \in notified /\ inbox[i] \notin Held /\ inbox[i] \notin dispatched
      /\ inbox' = Tail(inbox) /\ notified' = notified
  BY DEF FeedsInv, FeedInv, NotifyStep, vars, idVars
<1>2. /\ Len(inbox) \in Nat /\ 1 \in 1 .. Len(inbox) /\ id = inbox[1]
      /\ id \in Nat /\ Tail(inbox) \in Seq(Nat) /\ Len(Tail(inbox)) = Len(inbox) - 1
      /\ \A i \in 1 .. Len(inbox) - 1 : Tail(inbox)[i] = inbox[i + 1]
  BY <1>1
<1>3. /\ ListInv' /\ Traffic!Order!TrafficNext
      /\ Held' \cup dispatched' \subseteq Held \cup dispatched \cup {id}
  <2>1. id \in Nat /\ id \notin Held /\ id \notin dispatched
    BY <1>1, <1>2
  <2>2. ListInv /\ Traffic!notify_command(id)
    BY DEF FeedsInv, NotifyStep
  <2> QED BY <2>1, <2>2, NotifySimulates
<1>4. ASSUME NEW i \in 1 .. Len(Tail(inbox))
      PROVE  /\ Tail(inbox)[i] \in notified
             /\ Tail(inbox)[i] \notin Held' /\ Tail(inbox)[i] \notin dispatched'
  <2>1. i + 1 \in 1 .. Len(inbox) /\ i + 1 # 1 /\ Tail(inbox)[i] = inbox[i + 1]
    BY <1>2
  <2>2. inbox[i + 1] # id
    BY <1>1, <1>2, <2>1
  <2> QED BY <1>1, <1>3, <2>1, <2>2
<1>5. ASSUME NEW i \in 1 .. Len(Tail(inbox)), NEW j \in 1 .. Len(Tail(inbox)),
             Tail(inbox)[i] = Tail(inbox)[j]
      PROVE  i = j
  <2>1. /\ i + 1 \in 1 .. Len(inbox) /\ Tail(inbox)[i] = inbox[i + 1]
        /\ j + 1 \in 1 .. Len(inbox) /\ Tail(inbox)[j] = inbox[j + 1]
    BY <1>2
  <2>2. i + 1 = j + 1
    BY <1>1, <1>5, <2>1
  <2> QED BY <1>2, <2>2
<1>6. Held' \cup dispatched' \subseteq notified
  BY <1>1, <1>2, <1>3 DEF FeedsInv, FeedInv
<1>7. FeedInv'
  BY <1>1, <1>2, <1>4, <1>5, <1>6, Zenon DEF FeedInv
<1>8. TInv'
  <2>1. [Next]_vars
    BY DEF NotifyStep
  <2> QED BY <2>1, TypesStep, CallInvStep DEF TInv, FeedsInv
<1> QED BY <1>3, <1>7, <1>8 DEF FeedsInv

\* What the list rests on holds from the start.
LEMMA InitFeeds == TrafficInit => FeedsInv /\ Traffic!Order!TrafficInit
<1> SUFFICES ASSUME TrafficInit PROVE FeedsInv /\ Traffic!Order!TrafficInit
  OBVIOUS
<1>1. TInv
  BY InitTypes, InitCalls DEF TInv, TrafficInit
<1>2. /\ inbox = <<>> /\ waitingForPublish = <<>> /\ lastItemSequenceId = -1
      /\ dispatched = {} /\ notified = {}
  BY DEF TrafficInit, Traffic!Init, Init
<1>3. Held = {} /\ Traffic!Range(waitingForPublish) = {}
  BY <1>2 DEF Held, Traffic!Range
<1>4. ListInv
  BY <1>2 DEF ListInv
<1>5. FeedInv
  BY <1>2, <1>3 DEF FeedInv
<1> QED BY <1>1, <1>2, <1>3, <1>4, <1>5 DEF FeedsInv, Traffic!Order!TrafficInit

\* Whatever the driver does (refused and resolved commands, timeouts, drained
\* slots, a link that drops and comes back), and in whatever order its
\* sequence ids reach notify_command: the sorted list of BusTrafficCallbacks,
\* with its draining and its flush, implements TrafficOrder. Listeners hear
\* ids in increasing order, and an id is kept back only behind a gap.
THEOREM ListImplementsOrder == TrafficSpec => ImplementsOrder
<1>1. TrafficInit => FeedsInv /\ Traffic!Order!TrafficInit
  BY InitFeeds
<1>2. FeedsInv /\ [TrafficNext]_allVars =>
        FeedsInv' /\ [Traffic!Order!TrafficNext]_(Traffic!Order!trafficVars)
  <2> SUFFICES ASSUME FeedsInv, [TrafficNext]_allVars
               PROVE  FeedsInv' /\ [Traffic!Order!TrafficNext]_(Traffic!Order!trafficVars)
    OBVIOUS
  <2>1. CASE DriverStep
    <3>1. UNCHANGED Traffic!Order!trafficVars
      BY <2>1 DEF DriverStep, callbackVars, Traffic!Order!trafficVars, Traffic!Range
    <3> QED BY <2>1, <3>1, DriverFeeds
  <2>2. CASE NotifyStep
    BY <2>2, NotifyFeeds
  <2>3. CASE UNCHANGED allVars
    <3>1. UNCHANGED Traffic!Order!trafficVars
      BY <2>3 DEF allVars, callbackVars, Traffic!Order!trafficVars, Traffic!Range
    <3>2. TInv'
      <4>1. [Next]_vars
        BY <2>3 DEF allVars
      <4> QED BY <4>1, TypesStep, CallInvStep DEF TInv, FeedsInv
    <3>3. ListInv' /\ FeedInv'
      BY <2>3 DEF allVars, vars, idVars, callbackVars, FeedsInv, ListInv, FeedInv, Held, Traffic!Range
    <3> QED BY <3>1, <3>2, <3>3 DEF FeedsInv
  <2> QED BY <2>1, <2>2, <2>3 DEF TrafficNext
<1> QED BY <1>1, <1>2, PTL DEF TrafficSpec, ImplementsOrder, Traffic!Order!TrafficSpec

-----------------------------------------------------------------------------
(* What TrafficOrder promises *)

\* Nothing that was heard is past the cursor.
HeardUpToLast == \A m \in dispatched : m <= lastItemSequenceId

DispatchInv == Traffic!Order!TrafficTypeOK /\ Traffic!Order!HeldBehindGap /\ HeardUpToLast

\* The first notification finds nothing held and nothing heard.
LEMMA OrderInitInv ==
  ASSUME Traffic!Order!TrafficConstants, Traffic!Order!TrafficInit
  PROVE  DispatchInv
  BY DEF Traffic!Order!TrafficConstants, Traffic!Order!TrafficInit, DispatchInv, Traffic!Order!TrafficTypeOK,
        Traffic!Order!HeldBehindGap, HeardUpToLast

\* notify_command keeps the cursor at or past everything heard and leaves
\* behind only ids that a gap separates from it.
LEMMA OrderStepInv ==
  ASSUME Traffic!Order!TrafficConstants, DispatchInv, [Traffic!Order!TrafficNext]_(Traffic!Order!trafficVars)
  PROVE  DispatchInv'
<1> USE DEF Held, Traffic!Order!TrafficConstants, DispatchInv, Traffic!Order!TrafficTypeOK,
        Traffic!Order!HeldBehindGap, HeardUpToLast
<1>1. ASSUME NEW id \in Nat, Traffic!Order!HearNext(id) PROVE DispatchInv'
  <2>1. PICK m \in id .. id + QueueSize :
           /\ id + 1 .. m \subseteq Held /\ m + 1 \notin Held
           /\ lastItemSequenceId' = m
           /\ dispatched' = dispatched \cup id .. m
           /\ Held' = {h \in Held : h > m}
    BY <1>1 DEF Traffic!Order!HearNext
  <2>2. id \in Nat /\ m \in Nat /\ id = lastItemSequenceId + 1 /\ m >= id
    BY <1>1, <2>1 DEF Traffic!Order!HearNext
  <2>3. Traffic!Order!TrafficTypeOK'
    <3>1. lastItemSequenceId' \in Int /\ lastItemSequenceId' >= -1
      BY <2>1, <2>2
    <3>2. Held' \subseteq Nat
      BY <2>1
    <3>3. id .. m \subseteq Nat
      BY <2>2
    <3>4. dispatched' \subseteq Nat
      BY <2>1, <3>3
    <3> QED BY <3>1, <3>2, <3>4
  <2>4. Traffic!Order!HeldBehindGap'
    <3> SUFFICES ASSUME NEW h \in Held', h > lastItemSequenceId' PROVE h \in lastItemSequenceId' + 2 .. lastItemSequenceId' + QueueSize
      OBVIOUS
    <3>1. h \in Held /\ h > m /\ h \in Nat
      BY <2>1
    <3>2. h <= lastItemSequenceId + QueueSize
      BY <3>1, <2>2
    <3>3. h # m + 1
      BY <3>1, <2>1
    <3> QED BY <2>1, <2>2, <3>1, <3>2, <3>3
  <2>5. HeardUpToLast'
    BY <2>1, <2>2
  <2> QED BY <2>3, <2>4, <2>5
<1>2. ASSUME NEW id \in Nat, Traffic!Order!HearAll(id) PROVE DispatchInv'
  <2>1. id \in Nat /\ id > lastItemSequenceId + QueueSize
    BY <1>2 DEF Traffic!Order!HearAll
  <2>2. Traffic!Order!TrafficTypeOK'
    <3>1. lastItemSequenceId' = id /\ Held' = {} /\ dispatched' = dispatched \cup {h \in Held : h > lastItemSequenceId} \cup {id}
      BY <1>2 DEF Traffic!Order!HearAll
    <3>2. dispatched' \subseteq Nat
      BY <3>1, <2>1
    <3> QED BY <3>1, <3>2, <2>1
  <2>3. Traffic!Order!HeldBehindGap'
    BY <1>2 DEF Traffic!Order!HearAll
  <2>4. HeardUpToLast'
    <3> SUFFICES ASSUME NEW m \in dispatched' PROVE m <= lastItemSequenceId'
      OBVIOUS
    <3>1. m \in dispatched \/ (m \in Held /\ m > lastItemSequenceId) \/ m = id
      BY <1>2 DEF Traffic!Order!HearAll
    <3>2. CASE m \in dispatched
      BY <3>2, <2>1, <1>2 DEF Traffic!Order!HearAll
    <3>3. CASE m \in Held /\ m > lastItemSequenceId
      <4>1. m \in Nat /\ m <= lastItemSequenceId + QueueSize
        BY <3>3
      <4> QED BY <4>1, <2>1, <1>2 DEF Traffic!Order!HearAll
    <3>4. CASE m = id
      BY <3>4, <2>1, <1>2 DEF Traffic!Order!HearAll
    <3> QED BY <3>1, <3>2, <3>3, <3>4
  <2> QED BY <2>2, <2>3, <2>4
<1>3. ASSUME NEW id \in Nat, Traffic!Order!Hold(id) PROVE DispatchInv'
  <2>1. id \in Nat /\ id # lastItemSequenceId + 1 /\ id <= lastItemSequenceId + QueueSize
    BY <1>3 DEF Traffic!Order!Hold
  <2> QED BY <1>3, <2>1 DEF Traffic!Order!Hold
<1>4. CASE UNCHANGED Traffic!Order!trafficVars
  BY <1>4 DEF Traffic!Order!trafficVars
<1> QED
  BY <1>1, <1>2, <1>3, <1>4 DEF Traffic!Order!TrafficNext, Traffic!Order!NotifyCommand, Traffic!Order!Fresh

\* Ids still to be heard are held only behind a gap, and never more than the
\* gateway queue's length ahead of the cursor, for every queue size.
THEOREM TrafficHeldBehindGap ==
  TrafficSpec => []Traffic!Order!HeldBehindGap
<1>1. DispatchInv => Traffic!Order!HeldBehindGap
  BY DEF DispatchInv
<1>2. Traffic!Order!TrafficConstants
  BY DriverAssumption DEF Traffic!Order!TrafficConstants
<1> QED
  BY <1>1, <1>2, OrderInitInv, OrderStepInv, ListImplementsOrder, PTL
     DEF ImplementsOrder, Traffic!Order!TrafficSpec

\* A step gives the listeners only ids greater than all they heard before.
LEMMA OrderStepHears ==
  ASSUME Traffic!Order!TrafficConstants, DispatchInv, Traffic!Order!TrafficNext
  PROVE  \A n \in dispatched' \ dispatched : \A m \in dispatched : m < n
<1> USE DEF Held, Traffic!Order!TrafficConstants, DispatchInv, Traffic!Order!TrafficTypeOK,
        Traffic!Order!HeldBehindGap, HeardUpToLast
<1>1. PICK id \in Nat : Traffic!Order!NotifyCommand(id)
  BY DEF Traffic!Order!TrafficNext, Traffic!Order!Fresh
<1> SUFFICES ASSUME NEW n \in dispatched' \ dispatched PROVE n \in Nat /\ n > lastItemSequenceId
  OBVIOUS
<1>2. CASE Traffic!Order!HearNext(id)
  BY <1>2 DEF Traffic!Order!HearNext
<1>3. CASE Traffic!Order!HearAll(id)
  BY <1>3 DEF Traffic!Order!HearAll
<1>4. CASE Traffic!Order!Hold(id)
  BY <1>4 DEF Traffic!Order!Hold
<1> QED
  BY <1>1, <1>2, <1>3, <1>4 DEF Traffic!Order!NotifyCommand

\* Listeners hear sequence ids in increasing order, none twice, whatever the
\* order in which responses, timeouts and failures resolve the commands.
THEOREM TrafficHeardInOrder ==
  TrafficSpec => Traffic!Order!HeardInOrder
<1>1. Traffic!Order!TrafficConstants
  BY DriverAssumption DEF Traffic!Order!TrafficConstants
<1>2. DispatchInv /\ [Traffic!Order!TrafficNext]_(Traffic!Order!trafficVars) =>
        [\A n \in dispatched' \ dispatched : \A m \in dispatched : m < n]_(Traffic!Order!trafficVars)
  BY <1>1, OrderStepHears DEF Traffic!Order!trafficVars
<1> QED
  BY <1>1, <1>2, OrderInitInv, OrderStepInv, ListImplementsOrder, PTL
     DEF ImplementsOrder, Traffic!Order!TrafficSpec, Traffic!Order!HeardInOrder

-----------------------------------------------------------------------------
(* Commands on their way *)

\* The slots of the batch are registered, its publish has not ended.
Registered == pc \in {"writing", "refused"}

\* A command stands in the queue, in the batch, or in one slot.
PlacesInv ==
    /\ \A s \in Slot : waiting[s].cmd \notin Rng(sendQueue)
    /\ \A s \in Slot : waiting[s].cmd \in Rng(batch) => Registered
    /\ \A s, t \in Slot : waiting[s].cmd = waiting[t].cmd /\ waiting[s].cmd # NoCmd => s = t

\* What is on its way is awaited and in one place.
StandInv ==
    /\ PlacesInv
    /\ \A c \in Rng(sendQueue) : Pending(c)
    /\ ~Registered => \A c \in Rng(batch) : Pending(c)

\* A step that only resolves waiters, commands nobody sent, or a batch it drops.
Settles ==
    \A c \in Cmd : future'[c] # future[c] =>
        future[c] = "new" \/ c \in PendingWaiters \/ (c \in Rng(batch) /\ batch' = <<>>)

\* Such a step leaves what is on its way awaited.
LEMMA StandKept ==
  ASSUME Types, OnceInv, StandInv, SlotsKept, sendQueue' = sendQueue, Settles,
         batch' = <<>> \/ (batch' = batch /\ (Registered' <=> Registered))
  PROVE  StandInv'
<1>1. /\ \A s \in Slot : waiting[s].cmd \notin Rng(sendQueue)
      /\ \A s \in Slot : waiting[s].cmd \in Rng(batch) => Registered
      /\ \A s, t \in Slot : waiting[s].cmd = waiting[t].cmd /\ waiting[s].cmd # NoCmd => s = t
      /\ \A c \in Rng(sendQueue) : Pending(c)
      /\ ~Registered => \A c \in Rng(batch) : Pending(c)
  BY DEF StandInv, PlacesInv
<1>2. /\ Rng(sendQueue) \subseteq Cmd /\ Rng(batch) \subseteq Cmd /\ NoCmd \notin Cmd
      /\ Rng(batch) \cap Rng(sendQueue) = {}
  BY RngType, WayParts, DriverAssumption DEF Types, FutureTypes, BatchTypes
<1>3. /\ Rng(sendQueue') = Rng(sendQueue)
      /\ Rng(batch') = {} \/ (Rng(batch') = Rng(batch) /\ (Registered' <=> Registered))
  BY RngEmpty
<1>4. /\ \A c \in Rng(sendQueue) : c \notin PendingWaiters
      /\ ~Registered => \A c \in Rng(batch) : c \notin PendingWaiters
  BY <1>1 DEF PendingWaiters, PendingSlots
<1>5. \A c \in Rng(sendQueue) : (Pending(c))'
  BY <1>1, <1>2, <1>4 DEF Settles, Pending
<1>6. ~Registered' => \A c \in Rng(batch') : (Pending(c))'
  <2> SUFFICES ASSUME ~Registered', NEW c \in Rng(batch') PROVE (Pending(c))'
    OBVIOUS
  <2>1. batch' = batch /\ ~Registered /\ c \in Rng(batch) /\ Rng(<<>>) = {}
    BY <1>3, RngEmpty
  <2>2. future'[c] = future[c]
    BY <1>1, <1>2, <1>4, <2>1 DEF Settles, Pending
  <2> QED BY <1>1, <2>1, <2>2 DEF Pending
<1>7. PlacesInv'
  BY <1>1, <1>2, <1>3 DEF PlacesInv, SlotsKept
<1> QED BY <1>3, <1>5, <1>6, <1>7 DEF StandInv

\* put(): a command nobody has heard of joins the queue.
LEMMA StandPut ==
  ASSUME Types, CallInv, NewInv, StandInv, NEW k \in Call, Put(k)
  PROVE  StandInv'
<1>0. PICK c \in Cmd : c = CurrentCmd(k)
  BY CurrentCmdType
<1>1. future[c] = "new"
  BY <1>0, CurrentIsNew DEF Put
<1>2. /\ c \notin Rng(sendQueue) /\ c \notin Rng(batch)
      /\ \A s \in Slot : waiting[s].cmd # c
  BY <1>1 DEF NewInv
<1>3. /\ UNCHANGED <<pc, batch, waiting>>
      /\ sendQueue' = Append(sendQueue, c) /\ future' = [future EXCEPT ![c] = "pending"]
  BY <1>0 DEF Put, senderVars, timerVars
<1>4. Rng(sendQueue') = Rng(sendQueue) \cup {c} /\ future \in [Cmd -> FutureStates]
  BY <1>3, RngAppend DEF Types, FutureTypes
<1>5. Rng(sendQueue) \subseteq Cmd /\ Rng(batch) \subseteq Cmd /\ NoCmd \notin Cmd
  BY RngType, DriverAssumption DEF Types, FutureTypes, BatchTypes
<1>6. (\A x \in Cmd : x # c => future'[x] = future[x]) /\ future'[c] = "pending"
  BY <1>3, <1>4
<1>7. Rng(batch') = Rng(batch) /\ Registered' = Registered
  BY <1>3 DEF Registered
<1>8. PlacesInv'
  BY <1>2, <1>3, <1>4, <1>7 DEF StandInv, PlacesInv
<1>9. \A x \in Rng(sendQueue') : (Pending(x))'
  BY <1>2, <1>4, <1>5, <1>6 DEF StandInv, Pending
<1>10. ~Registered' => \A x \in Rng(batch') : (Pending(x))'
  BY <1>2, <1>5, <1>6, <1>7 DEF StandInv, Pending
<1> QED BY <1>7, <1>8, <1>9, <1>10 DEF StandInv

\* get(): the command moves to the batch; none was cancelled.
LEMMA StandGet ==
  ASSUME Types, StandInv, SenderGet
  PROVE  StandInv'
<1> DEFINE c == Head(sendQueue)
<1>0. sendQueue \in Seq(Cmd) /\ batch \in Seq(Cmd) /\ sendQueue # <<>>
  BY DEF SenderGet, Types, FutureTypes, BatchTypes
<1>1. /\ c \in Cmd /\ c \in Rng(sendQueue) /\ Rng(Tail(sendQueue)) \subseteq Rng(sendQueue)
      /\ Rng(Append(batch, c)) = Rng(batch) \cup {c}
  BY <1>0, RngTail, RngAppend
<1>2. future[c] = "pending"
  BY <1>1 DEF StandInv, Pending
<1>3. /\ pc = "get" /\ pc' \in {"cooldown", "top"}
      /\ batch' = Append(batch, c) /\ sendQueue' = Tail(sendQueue)
      /\ UNCHANGED <<waiting, future>>
  BY <1>2 DEF SenderGet, timerVars
<1> HIDE DEF c
<1>4. ~Registered /\ ~Registered'
  BY <1>3 DEF Registered
<1>5. Rng(sendQueue') \subseteq Rng(sendQueue) /\ Rng(batch') = Rng(batch) \cup {c}
  BY <1>1, <1>3
<1>6. PlacesInv'
  BY <1>1, <1>3, <1>4, <1>5 DEF StandInv, PlacesInv
<1> QED BY <1>1, <1>3, <1>4, <1>5, <1>6 DEF StandInv, Pending

\* The batch is registered: its commands are in their slots and nowhere else.
LEMMA StandRegister ==
  ASSUME Types, Types', IndexInv', OnceInv, StandInv, ~Registered, Registered',
         batch' = batch, sendQueue' = sendQueue, Register(batchStart')
  PROVE  StandInv'
<1> DEFINE b == batchStart'
           used == b .. b + Len(batch) - 1
<1>0. \A s \in used : s \in Int /\ s - b + 1 \in 1 .. Len(batch)
  <2>1. b \in Int /\ Len(batch) \in Nat
    BY QueueSizeType DEF Types, BatchTypes
  <2> HIDE DEF b
  <2> QED BY <2>1
<1>1. /\ \A s \in Slot : /\ s \in used => waiting'[s].cmd = batch[s - b + 1]
                         /\ s \notin used => waiting'[s] = waiting[s]
      /\ future' = future
  <2>0. waiting' = [s \in Slot |->
                      IF s \in used
                      THEN [cmd |-> batch[s - b + 1], id |-> itemIndex + (s - b), armed |-> TRUE]
                      ELSE waiting[s]]
        /\ future' = future
    BY DEF Register
  <2> HIDE DEF used, b
  <2>1. ASSUME NEW s \in Slot, s \in used PROVE waiting'[s].cmd = batch[s - b + 1]
    <3>1. waiting'[s] = [cmd |-> batch[s - b + 1], id |-> itemIndex + (s - b), armed |-> TRUE]
      BY <2>0, <2>1, Zenon
    <3> QED BY <3>1
  <2>2. ASSUME NEW s \in Slot, s \notin used PROVE waiting'[s] = waiting[s]
    BY <2>0, <2>2, Zenon
  <2> QED BY <2>0, <2>1, <2>2
<1>2. /\ \A s \in Slot : waiting[s].cmd \notin Rng(batch) /\ waiting[s].cmd \notin Rng(sendQueue)
      /\ \A s, t \in Slot : waiting[s].cmd = waiting[t].cmd /\ waiting[s].cmd # NoCmd => s = t
      /\ \A c \in Rng(sendQueue) : Pending(c)
  BY DEF StandInv, PlacesInv
<1>3. /\ Rng(batch) \cap Rng(sendQueue) = {}
      /\ \A i, j \in 1 .. Len(batch) : batch[i] = batch[j] => i = j
  BY WayParts
<1>4. /\ \A i \in 1 .. Len(batch) : batch[i] \in Rng(batch)
      /\ Rng(batch') = Rng(batch) /\ Rng(sendQueue') = Rng(sendQueue)
  BY DEF Rng
<1>5. b \in Int
  BY QueueSizeType DEF Types, BatchTypes
<1> HIDE DEF used, b
<1>6. \A s \in Slot : s \in used => waiting'[s].cmd \in Rng(batch)
  BY <1>0, <1>1, <1>4
<1>7. \A s \in Slot : waiting'[s].cmd \notin Rng(sendQueue)
  BY <1>1, <1>2, <1>3, <1>6
<1>8. ASSUME NEW s \in Slot, NEW t \in Slot,
             waiting'[s].cmd = waiting'[t].cmd, waiting'[s].cmd # NoCmd
      PROVE  s = t
  <2>1. CASE s \in used /\ t \in used
    <3>1. s - b + 1 = t - b + 1
      BY <1>0, <1>1, <1>3, <1>8, <2>1
    <3> QED BY <1>0, <1>5, <2>1, <3>1
  <2>2. CASE s \notin used /\ t \notin used
    BY <1>1, <1>2, <1>8, <2>2
  <2>3. CASE (s \in used /\ t \notin used) \/ (s \notin used /\ t \in used)
    BY <1>1, <1>2, <1>6, <1>8, <2>3
  <2> QED BY <2>1, <2>2, <2>3
<1>9. PlacesInv'
  BY <1>4, <1>7, <1>8 DEF PlacesInv
<1> QED BY <1>1, <1>2, <1>4, <1>9 DEF StandInv, Pending

\* Every step keeps it, if no caller is cancelled.
LEMMA StandStep ==
  ASSUME Types, Types', IndexInv, IndexInv', CallInv, NewInv, OnceInv, StandInv,
         CancellableCall = {}, ~MayDeinit, deinit = "no", [Next]_vars
  PROVE  StandInv'
<1>1. CASE UNCHANGED vars
  <2>1. SlotsKept /\ UNCHANGED <<sendQueue, batch, pc, future>>
    BY <1>1 DEF vars, timerVars, senderVars, SlotsKept
  <2>2. Settles /\ Registered' = Registered
    BY <2>1 DEF Settles, Registered
  <2> QED BY <2>1, <2>2, StandKept
<1>2. ASSUME NEW k \in Call, Caller(k) \/ CancelCall(k) PROVE StandInv'
  <2>1. CASE Put(k)
    BY <2>1, StandPut
  <2>2. CASE Caller(k) /\ ~Put(k)
    <3>1. SlotsKept /\ UNCHANGED <<sendQueue, batch, pc>>
      BY <2>2 DEF Caller, CallUnavailable, CallStart, AcquireLock, SequenceRefused,
                  SequenceBlocks, Gathered, senderVars, timerVars, SlotsKept
    <3>2. \A c \in Cmd : future[c] # "new" => future'[c] = future[c]
      <4>1. CASE CallUnavailable(k)
        BY <4>1, AllAreNew DEF CallUnavailable, Refuse, Resolve
      <4>2. CASE SequenceRefused(k)
        BY <4>2, CurrentIsNew DEF SequenceRefused, Refuse, Resolve
      <4>3. CASE CallStart(k) \/ AcquireLock(k) \/ SequenceBlocks(k) \/ Gathered(k)
        BY <4>3 DEF CallStart, AcquireLock, SequenceBlocks, Gathered
      <4> QED BY <2>2, <4>1, <4>2, <4>3 DEF Caller
    <3>3. Settles /\ Registered' = Registered
      BY <3>1, <3>2 DEF Settles, Registered
    <3> QED BY <3>1, <3>3, StandKept
  <2>3. ~CancelCall(k)
    BY DEF CancelCall
  <2> QED BY <1>2, <2>1, <2>2, <2>3
<1>3. CASE Sender
  <2>1. CASE SenderGet
    BY <2>1, StandGet
  <2>2. CASE SendWrite
    <3>1. /\ ~Registered /\ Registered' /\ Register(batchStart')
          /\ UNCHANGED <<batch, sendQueue>>
      BY <2>2 DEF SendWrite, Registered
    <3> QED BY <3>1, StandRegister
  <2>3. CASE ResetPublished
    <3>1. /\ ~Registered /\ Registered' /\ Register(batchStart')
          /\ UNCHANGED <<batch, sendQueue>>
      BY <2>3 DEF ResetPublished, Registered
    <3> QED BY <3>1, StandRegister
  <2>4. CASE SenderTop \/ SenderGetTimeout \/ SlotFree
    <3>1. SlotsKept /\ UNCHANGED <<sendQueue, batch, future>> /\ ~Registered /\ ~Registered'
      BY <2>4 DEF SenderTop, SenderGetTimeout, SlotFree, timerVars, SlotsKept, Registered
    <3> QED BY <3>1, StandKept DEF Settles
  <2>5. CASE WritePublished
    <3>1. SlotsKept /\ UNCHANGED <<sendQueue, future>> /\ batch' = <<>>
      BY <2>5 DEF WritePublished, Finish, timerVars, SlotsKept
    <3> QED BY <3>1, StandKept DEF Settles
  <2>6. CASE SendUnavailable \/ PublishFailed
    <3>1. batch' = <<>> /\ sendQueue' = sendQueue /\ \E drain \in BOOLEAN : FailBatch(drain)
      <4>1. (~synced) \in BOOLEAN
        BY DEF Types, LinkTypes
      <4> QED BY <2>6, <4>1 DEF SendUnavailable, PublishFailed, Finish
    <3>2. /\ SlotsKept
          /\ \A c \in Cmd : future'[c] # future[c] => c \in PendingWaiters \/ c \in Rng(batch)
      BY <3>1 DEF FailBatch, DrainTimers, timerVars, SlotsKept, NoWaiter, Resolve
    <3> QED BY <3>1, <3>2, StandKept DEF Settles
  <2>7. CASE SendReset
    <3>1. /\ SlotsKept /\ UNCHANGED <<sendQueue, batch>> /\ ~Registered /\ ~Registered'
          /\ \A c \in Cmd : future'[c] # future[c] => c \in PendingWaiters
      BY <2>7 DEF SendReset, DrainPending, DrainTimers, timerVars, SlotsKept, NoWaiter, Resolve,
                  Registered
    <3> QED BY <3>1, StandKept DEF Settles
  <2> QED BY <1>3, <2>1, <2>2, <2>3, <2>4, <2>5, <2>6, <2>7 DEF Sender
<1>4. ASSUME NEW s \in Slot, NEW r,
             \A t \in Slot : waiting'[t].cmd = waiting[t].cmd,
             UNCHANGED <<sendQueue, batch, pc>>,
             \/ future' = future
             \/ Pending(waiting[s].cmd) /\ future' = [future EXCEPT ![waiting[s].cmd] = r]
      PROVE  StandInv'
  <2>1. SlotsKept /\ Registered' = Registered
    BY <1>4 DEF SlotsKept, Registered
  <2>2. \A c \in Cmd : future'[c] # future[c] => c \in PendingWaiters
    BY <1>4 DEF PendingWaiters, PendingSlots, Types, FutureTypes
  <2> QED BY <1>4, <2>1, <2>2, StandKept DEF Settles
<1>5. ASSUME NEW s \in Slot, Timeout(s) \/ OrphanTimeout(s) PROVE StandInv'
  <2>1. /\ \A t \in Slot : waiting'[t].cmd = waiting[t].cmd
        /\ UNCHANGED <<sendQueue, batch, pc>>
        /\ \/ future' = future
           \/ Pending(waiting[s].cmd) /\ future' = [future EXCEPT ![waiting[s].cmd] = "no_response"]
    BY <1>5 DEF Timeout, OrphanTimeout, TimeoutCallback, senderVars, Types, SlotTypes, Waiters
  <2> QED BY <1>4, <2>1
<1>6. CASE Reply
  <2> DEFINE s == Head(rpc).slot
  <2>1. s \in Slot
    BY <1>6, RpcType, 1 \in 1 .. Len(rpc), Head(rpc) = rpc[1] DEF Reply, Types, GwTypes
  <2>2. /\ \A t \in Slot : waiting'[t].cmd = waiting[t].cmd
        /\ UNCHANGED <<sendQueue, batch, pc>>
        /\ \/ future' = future
           \/ Pending(waiting[s].cmd) /\ future' = [future EXCEPT ![waiting[s].cmd] = "answered"]
    BY <1>6, <2>1 DEF Reply, senderVars, Types, SlotTypes, Waiters
  <2> QED BY <1>4, <2>1, <2>2
<1>7. CASE ReportUnreachable
  <2>1. /\ SlotsKept /\ UNCHANGED <<sendQueue, batch, pc>>
        /\ \A c \in Cmd : future'[c] # future[c] => c \in PendingWaiters
    BY <1>7 DEF ReportUnreachable, DrainPending, DrainTimers, SlotsKept, NoWaiter, Resolve,
                senderVars
  <2> QED BY <2>1, StandKept DEF Settles, Registered
<1>8. CASE ReplyLost \/ ReportReachable \/ ConnectionLost \/ ConnectionRestored
  <2>1. SlotsKept /\ UNCHANGED <<sendQueue, batch, pc, future>>
    BY <1>8 DEF ReplyLost, ReportReachable, ConnectionLost, ConnectionRestored, timerVars,
                senderVars, SlotsKept
  <2> QED BY <2>1, StandKept DEF Settles, Registered
<1>9. ~Deinitialize /\ ~Deinitialized
  BY DEF Deinitialize, Deinitialized
<1> QED BY <1>1, <1>2, <1>3, <1>5, <1>6, <1>7, <1>8, <1>9 DEF Next, Environment

-----------------------------------------------------------------------------
(* The ids of the waiters *)

\* The slot the next command is registered in, as far as it is decided.
Edge == IF Registered THEN nextIndex ELSE batchStart

\* How many ids ago slot s was registered last, when the front is at f.
Ago(f, s) == IF s < f THEN f - s ELSE f + QueueSize - s

\* The ids in flight are those of the last round of slots.
WindowInv == \A s \in PendingSlots : waiting[s].id = itemIndex - Ago(Edge, s)

\* Every id given out was notified or is in flight.
CountInv ==
    /\ notified \cup PendingIds = 0 .. itemIndex - 1
    /\ notified \cap PendingIds = {}

IdsInv == WindowInv /\ CountInv

\* Fresh ids are notified when nobody waits any more.
FreshAlone == (\E x \in notified' : x >= itemIndex) => PendingSlots' = {}

\* A step that keeps slots and ids.
LEMMA IdsKept ==
  ASSUME Types, IdsInv, UNCHANGED <<itemIndex, notified>>,
         \A s \in Slot : waiting'[s].id = waiting[s].id,
         \A s \in Slot : (Pending(waiting[s].cmd))' <=> Pending(waiting[s].cmd),
         Edge' = Edge \/ (Edge = QueueSize /\ Edge' = 0)
  PROVE  IdsInv' /\ FreshAlone
<1>1. PendingSlots' = PendingSlots /\ PendingSlots \subseteq Slot
  BY DEF PendingSlots
<1>2. PendingIds' = PendingIds
  BY <1>1 DEF PendingIds
<1>3. \A s \in Slot : Ago(Edge', s) = Ago(Edge, s)
  BY QueueSizeType DEF Ago
<1>4. WindowInv'
  BY <1>1, <1>3 DEF IdsInv, WindowInv, Ago
<1>5. CountInv'
  BY <1>2 DEF IdsInv, CountInv
<1>6. FreshAlone
  BY DEF IdsInv, CountInv, FreshAlone, Types, IdTypes
<1> QED BY <1>4, <1>5, <1>6 DEF IdsInv

\* Where the batch ends.
LEMMA EdgeType ==
  ASSUME Types
  PROVE  Edge \in 0 .. QueueSize
  BY QueueSizeType DEF Types, BatchTypes, Edge

\* No two waiting slots have one id.
LEMMA IdsDiffer ==
  ASSUME Types, WindowInv, NEW s \in PendingSlots, NEW t \in PendingSlots,
         waiting[s].id = waiting[t].id
  PROVE  s = t
<1>1. /\ s \in 0 .. QueueSize - 1 /\ t \in 0 .. QueueSize - 1 /\ QueueSize \in Nat
      /\ Edge \in 0 .. QueueSize /\ itemIndex \in Nat
  BY QueueSizeType, EdgeType DEF PendingSlots, Types, IdTypes
<1>2. itemIndex - Ago(Edge, s) = itemIndex - Ago(Edge, t)
  BY DEF WindowInv
<1> QED BY <1>1, <1>2 DEF Ago

\* One waiter is resolved and its id notified.
LEMMA IdsResolved ==
  ASSUME Types, IdsInv, NEW r \in PendingSlots, PendingSlots' = PendingSlots \ {r},
         \A s \in Slot : waiting'[s].id = waiting[s].id,
         itemIndex' = itemIndex, notified' = notified \cup {waiting[r].id},
         Edge' = Edge
  PROVE  IdsInv' /\ FreshAlone
<1>1. PendingIds' = PendingIds \ {waiting[r].id} /\ waiting[r].id \in PendingIds
  <2>1. \A s \in PendingSlots : s # r => waiting[s].id # waiting[r].id
    BY IdsDiffer DEF IdsInv
  <2> QED BY <2>1 DEF PendingIds, PendingSlots
<1>2. WindowInv'
  BY DEF IdsInv, WindowInv, Ago, PendingSlots
<1>3. CountInv'
  BY <1>1 DEF IdsInv, CountInv
<1>4. FreshAlone
  <2>1. waiting[r].id \in 0 .. itemIndex - 1 /\ notified \subseteq 0 .. itemIndex - 1
    BY <1>1 DEF IdsInv, CountInv
  <2>2. itemIndex \in Nat
    BY DEF Types, IdTypes
  <2>3. \A x \in 0 .. itemIndex - 1 : ~(x >= itemIndex)
    BY <2>2
  <2> QED BY <2>1, <2>3 DEF FreshAlone
<1> QED BY <1>2, <1>3, <1>4 DEF IdsInv

\* Nobody waits any more, and those that are refused take fresh ids.
LEMMA IdsCleared ==
  ASSUME Types, IdsInv, PendingSlots' = {}, NEW count \in Nat, itemIndex' = itemIndex + count,
         notified' = notified \cup PendingIds \cup itemIndex .. itemIndex + count - 1
  PROVE  IdsInv' /\ FreshAlone
<1>1. PendingIds' = {}
  BY DEF PendingIds
<1>2. notified' = 0 .. itemIndex' - 1
  BY DEF IdsInv, CountInv, Types, IdTypes
<1> QED BY <1>1, <1>2 DEF IdsInv, WindowInv, CountInv, FreshAlone

\* A batch is registered in slots nobody waits for.
LEMMA IdsRegistered ==
  ASSUME Types, Types', IndexInv', IdsInv, batch' = batch, Register(batchStart'), Registered',
         batchStart' = Edge \/ PendingSlots = {},
         \A s \in batchStart' .. nextIndex' - 1 : s \notin PendingSlots,
         \A c \in Rng(batch) : Pending(c)
  PROVE  IdsInv' /\ FreshAlone
<1> DEFINE b == batchStart'
           n == Len(batch)
           used == b .. b + n - 1
<1>0. /\ b \in 0 .. QueueSize - 1 /\ n \in Nat /\ Slot = 0 .. QueueSize - 1 /\ QueueSize \in Nat
      /\ b + n <= QueueSize /\ nextIndex' = b + n /\ itemIndex \in Nat
  <2>1. b \in 0 .. QueueSize - 1 /\ nextIndex' \in 0 .. QueueSize
    BY QueueSizeType DEF Types, BatchTypes
  <2>2. n = nextIndex' - b
    <3>1. pc' # "stopped"
      BY DEF Registered
    <3> QED BY <3>1 DEF IndexInv
  <2>3. n \in Nat /\ itemIndex \in Nat
    BY DEF Types, BatchTypes, IdTypes
  <2> HIDE DEF b, n
  <2>4. nextIndex' = b + n
    <3>1. \A x, y \in Int : y + (x - y) = x
      OBVIOUS
    <3>2. nextIndex' \in Int /\ b \in Int
      BY <2>1, QueueSizeType
    <3> QED BY ONLY <2>2, <3>1, <3>2, Zenon
  <2> QED BY ONLY <2>1, <2>3, <2>4, QueueSizeType
<1>1. Edge' = b + n
  BY <1>0 DEF Edge
<1>2. /\ \A s \in Slot : waiting'[s] = IF s \in used
                            THEN [cmd |-> batch[s - b + 1], id |-> itemIndex + (s - b), armed |-> TRUE]
                            ELSE waiting[s]
      /\ itemIndex' = itemIndex + n /\ notified' = notified /\ future' = future
  BY DEF Register
<1>3. \A s \in Slot : /\ s \in used => /\ waiting'[s].cmd = batch[s - b + 1]
                                      /\ waiting'[s].id = itemIndex + (s - b)
                      /\ s \notin used => waiting'[s] = waiting[s]
  <2> HIDE DEF used, b
  <2>1. ASSUME NEW s \in Slot, s \in used
        PROVE  waiting'[s].cmd = batch[s - b + 1] /\ waiting'[s].id = itemIndex + (s - b)
    <3>1. waiting'[s] = [cmd |-> batch[s - b + 1], id |-> itemIndex + (s - b), armed |-> TRUE]
      BY <1>2, <2>1, Zenon
    <3> QED BY <3>1
  <2>2. ASSUME NEW s \in Slot, s \notin used PROVE waiting'[s] = waiting[s]
    BY <1>2, <2>2, Zenon
  <2> QED BY <2>1, <2>2
<1>7. PendingSlots \cap used = {}
  <2>1. used = b .. nextIndex' - 1
    BY <1>0
  <2> HIDE DEF used
  <2> QED BY <2>1
<1>8. b = Edge \/ PendingSlots = {}
  OBVIOUS
<1> HIDE DEF b, n
<1>4. used \subseteq Slot /\ \A s \in used : s - b + 1 \in 1 .. n
  BY <1>0
<1>5. \A s \in used : (Pending(waiting[s].cmd))'
  <2>1. \A s \in used : batch[s - b + 1] \in Rng(batch)
    BY <1>4 DEF Rng, n
  <2> QED BY <1>2, <1>3, <1>4, <2>1 DEF Pending
<1>6. PendingSlots' = PendingSlots \cup used
  <2> HIDE DEF used
  <2>1. \A s \in Slot \ used : (Pending(waiting[s].cmd))' <=> Pending(waiting[s].cmd)
    BY <1>2, <1>3 DEF Pending
  <2> QED BY <1>4, <1>5, <2>1 DEF PendingSlots
<1>9. WindowInv'
  <2> SUFFICES ASSUME NEW s \in PendingSlots' PROVE waiting'[s].id = itemIndex' - Ago(Edge', s)
    BY DEF WindowInv, Ago
  <2>1. CASE s \in used
    <3>1. waiting'[s].id = itemIndex + (s - b)
      BY <1>3, <1>4, <2>1
    <3> HIDE DEF used
    <3>2. s \in b .. b + n - 1
      BY <2>1 DEF used
    <3> QED BY <1>0, <1>1, <1>2, <3>1, <3>2 DEF Ago
  <2>2. CASE s \in PendingSlots /\ s \notin used
    <3>1. s \in Slot /\ b = Edge /\ waiting'[s].id = itemIndex - Ago(Edge, s)
      BY <1>3, <1>8, <2>2 DEF PendingSlots, IdsInv, WindowInv
    <3>2. s < b \/ s >= b + n
      BY <1>0, <2>2, <3>1
    <3>3. Ago(b + n, s) = Ago(b, s) + n /\ Ago(b, s) \in Int
      BY <1>0, <3>1, <3>2 DEF Ago
    <3> QED BY <1>0, <1>1, <1>2, <3>1, <3>3
  <2> QED BY <1>6, <2>1, <2>2
<1>10. PendingIds' = PendingIds \cup itemIndex .. itemIndex + n - 1
  <2>1. {waiting'[s].id : s \in used} = itemIndex .. itemIndex + n - 1
    <3>1. \A s \in used : waiting'[s].id = itemIndex + (s - b)
      BY <1>3, <1>4
    <3>2. \A s \in used : waiting'[s].id \in itemIndex .. itemIndex + n - 1
      BY <1>0, <3>1
    <3>3. ASSUME NEW x \in itemIndex .. itemIndex + n - 1 PROVE \E s \in used : waiting'[s].id = x
      <4>1. b + (x - itemIndex) \in used /\ itemIndex + ((b + (x - itemIndex)) - b) = x
        BY <1>0
      <4> QED BY <3>1, <4>1
    <3> QED BY <3>2, <3>3
  <2>2. {waiting'[s].id : s \in PendingSlots} = PendingIds
    BY <1>3, <1>7 DEF PendingIds, PendingSlots
  <2> QED BY <1>6, <2>1, <2>2 DEF PendingIds
<1>11. CountInv' /\ FreshAlone
  <2> DEFINE fresh == itemIndex .. itemIndex + n - 1
  <2>1. /\ notified \cup PendingIds = 0 .. itemIndex - 1 /\ notified \cap PendingIds = {}
    BY DEF IdsInv, CountInv
  <2>2. /\ 0 .. itemIndex + n - 1 = (0 .. itemIndex - 1) \cup fresh
        /\ (0 .. itemIndex - 1) \cap fresh = {}
    BY <1>0
  <2>3. \A x \in 0 .. itemIndex - 1 : ~(x >= itemIndex)
    BY <1>0
  <2>4. PendingIds' = PendingIds \cup fresh /\ notified' = notified /\ itemIndex' = itemIndex + n
    BY <1>2, <1>10
  <2> HIDE DEF fresh
  <2>5. CountInv'
    <3>1. /\ notified' \cup PendingIds' = (0 .. itemIndex - 1) \cup fresh
          /\ notified' \cap PendingIds' = {}
      BY <2>1, <2>2, <2>4
    <3>2. itemIndex' - 1 = itemIndex + n - 1
      BY <1>0, <2>4
    <3> QED BY <2>2, <3>1, <3>2 DEF CountInv
  <2> QED BY <2>1, <2>3, <2>4, <2>5 DEF FreshAlone
<1> QED BY <1>9, <1>11 DEF IdsInv

\* The waiter of a slot is resolved, if it is still pending.
LEMMA WaiterResolved ==
  ASSUME Types, StandInv, IdsInv, NEW s \in Slot, NEW r \in Responses,
         \A t \in Slot : waiting'[t].cmd = waiting[t].cmd /\ waiting'[t].id = waiting[t].id,
         UNCHANGED senderVars, itemIndex' = itemIndex,
         IF Pending(waiting[s].cmd)
         THEN /\ future' = [future EXCEPT ![waiting[s].cmd] = r]
              /\ notified' = notified \cup {waiting[s].id}
         ELSE UNCHANGED <<future, notified>>
  PROVE  IdsInv' /\ FreshAlone
<1>1. Edge' = Edge
  BY DEF senderVars, Edge, Registered
<1>2. CASE ~Pending(waiting[s].cmd)
  <2>1. \A t \in Slot : (Pending(waiting[t].cmd))' <=> Pending(waiting[t].cmd)
    BY <1>2 DEF Pending
  <2> QED BY <1>1, <1>2, <2>1, IdsKept
<1>3. CASE Pending(waiting[s].cmd)
  <2>1. s \in PendingSlots
    BY <1>3 DEF PendingSlots
  <2>2. ASSUME NEW t \in Slot
        PROVE  (Pending(waiting[t].cmd))' <=> Pending(waiting[t].cmd) /\ t # s
    <3>1. waiting[t].cmd \in Cmd \cup {NoCmd} /\ waiting[s].cmd \in Cmd /\ NoCmd \notin Cmd
      BY <1>3, WaiterType, DriverAssumption DEF Pending
    <3>2. waiting[t].cmd = waiting[s].cmd => t = s
      BY <3>1 DEF StandInv, PlacesInv
    <3>3. /\ future'[waiting[s].cmd] = r /\ r # "pending"
          /\ \A c \in Cmd : c # waiting[s].cmd => future'[c] = future[c]
      BY <1>3, <3>1 DEF Types, FutureTypes, Responses
    <3> QED BY <3>1, <3>2, <3>3 DEF Pending
  <2>3. PendingSlots' = PendingSlots \ {s}
    BY <2>2 DEF PendingSlots
  <2> QED BY <1>1, <1>3, <2>1, <2>3, IdsResolved
<1> QED BY <1>2, <1>3

\* Commands are refused while nobody waits.
LEMMA IdsRefused ==
  ASSUME Types, IdsInv, NewInv, PendingSlots = {}, NothingWoken, SlotsKept,
         NEW S, IsFiniteSet(S), Refuse(S)
  PROVE  IdsInv' /\ FreshAlone
<1>1. PendingSlots' = {} /\ PendingIds = {}
  BY NoneShrink DEF PendingIds
<1>2. Cardinality(S) \in Nat
  BY FS_CardinalityType
<1>3. /\ itemIndex' = itemIndex + Cardinality(S)
      /\ notified' = notified \cup PendingIds \cup itemIndex .. itemIndex + Cardinality(S) - 1
  BY <1>1 DEF Refuse
<1> QED BY <1>1, <1>2, <1>3, IdsCleared

\* A batch fails with everything that waits, or while nobody waits.
LEMMA IdsFailed ==
  ASSUME Types, IdsInv, NEW drain \in BOOLEAN, FailBatch(drain), drain \/ PendingSlots = {}
  PROVE  IdsInv' /\ FreshAlone
<1> DEFINE failed == {c \in Rng(batch) : future[c] = "pending"}
                        \ (IF drain THEN PendingWaiters ELSE {})
           count == Cardinality(failed)
<1>1. /\ notified' = notified \cup (IF drain THEN PendingIds ELSE {})
                              \cup itemIndex .. itemIndex + count - 1
      /\ itemIndex' = itemIndex + count
  BY DEF FailBatch
<1>2. count \in Nat
  <2>1. IsFiniteSet(Rng(batch)) /\ failed \in SUBSET Rng(batch)
    BY RngFinite DEF Types, BatchTypes
  <2> QED BY <2>1, FS_Subset, FS_CardinalityType
<1> HIDE DEF count
<1>3. (IF drain THEN PendingIds ELSE {}) = PendingIds
  BY DEF PendingIds
<1>4. PendingSlots' = {}
  <2>1. CASE drain
    <3>1. \A s \in Slot : waiting'[s].cmd = NoCmd
      BY <2>1 DEF FailBatch, DrainTimers, NoWaiter
    <3> QED BY <3>1 DEF PendingSlots, Pending
  <2>2. CASE ~drain
    <3>1. waiting' = waiting
      BY <2>2 DEF FailBatch, timerVars
    <3>2. \A c \in Cmd : future'[c] = "pending" => future[c] = "pending"
      BY <2>2 DEF FailBatch, Resolve
    <3>3. \A s \in Slot : waiting[s].cmd \in Cmd \cup {NoCmd}
      BY WaiterType
    <3> QED BY <2>2, <3>1, <3>2, <3>3 DEF PendingSlots, Pending
  <2> QED BY <2>1, <2>2
<1> QED BY <1>1, <1>2, <1>3, <1>4, IdsCleared

\* A step of the driver on a live link: no id is lost, and what is given out
\* afresh and told at once overtakes nobody.
LEMMA IdsStep ==
  ASSUME Types, Types', IndexInv, IndexInv', CallInv, NewInv, ResyncInv, SlotInv, StandInv, IdsInv,
         connected, connected', synced,
         CancellableCall = {}, ~MayDeinit, deinit = "no", [Next]_vars
  PROVE  IdsInv' /\ FreshAlone /\ synced'
<1>1. CASE UNCHANGED vars
  <2>1. UNCHANGED <<waiting, future, itemIndex, notified, pc, batchStart, nextIndex, synced>>
    BY <1>1 DEF vars, timerVars, senderVars, idVars, linkVars
  <2> QED BY <2>1, IdsKept DEF Pending, Edge, Registered
<1>2. ASSUME NEW k \in Call, Caller(k) \/ CancelCall(k) PROVE IdsInv' /\ FreshAlone /\ synced'
  <2>0. UNCHANGED <<waiting, pc, batchStart, nextIndex, synced>>
    BY <1>2 DEF Caller, CallUnavailable, CallStart, AcquireLock, SequenceRefused,
                SequenceBlocks, Put, Gathered, CancelCall, timerVars, senderVars, linkVars
  <2>1. CASE CallStart(k) \/ AcquireLock(k) \/ SequenceBlocks(k) \/ Gathered(k)
    <3>1. UNCHANGED <<future, itemIndex, notified>>
      BY <2>1 DEF CallStart, AcquireLock, SequenceBlocks, Gathered, idVars
    <3> QED BY <2>0, <3>1, IdsKept DEF Pending, Edge, Registered
  <2>2. CASE Put(k)
    <3>0. PICK c \in Cmd : c = CurrentCmd(k)
      BY CurrentCmdType
    <3>1. future[c] = "new" /\ future' = [future EXCEPT ![c] = "pending"]
      BY <2>2, <3>0, CurrentIsNew DEF Put
    <3>2. \A s \in Slot : waiting[s].cmd # c
      BY <3>1 DEF NewInv
    <3>3. \A s \in Slot : (Pending(waiting[s].cmd))' <=> Pending(waiting[s].cmd)
      BY <2>0, <3>1, <3>2, WaiterType DEF Pending, Types, FutureTypes
    <3>4. UNCHANGED <<itemIndex, notified>>
      BY <2>2 DEF Put, idVars
    <3> QED BY <2>0, <3>3, <3>4, IdsKept DEF Edge, Registered
  <2>3. CASE CallUnavailable(k) \/ SequenceRefused(k)
    <3>1. PICK S : IsFiniteSet(S) /\ Refuse(S)
      <4>1. CmdsOf[k] \in Seq(Cmd)
        BY DriverAssumption
      <4>2. IsFiniteSet(Rng(CmdsOf[k])) /\ IsFiniteSet({CurrentCmd(k)})
        BY <4>1, RngFinite, FS_Singleton, Zenon
      <4> QED BY <2>3, <4>2 DEF CallUnavailable, SequenceRefused
    <3>2. PendingSlots = {}
      BY <2>3 DEF CallUnavailable, SequenceRefused, GatewayUnavailable, ResyncInv
    <3>3. NothingWoken /\ SlotsKept
      BY <2>0, <3>1 DEF Refuse, Resolve, NothingWoken, SlotsKept
    <3> QED BY <2>0, <3>1, <3>2, <3>3, IdsRefused
  <2>4. ~CancelCall(k)
    BY DEF CancelCall
  <2> QED BY <1>2, <2>1, <2>2, <2>3, <2>4 DEF Caller
<1>3. CASE Sender
  <2>1. CASE SenderTop \/ SenderGet \/ SenderGetTimeout \/ SlotFree \/ SendReset
    <3>1. UNCHANGED <<waiting, future, itemIndex, notified>> /\ synced'
      BY <2>1 DEF SenderTop, SenderGet, SenderGetTimeout, SlotFree, SendReset, timerVars,
                  idVars, linkVars
    <3>2. ~Registered /\ ~Registered' /\ batchStart' = batchStart
      <4>1. pc \in {"top", "get"} /\ batch = <<>> => nextIndex = batchStart
        <5>1. Len(<<>>) = 0 /\ nextIndex \in Int /\ batchStart \in Int
          BY QueueSizeType DEF Types, BatchTypes
        <5> QED BY <5>1 DEF IndexInv
      <4> QED
        BY <2>1, <4>1 DEF SenderTop, SenderGet, SenderGetTimeout, SlotFree, SendReset, Registered
    <3> QED BY <3>1, <3>2, IdsKept DEF Pending, Edge
  <2>2. CASE SendUnavailable
    <3>1. FailBatch(FALSE) /\ synced'
      BY <2>2 DEF SendUnavailable
    <3>2. PendingSlots = {}
      BY <2>2 DEF SendUnavailable, GatewayUnavailable, ResyncInv
    <3> QED BY <3>1, <3>2, IdsFailed
  <2>3. CASE SendWrite
    <3>1. /\ pc = "cooldown" /\ Registered' /\ Register(batchStart') /\ ~Registered
          /\ UNCHANGED <<batch, batchStart, nextIndex, synced>>
      BY <2>3 DEF SendWrite, Registered, linkVars
    <3>2. batchStart' = Edge
      BY <3>1 DEF Edge
    <3>3. \A s \in batchStart' .. nextIndex' - 1 : s \notin PendingSlots
      BY <3>1 DEF SlotInv, PendingSlots
    <3>4. \A c \in Rng(batch) : Pending(c)
      BY <3>1 DEF StandInv
    <3> QED BY <3>1, <3>2, <3>3, <3>4, IdsRegistered
  <2>4. CASE ResetPublished
    <3>1. /\ pc = "resetting" /\ Registered' /\ Register(batchStart') /\ ~Registered
          /\ UNCHANGED <<batch, synced>>
      BY <2>4 DEF ResetPublished, Registered
    <3>2. PendingSlots = {}
      BY <3>1 DEF ResyncInv
    <3>3. \A c \in Rng(batch) : Pending(c)
      BY <3>1 DEF StandInv
    <3> QED BY <3>1, <3>2, <3>3, IdsRegistered
  <2>5. CASE WritePublished
    <3>1. UNCHANGED <<waiting, future, itemIndex, notified, synced>>
      BY <2>5 DEF WritePublished, timerVars, idVars, linkVars
    <3>2. Registered /\ ~Registered' /\ batchStart' = IF nextIndex = QueueSize THEN 0 ELSE nextIndex
      BY <2>5 DEF WritePublished, Finish, Registered
    <3> QED BY <3>1, <3>2, IdsKept DEF Pending, Edge
  <2>6. CASE PublishFailed
    <3>1. FailBatch(TRUE) /\ synced'
      BY <2>6 DEF PublishFailed, linkVars
    <3> QED BY <3>1, IdsFailed
  <2> QED BY <1>3, <2>1, <2>2, <2>3, <2>4, <2>5, <2>6 DEF Sender
<1>4. ASSUME NEW s \in Slot, Timeout(s) \/ OrphanTimeout(s) PROVE IdsInv' /\ FreshAlone /\ synced'
  <2>1. /\ \A t \in Slot : waiting'[t].cmd = waiting[t].cmd /\ waiting'[t].id = waiting[t].id
        /\ UNCHANGED senderVars /\ itemIndex' = itemIndex /\ synced'
        /\ IF Pending(waiting[s].cmd)
           THEN /\ future' = [future EXCEPT ![waiting[s].cmd] = "no_response"]
                /\ notified' = notified \cup {waiting[s].id}
           ELSE UNCHANGED <<future, notified>>
    <3>1. /\ UNCHANGED <<senderVars, itemIndex, linkVars>> /\ TimeoutCallback(s)
          /\ waiting' = waiting \/ waiting' = [waiting EXCEPT ![s].armed = FALSE]
      BY <1>4 DEF Timeout, OrphanTimeout
    <3>2. \A t \in Slot : waiting'[t].cmd = waiting[t].cmd /\ waiting'[t].id = waiting[t].id
      BY <3>1 DEF Types, SlotTypes, Waiters
    <3> QED BY <3>1, <3>2 DEF TimeoutCallback, linkVars
  <2>2. "no_response" \in Responses
    BY DEF Responses
  <2> QED BY <2>1, <2>2, WaiterResolved
<1>5. CASE Reply
  <2> DEFINE s == Head(rpc).slot
  <2>1. s \in Slot
    BY <1>5, RpcType, 1 \in 1 .. Len(rpc), Head(rpc) = rpc[1] DEF Reply, Types, GwTypes
  <2> HIDE DEF s
  <2>2. /\ \A t \in Slot : waiting'[t].cmd = waiting[t].cmd /\ waiting'[t].id = waiting[t].id
        /\ UNCHANGED senderVars /\ itemIndex' = itemIndex /\ synced'
        /\ IF Pending(waiting[s].cmd)
           THEN /\ future' = [future EXCEPT ![waiting[s].cmd] = "answered"]
                /\ notified' = notified \cup {waiting[s].id}
           ELSE UNCHANGED <<future, notified>>
    BY <1>5, <2>1 DEF Reply, Types, SlotTypes, Waiters, linkVars, s
  <2>3. "answered" \in Responses
    BY DEF Responses
  <2> QED BY <2>1, <2>2, <2>3, WaiterResolved
<1>6. CASE ReportUnreachable
  <2>1. /\ \A s \in Slot : waiting'[s].cmd = NoCmd
        /\ notified' = notified \cup PendingIds /\ itemIndex' = itemIndex /\ synced'
    BY <1>6 DEF ReportUnreachable, DrainPending, DrainTimers, NoWaiter
  <2>2. PendingSlots' = {}
    BY <2>1 DEF PendingSlots, Pending
  <2>3. itemIndex' = itemIndex + 0 /\ itemIndex .. itemIndex + 0 - 1 = {}
    BY <2>1 DEF Types, IdTypes
  <2> QED BY <2>1, <2>2, <2>3, IdsCleared
<1>7. CASE ReplyLost \/ ReportReachable
  <2>1. UNCHANGED <<waiting, future, itemIndex, notified, pc, batchStart, nextIndex, synced>>
    BY <1>7 DEF ReplyLost, ReportReachable, timerVars, senderVars, idVars, linkVars
  <2> QED BY <2>1, IdsKept DEF Pending, Edge, Registered
<1>8. ~ConnectionLost /\ ~ConnectionRestored /\ ~Deinitialize /\ ~Deinitialized
  BY DEF ConnectionLost, ConnectionRestored, Deinitialize, Deinitialized
<1> QED BY <1>1, <1>2, <1>3, <1>4, <1>5, <1>6, <1>7, <1>8 DEF Next, Environment

-----------------------------------------------------------------------------
(* What the listeners have heard *)

\* Listeners have heard all ids up to the cursor; what is kept back waits behind a gap.
HeardInv ==
    /\ dispatched = 0 .. lastItemSequenceId
    /\ \A h \in Held : h > lastItemSequenceId + 1
    /\ notified = dispatched \cup Held \cup Rng(inbox)

\* An id on its way to notify_command is near the cursor, or comes after all
\* that precede it.
InboxInv ==
    \A i \in 1 .. Len(inbox) :
        \/ inbox[i] <= lastItemSequenceId + QueueSize
        \/ \A x \in lastItemSequenceId + 1 .. inbox[i] - 1 :
              x \in Held \/ \E j \in 1 .. i - 1 : inbox[j] = x

\* An order of a finite set has all its members.
LEMMA OrderHasAll ==
  ASSUME NEW S, IsFiniteSet(S), NEW q \in SetToSeqs(S), NEW x \in S
  PROVE  \E i \in 1 .. Len(q) : q[i] = x
<1> DEFINE n == Cardinality(S)
<1>1. n \in Nat
  BY FS_CardinalityType
<1>2. q \in [1 .. n -> S] /\ \A i, j \in 1 .. n : i # j => q[i] # q[j]
  BY DEF SetToSeqs
<1>3. Cardinality(1 .. n) = n
  <2> HIDE DEF n
  <2>1. Cardinality(1 .. n) = IF 1 > n THEN 0 ELSE n - 1 + 1
    BY <1>1, FS_Interval
  <2> QED BY <1>1, <2>1
<1>4. q \in Injection(1 .. n, S)
  BY <1>2 DEF Injection, IsInjective
<1>5. q \in Surjection(1 .. n, S)
  BY <1>3, <1>4, FS_Injection
<1>6. \E i \in 1 .. n : q[i] = x
  BY <1>5 DEF Surjection
<1>7. Len(q) = n
  <2> HIDE DEF n
  <2> QED BY <1>1, <1>2
<1> QED BY <1>6, <1>7

\* While listeners are behind, the id they wait for is in a slot of the last round.
LEMMA CursorInWindow ==
  ASSUME Types, ListInv, IdsInv, HeardInv, inbox = <<>>, NEW y \in 0 .. itemIndex - 1
  PROVE  y <= lastItemSequenceId + QueueSize
<1> DEFINE l == lastItemSequenceId
<1>0. l \in Int /\ l >= -1 /\ itemIndex \in Nat /\ QueueSize \in Nat /\ QueueSize > 0
  BY QueueSizeType DEF ListInv, Types, IdTypes
<1>1. CASE l + 1 >= itemIndex
  BY <1>0, <1>1
<1>2. CASE l + 1 < itemIndex
  <2>1. l + 1 \in notified \cup PendingIds
    BY <1>0, <1>2 DEF IdsInv, CountInv
  <2>2. l + 1 \notin notified
    <3>1. l + 1 \notin dispatched /\ l + 1 \notin Held
      BY <1>0 DEF HeardInv
    <3>2. Rng(inbox) = {}
      BY RngEmpty
    <3> QED BY <3>1, <3>2 DEF HeardInv
  <2>3. PICK s \in PendingSlots : l + 1 = waiting[s].id
    BY <2>1, <2>2 DEF PendingIds
  <2>4. l + 1 = itemIndex - Ago(Edge, s)
    BY <2>3 DEF IdsInv, WindowInv
  <2>5. Ago(Edge, s) <= QueueSize /\ Ago(Edge, s) \in Int
    <3>1. Edge \in 0 .. QueueSize /\ s \in 0 .. QueueSize - 1
      BY EdgeType, QueueSizeType DEF PendingSlots
    <3> QED BY <1>0, <3>1 DEF Ago
  <2> HIDE DEF l
  <2>6. l + QueueSize >= itemIndex - 1
    BY <1>0, <2>4, <2>5
  <2> QED BY <1>0, <2>6 DEF l
<1> QED BY <1>0, <1>1, <1>2

\* One list after the other, position by position.
LEMMA JoinedAt ==
  ASSUME NEW a \in Seq(Nat), NEW b \in Seq(Nat), NEW q, q = a \o b
  PROVE  /\ Len(a) \in Nat /\ Len(b) \in Nat
         /\ Len(q) = Len(a) + Len(b)
         /\ \A i \in 1 .. Len(a) : q[i] = a[i]
         /\ \A i \in 1 .. Len(b) : q[Len(a) + i] = b[i]
<1>1. /\ Len(a \o b) = Len(a) + Len(b)
      /\ \A i \in 1 .. Len(a) : (a \o b)[i] = a[i]
      /\ \A i \in 1 .. Len(b) : (a \o b)[Len(a) + i] = b[i]
  BY ConcatAt
<1>2. Len(a) \in Nat /\ Len(b) \in Nat
  OBVIOUS
<1> QED BY ONLY q = a \o b, <1>1, <1>2, Zenon

\* What a driver step hands over on a live link.
LEMMA DriverHands ==
  ASSUME FeedsInv, FeedsInv', IdsInv, IdsInv', FreshAlone, HeardInv, DriverStep
  PROVE  HeardInv' /\ InboxInv'
<1>0. TypeOK /\ TypeOK' /\ Next /\ inbox = <<>> /\ Types
  <2>1. Types /\ Types'
    BY DEF FeedsInv, TInv
  <2> QED BY <2>1, TypeParts, PTL DEF DriverStep
<1> DEFINE new == notified' \ notified
           A == new \cap PendingIds
           B == new \ PendingIds
<1>1. IsFiniteSet(new) /\ notified' \subseteq Nat /\ notified \subseteq notified'
  BY <1>0, NewIdsFinite, NotifiedGrows
<1>2. /\ A \in SUBSET Nat /\ B \in SUBSET Nat /\ A \cup B = new
      /\ IsFiniteSet(A) /\ IsFiniteSet(B)
  BY <1>1, FS_Subset
<1>3. PICK drained \in SetToSeqs(A), fresh \in SetToSeqs(B) :
         Ascending(fresh) /\ inbox' = drained \o fresh
  BY DEF DriverStep
<1>4. /\ Held' = Held /\ dispatched' = dispatched /\ lastItemSequenceId' = lastItemSequenceId
      /\ ListInv
  BY DEF FeedsInv, ListInv, Held, DriverStep, callbackVars
<1> HIDE DEF A, B
<1>5. /\ drained \in Seq(Nat) /\ OnceEach(drained, A)
      /\ fresh \in Seq(Nat) /\ OnceEach(fresh, B)
  BY <1>2, InSomeOrder
<1>6. /\ Len(drained) \in Nat /\ Len(fresh) \in Nat
      /\ Len(inbox') = Len(drained) + Len(fresh)
      /\ \A i \in 1 .. Len(drained) : inbox'[i] = drained[i]
      /\ \A i \in 1 .. Len(fresh) : inbox'[Len(drained) + i] = fresh[i]
  <2>1. drained \in Seq(Nat) /\ fresh \in Seq(Nat) /\ inbox' = drained \o fresh
    BY <1>3, <1>5
  <2> QED BY ONLY <2>1, JoinedAt
<1>7. ASSUME NEW i \in 1 .. Len(inbox')
      PROVE  \/ i \in 1 .. Len(drained) /\ inbox'[i] = drained[i]
             \/ \E p \in 1 .. Len(fresh) : i = Len(drained) + p /\ inbox'[i] = fresh[p]
  <2>1. i \in 1 .. Len(drained) \/ i - Len(drained) \in 1 .. Len(fresh)
    BY <1>6
  <2>2. CASE i - Len(drained) \in 1 .. Len(fresh)
    <3>1. PICK p \in 1 .. Len(fresh) : p = i - Len(drained)
      BY <2>2
    <3>2. Len(drained) + p = i
      BY <1>6, <3>1
    <3> QED BY <1>6, <3>2, Zenon
  <2> QED BY <1>6, <2>1, <2>2
<1>8. \A x \in A : \E i \in 1 .. Len(drained) : drained[i] = x
  BY <1>2, <1>3, OrderHasAll
<1>9. \A x \in B : \E i \in 1 .. Len(fresh) : fresh[i] = x
  BY <1>2, <1>3, OrderHasAll
<1>10. (\A i \in 1 .. Len(drained) : i \in 1 .. Len(inbox'))
       /\ \A p \in 1 .. Len(fresh) : Len(drained) + p \in 1 .. Len(inbox')
  BY <1>6
<1>11. Rng(inbox') = new
  <2>1. ASSUME NEW i \in 1 .. Len(inbox') PROVE inbox'[i] \in new
    <3>1. CASE i \in 1 .. Len(drained) /\ inbox'[i] = drained[i]
      BY <1>2, <1>5, <3>1 DEF OnceEach
    <3>2. CASE \E p \in 1 .. Len(fresh) : i = Len(drained) + p /\ inbox'[i] = fresh[p]
      BY <1>2, <1>5, <3>2 DEF OnceEach
    <3> QED BY <1>7, <3>1, <3>2
  <2>2. ASSUME NEW x \in new PROVE \E i \in 1 .. Len(inbox') : inbox'[i] = x
    <3>1. CASE x \in A
      <4>1. PICK i \in 1 .. Len(drained) : drained[i] = x
        BY <1>8, <3>1
      <4> QED BY <1>6, <1>10, <4>1, Zenon
    <3>2. CASE x \in B
      <4>1. PICK i \in 1 .. Len(fresh) : fresh[i] = x
        BY <1>9, <3>2
      <4> QED BY <1>6, <1>10, <4>1, Zenon
    <3> QED BY <1>2, <3>1, <3>2
  <2> QED BY <2>1, <2>2 DEF Rng
<1>12. notified = dispatched \cup Held
  BY <1>0, RngEmpty DEF HeardInv
<1>13. HeardInv'
  <2>1. notified' = dispatched' \cup Held' \cup Rng(inbox')
    BY <1>1, <1>4, <1>11, <1>12
  <2> QED BY <1>4, <2>1 DEF HeardInv, Held
<1>14. InboxInv'
  <2> SUFFICES ASSUME NEW i \in 1 .. Len(inbox'), ~(inbox'[i] <= lastItemSequenceId + QueueSize),
                      NEW x \in lastItemSequenceId + 1 .. inbox'[i] - 1
               PROVE  x \in Held \/ \E j \in 1 .. i - 1 : inbox'[j] = x
    BY <1>4 DEF InboxInv
  <2>0. /\ itemIndex \in Nat /\ itemIndex' \in Nat /\ lastItemSequenceId \in Int
        /\ lastItemSequenceId >= -1
    BY <1>0, <1>4 DEF TypeOK, ListInv
  <2>1. inbox'[i] \in new /\ inbox'[i] \in Nat
    BY <1>1, <1>11 DEF Rng
  <2>2. inbox'[i] \notin 0 .. itemIndex - 1
    BY <1>0, <1>4, CursorInWindow
  <2>3. inbox'[i] >= itemIndex
    BY <2>0, <2>1, <2>2
  <2>4. notified' = 0 .. itemIndex' - 1
    <3>1. PendingSlots' = {}
      BY <2>1, <2>3 DEF FreshAlone
    <3>2. PendingIds' = {}
      BY <3>1 DEF PendingIds
    <3> QED BY <3>2 DEF IdsInv, CountInv
  <2>5. x \in notified'
    <3>1. inbox'[i] \in 0 .. itemIndex' - 1
      BY <2>1, <2>4
    <3>2. x \in Int /\ x >= 0 /\ x < inbox'[i]
      BY <2>0, <2>1
    <3>3. \A n \in Nat : \A y \in 0 .. n - 1 : \A z \in Int : z >= 0 /\ z < y => z \in 0 .. n - 1
      OBVIOUS
    <3>4. x \in 0 .. itemIndex' - 1
      BY ONLY <2>0, <3>1, <3>2, <3>3, Zenon
    <3> QED BY <2>4, <3>4, Zenon
  <2>6. x \notin dispatched
    BY <2>0 DEF HeardInv
  <2>7. inbox'[i] \in B
    <3>1. PendingIds \subseteq 0 .. itemIndex - 1
      BY DEF IdsInv, CountInv
    <3> QED BY <2>1, <2>2, <3>1 DEF B
  <2>8. \E p \in 1 .. Len(fresh) : i = Len(drained) + p /\ inbox'[i] = fresh[p]
    <3>1. ~(i \in 1 .. Len(drained) /\ inbox'[i] = drained[i])
      BY <1>5, <2>7 DEF OnceEach, A, B
    <3> QED BY <1>7, <3>1
  <2>9. PICK p \in 1 .. Len(fresh) : i = Len(drained) + p /\ inbox'[i] = fresh[p]
    BY <2>8
  <2>10. CASE x \in A
    <3>1. PICK j \in 1 .. Len(drained) : drained[j] = x
      BY <1>8, <2>10
    <3>2. j \in 1 .. i - 1 /\ inbox'[j] = x
      BY <1>6, <2>9, <3>1
    <3> QED BY <3>2
  <2>11. CASE x \in B
    <3>1. PICK r \in 1 .. Len(fresh) : fresh[r] = x
      BY <1>9, <2>11
    <3>2. fresh[r] < fresh[p]
      BY <2>0, <2>1, <2>9, <3>1
    <3>3. r < p
      <4>1. fresh[p] \in Nat /\ fresh[r] \in Nat
        BY <1>5
      <4>2. ~(p < r)
        BY <3>2, <4>1, <1>3 DEF Ascending
      <4> QED BY <3>2, <4>1, <4>2
    <3>4. Len(drained) + r \in 1 .. i - 1 /\ inbox'[Len(drained) + r] = x
      BY <1>6, <2>9, <3>1, <3>3
    <3> QED BY <3>4
  <2> QED BY <1>2, <1>12, <2>5, <2>6, <2>10, <2>11
<1> QED BY <1>13, <1>14

\* notify_command on a live link: the gap never outgrows the queue, so nothing
\* is given up; what it hears or keeps back leaves no id out.
LEMMA NotifyHears ==
  ASSUME FeedsInv, HeardInv, InboxInv, NotifyStep
  PROVE  HeardInv' /\ InboxInv'
<1> DEFINE id == Head(inbox)
           l  == lastItemSequenceId
<1>0. /\ l \in Int /\ l >= -1 /\ QueueSize \in Nat /\ QueueSize > 0 /\ ListInv
      /\ Held \subseteq Nat
  <2>1. ListInv
    BY DEF FeedsInv
  <2>2. Held \subseteq Nat
    BY <2>1, RangeIs DEF ListInv, Held
  <2> QED BY <2>1, <2>2, QueueSizeType DEF ListInv
<1>1. inbox \in Seq(Nat) /\ inbox # <<>> /\ inbox' = Tail(inbox) /\ notified' = notified
  BY DEF FeedsInv, FeedInv, NotifyStep, vars, idVars
<1>2. /\ Len(inbox) \in Nat /\ 1 \in 1 .. Len(inbox) /\ id = inbox[1] /\ id \in Nat
      /\ Len(inbox') = Len(inbox) - 1
      /\ \A i \in 1 .. Len(inbox) - 1 : inbox'[i] = inbox[i + 1]
      /\ \A i \in 1 .. Len(inbox) : inbox[i] \in Nat
  BY <1>1
<1>3. id \notin Held /\ id \notin dispatched
  BY <1>2 DEF FeedsInv, FeedInv
<1>4. Rng(inbox) = Rng(inbox') \cup {id}
  BY <1>1, RngTail
<1>5. /\ dispatched = 0 .. l /\ \A h \in Held : h > l + 1
      /\ notified = dispatched \cup Held \cup Rng(inbox)
  BY DEF HeardInv
<1> HIDE DEF id
<1>6. id > l
  BY <1>0, <1>2, <1>3, <1>5
<1>7. ASSUME NEW i \in 1 .. Len(inbox')
      PROVE  /\ inbox'[i] \in Nat
             /\ \/ inbox'[i] <= l + QueueSize
                \/ \A x \in l + 1 .. inbox'[i] - 1 :
                      x = id \/ x \in Held \/ \E j \in 1 .. i - 1 : inbox'[j] = x
  <2>1. i + 1 \in 1 .. Len(inbox) /\ inbox'[i] = inbox[i + 1] /\ i \in Nat
    BY <1>2
  <2>2. \/ inbox[i + 1] <= l + QueueSize
        \/ \A x \in l + 1 .. inbox[i + 1] - 1 :
              x \in Held \/ \E j \in 1 .. (i + 1) - 1 : inbox[j] = x
    BY <2>1 DEF InboxInv
  <2>3. ASSUME NEW x, NEW j \in 1 .. (i + 1) - 1, inbox[j] = x
        PROVE  x = id \/ \E m \in 1 .. i - 1 : inbox'[m] = x
    <3>1. CASE j = 1
      BY <1>2, <2>3, <3>1
    <3>2. CASE j # 1
      <4>1. j - 1 \in 1 .. i - 1 /\ j - 1 \in 1 .. Len(inbox) - 1 /\ (j - 1) + 1 = j
        BY <1>2, <2>1, <3>2
      <4>2. inbox'[j - 1] = inbox[(j - 1) + 1]
        BY <1>2, <4>1
      <4> QED BY <2>3, <4>1, <4>2
    <3> QED BY <3>1, <3>2
  <2> QED BY <1>2, <2>1, <2>2, <2>3
<1>8. ~Traffic!NotifyFlush(id)
  <2> SUFFICES ASSUME id > l + QueueSize PROVE FALSE
    BY DEF Traffic!NotifyFlush
  <2>1. l + 1 \in l + 1 .. inbox[1] - 1 /\ ~(inbox[1] <= l + QueueSize)
    BY <1>0, <1>2
  <2>2. l + 1 \in Held \/ \E j \in 1 .. 1 - 1 : inbox[j] = l + 1
    BY <1>2, <2>1 DEF InboxInv
  <2>3. l + 1 \notin Held
    BY <1>0, <1>5
  <2> QED BY <2>2, <2>3
<1>9. CASE Traffic!NotifyNext(id)
  <2>1. id = l + 1 /\ Traffic!Order!HearNext(id)
    BY <1>0, <1>2, <1>3, <1>9, NextSimulates DEF Traffic!NotifyNext
  <2>2. PICK m \in id .. id + QueueSize :
            /\ id + 1 .. m \subseteq Held /\ m + 1 \notin Held
            /\ lastItemSequenceId' = m
            /\ dispatched' = dispatched \cup id .. m
            /\ Held' = {h \in Held : h > m}
    BY <2>1 DEF Traffic!Order!HearNext, Held
  <2>3. m \in Int /\ m >= id /\ m > l
    BY <1>0, <1>2, <2>1
  <2>4. dispatched' = 0 .. m
    BY <1>0, <1>5, <2>1, <2>2, <2>3
  <2>5. \A h \in Held' : h > m + 1
    BY <1>0, <2>2, <2>3
  <2>6. notified' = dispatched' \cup Held' \cup Rng(inbox')
    <3>1. \A h \in Held : h \in Held' \/ h \in dispatched'
      BY <1>0, <2>2, <2>3, <2>4
    <3>2. \A x \in id .. m : x = id \/ x \in Held
      BY <1>2, <2>2, <2>3
    <3>3. id \in id .. m /\ Held' \subseteq Held
      BY <1>2, <2>2, <2>3
    <3> QED BY <1>1, <1>4, <1>5, <2>2, <3>1, <3>2, <3>3
  <2>7. InboxInv'
    <3> SUFFICES ASSUME NEW i \in 1 .. Len(inbox')
                 PROVE  \/ inbox'[i] <= m + QueueSize
                        \/ \A x \in m + 1 .. inbox'[i] - 1 :
                              x \in Held' \/ \E j \in 1 .. i - 1 : inbox'[j] = x
      BY <2>2 DEF InboxInv
    <3>1. CASE inbox'[i] <= l + QueueSize
      BY <1>0, <1>7, <2>3, <3>1
    <3>2. CASE \A x \in l + 1 .. inbox'[i] - 1 :
                  x = id \/ x \in Held \/ \E j \in 1 .. i - 1 : inbox'[j] = x
      <4> SUFFICES ASSUME NEW x \in m + 1 .. inbox'[i] - 1
                   PROVE  x \in Held' \/ \E j \in 1 .. i - 1 : inbox'[j] = x
        OBVIOUS
      <4>1. x \in l + 1 .. inbox'[i] - 1 /\ x > m /\ x # id
        BY <1>0, <1>2, <1>7, <2>3
      <4> QED BY <2>2, <3>2, <4>1
    <3> QED BY <1>7, <3>1, <3>2
  <2> QED BY <2>2, <2>4, <2>5, <2>6, <2>7 DEF HeardInv
<1>10. CASE Traffic!NotifyWait(id)
  <2>1. /\ id # l + 1 /\ dispatched' = dispatched /\ lastItemSequenceId' = l
        /\ Traffic!Order!Hold(id)
    BY <1>0, <1>2, <1>3, <1>10, WaitSimulates DEF Traffic!NotifyWait
  <2>2. Held' = Held \cup {id}
    BY <2>1 DEF Traffic!Order!Hold, Held
  <2>3. id > l + 1
    BY <1>0, <1>2, <1>6, <2>1
  <2>4. HeardInv'
    BY <1>1, <1>4, <1>5, <2>1, <2>2, <2>3 DEF HeardInv
  <2>5. InboxInv'
    BY <1>7, <2>1, <2>2 DEF InboxInv
  <2> QED BY <2>4, <2>5
<1>11. Traffic!notify_command(id)
  BY DEF NotifyStep, id
<1> QED BY <1>8, <1>9, <1>10, <1>11 DEF Traffic!notify_command

\* While the link has been up.
UpInv == ~linkWasLost => connected /\ synced /\ IdsInv /\ HeardInv /\ InboxInv

SkipsInv == FeedsInv /\ IInv /\ OnceInv /\ StandInv /\ deinit = "no" /\ UpInv

\* What it says of a state in which nobody waits.
LEMMA AllHeard ==
  ASSUME SkipsInv
  PROVE  NothingSkipped
<1> SUFFICES ASSUME ~linkWasLost, inbox = <<>>, PendingSlots = {} PROVE notified = dispatched
  BY DEF NothingSkipped
<1> DEFINE l == lastItemSequenceId
<1>1. /\ dispatched = 0 .. l /\ (\A h \in Held : h > l + 1)
      /\ notified = dispatched \cup Held
  BY RngEmpty DEF SkipsInv, UpInv, HeardInv
<1>2. notified = 0 .. itemIndex - 1
  <2>1. PendingIds = {}
    BY DEF PendingIds
  <2> QED BY <2>1 DEF SkipsInv, UpInv, IdsInv, CountInv
<1>3. l \in Int /\ l >= -1 /\ itemIndex \in Nat
  BY DEF SkipsInv, FeedsInv, ListInv, TInv, Types, IdTypes
<1> HIDE DEF l
<1>4. Held = {}
  <2> SUFFICES ASSUME NEW h \in Held PROVE FALSE
    OBVIOUS
  <2>1. h > l + 1 /\ h \in 0 .. itemIndex - 1
    BY <1>1, <1>2
  <2>2. l + 1 \in 0 .. itemIndex - 1
    BY <1>3, <2>1
  <2>3. l + 1 \in Held
    BY <1>1, <1>2, <1>3, <2>2
  <2> QED BY <1>1, <1>3, <2>3
<1> QED BY <1>1, <1>4

\* As long as the broker link stays up, listeners miss no command, for any
\* number of slots, calls and commands, whatever timeouts, late and lost
\* replies, refused publishes, reports and queue resets come in between;
\* provided callers are not cancelled (a cancelled command is never told), no
\* report is handled while a reset is being published, and the driver is not
\* being deinitialized.
THEOREM TrafficNothingSkipped ==
  ASSUME CancellableCall = {}, ~ReportDuringReset, ~MayDeinit
  PROVE  TrafficSpec => []NothingSkipped
<1>1. TrafficInit => SkipsInv
  <2> SUFFICES ASSUME TrafficInit PROVE SkipsInv
    OBVIOUS
  <2>1. FeedsInv /\ Init
    BY InitFeeds DEF TrafficInit
  <2>2. IInv /\ deinit = "no" /\ connected /\ synced
    BY <2>1, InitLoss DEF Init
  <2>3. Len(Way) = 0 /\ Rng(<<>>) = {} /\ Len(inbox) = 0
    BY RngEmpty DEF Init, Way, TrafficInit
  <2>4. OnceInv
    BY <2>3 DEF OnceInv
  <2>5. \A s \in Slot : waiting[s].cmd = NoCmd
    BY DEF TrafficInit, Init, NoWaiter
  <2>6. StandInv
    BY <2>1, <2>3, <2>5 DEF Init, StandInv, PlacesInv
  <2>7. PendingSlots = {} /\ PendingIds = {}
    BY <2>5 DEF PendingSlots, PendingIds, Pending
  <2>8. IdsInv
    <3>1. notified = {} /\ itemIndex = 0 /\ 0 .. 0 - 1 = {}
      BY <2>1 DEF Init
    <3> QED BY <2>7, <3>1 DEF IdsInv, WindowInv, CountInv
  <2>9. HeardInv
    <3>1. /\ waitingForPublish = <<>> /\ lastItemSequenceId = -1 /\ dispatched = {}
          /\ notified = {} /\ 0 .. -1 = {} /\ inbox = <<>>
      BY DEF TrafficInit, Init, Traffic!Init
    <3>2. Held = {}
      BY <3>1 DEF Held, Traffic!Range
    <3> QED BY <2>3, <3>1, <3>2 DEF HeardInv
  <2>10. InboxInv
    BY <2>3 DEF InboxInv
  <2> QED BY <2>1, <2>2, <2>4, <2>6, <2>8, <2>9, <2>10 DEF SkipsInv, UpInv
<1>2. SkipsInv /\ [TrafficNext]_allVars => SkipsInv'
  <2> SUFFICES ASSUME SkipsInv, [TrafficNext]_allVars PROVE SkipsInv'
    OBVIOUS
  <2>1. [Next]_vars
    BY DEF TrafficNext, DriverStep, NotifyStep, allVars
  <2>2. IInv'
    BY <2>1, StepLoss DEF SkipsInv
  <2>3. /\ Types /\ IndexInv /\ CallInv /\ NewInv /\ ResyncInv /\ SlotInv
        /\ Types' /\ IndexInv'
    BY <2>2 DEF SkipsInv, IInv, TInv, RunInv
  <2>4. deinit' = "no"
    BY <2>1 DEF SkipsInv, vars, Next, Caller, CallUnavailable, CallStart, AcquireLock,
         SequenceRefused, SequenceBlocks, Put, Gathered, CancelCall, Sender, SenderTop, SenderGet,
         SenderGetTimeout, SendUnavailable, SendReset, SendWrite, ResetPublished,
         WritePublished, PublishFailed, SlotFree, Timeout, OrphanTimeout, Environment, Reply,
         ReplyLost, ReportUnreachable, ReportReachable, ConnectionLost, ConnectionRestored,
         Deinitialize, Deinitialized
  <2>5. OnceInv'
    BY <2>1, <2>3, OnceStep DEF SkipsInv
  <2>6. StandInv'
    BY <2>1, <2>3, StandStep DEF SkipsInv
  <2>7. FeedsInv' /\ UpInv'
    <3>1. CASE DriverStep
      <4>1. FeedsInv'
        BY <3>1, DriverFeeds DEF SkipsInv
      <4>2. ASSUME ~linkWasLost' PROVE connected' /\ synced' /\ IdsInv' /\ HeardInv' /\ InboxInv'
        <5>1. ~linkWasLost /\ connected'
          BY <3>1, <4>2 DEF DriverStep
        <5>2. connected /\ synced /\ IdsInv /\ HeardInv
          BY <5>1 DEF SkipsInv, UpInv
        <5>3. IdsInv' /\ FreshAlone /\ synced'
          BY <2>1, <2>3, <5>1, <5>2, IdsStep DEF SkipsInv
        <5> QED BY <3>1, <4>1, <5>1, <5>2, <5>3, DriverHands DEF SkipsInv
      <4> QED BY <4>1, <4>2 DEF UpInv
    <3>2. CASE NotifyStep
      <4>1. FeedsInv'
        BY <3>2, NotifyFeeds DEF SkipsInv
      <4>2. UNCHANGED <<connected, synced, waiting, future, itemIndex, notified, pc,
                        batchStart, nextIndex, linkWasLost>>
        BY <3>2 DEF NotifyStep, vars, linkVars, timerVars, idVars, senderVars
      <4>3. IdsInv => IdsInv'
        BY <4>2 DEF IdsInv, WindowInv, CountInv, PendingIds, PendingSlots, Pending,
                    Ago, Edge, Registered
      <4>4. HeardInv /\ InboxInv => HeardInv' /\ InboxInv'
        BY <3>2, NotifyHears DEF SkipsInv
      <4> QED BY <4>1, <4>2, <4>3, <4>4 DEF SkipsInv, UpInv
    <3>3. CASE UNCHANGED allVars
      <4>1. UNCHANGED <<connected, synced, waiting, future, itemIndex, notified, pc,
                        batchStart, nextIndex, linkWasLost, inbox, lastItemSequenceId,
                        waitingForPublish, dispatched>>
        BY <3>3 DEF allVars, vars, linkVars, timerVars, idVars, senderVars, callbackVars
      <4>2. TInv'
        BY <2>2 DEF IInv
      <4>3. FeedsInv'
        BY <4>1, <4>2 DEF SkipsInv, FeedsInv, ListInv, FeedInv, Held, Traffic!Range
      <4>4. IdsInv => IdsInv'
        BY <4>1 DEF IdsInv, WindowInv, CountInv, PendingIds, PendingSlots, Pending,
                    Ago, Edge, Registered
      <4>5. HeardInv /\ InboxInv => HeardInv' /\ InboxInv'
        BY <4>1 DEF HeardInv, InboxInv, Held, Traffic!Range, Rng
      <4> QED BY <4>1, <4>3, <4>4, <4>5 DEF SkipsInv, UpInv
    <3> QED BY <3>1, <3>2, <3>3 DEF TrafficNext
  <2> QED BY <2>2, <2>4, <2>5, <2>6, <2>7 DEF SkipsInv
<1>3. SkipsInv => NothingSkipped
  BY AllHeard
<1> QED BY <1>1, <1>2, <1>3, PTL DEF TrafficSpec
==============================================================================

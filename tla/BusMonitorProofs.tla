--------------------------- MODULE BusMonitorProofs ---------------------------
(***************************************************************************)
(* BusMonitorFrameHandler for a ring of any size and any modulus of the    *)
(* counter: frames are published in counter order, and a stream that       *)
(* restarts elsewhere is picked up again.                                  *)
(***************************************************************************)
EXTENDS MCBusMonitor, FiniteSetTheorems, WellFoundedInduction, TLAPS

-----------------------------------------------------------------------------
(* Counters *)

\* The counter wraps at most once in either direction.
LEMMA Wraps ==
  ASSUME NEW a \in Int
  PROVE  /\ a \in Counter => a % Modulo = a
         /\ a \in Modulo .. 2 * Modulo - 1 => a % Modulo = a - Modulo
         /\ a \in -Modulo .. -1 => a % Modulo = a + Modulo
  BY BusMonitorAssumption DEF Counter

\* A step forward of at most one cycle.
LEMMA Forward ==
  ASSUME NEW a \in Counter, NEW k \in 0 .. Modulo
  PROVE  /\ (a + k) % Modulo \in Counter
         /\ (a + k) % Modulo = IF a + k < Modulo THEN a + k ELSE a + k - Modulo
<1>1. CASE a + k < Modulo
  BY <1>1, Wraps, BusMonitorAssumption DEF Counter
<1>2. CASE a + k >= Modulo
  BY <1>2, Wraps, BusMonitorAssumption DEF Counter
<1> QED BY <1>1, <1>2, BusMonitorAssumption DEF Counter

\* The ring edge lies behind.
LEMMA Backward ==
  ASSUME NEW a \in Counter, NEW k \in 0 .. Modulo
  PROVE  /\ (a - k) % Modulo \in Counter
         /\ (a - k) % Modulo = IF a >= k THEN a - k ELSE a - k + Modulo
<1>1. CASE a >= k
  BY <1>1, Wraps, BusMonitorAssumption DEF Counter
<1>2. CASE a < k
  BY <1>2, Wraps, BusMonitorAssumption DEF Counter
<1> QED BY <1>1, <1>2, BusMonitorAssumption DEF Counter

LEMMA DistanceIs ==
  ASSUME NEW a \in Counter, NEW b \in Counter
  PROVE  /\ Distance(a, b) \in Counter
         /\ Distance(a, b) = IF a <= b THEN b - a ELSE b - a + Modulo
<1>1. CASE a <= b
  BY <1>1, Wraps, BusMonitorAssumption DEF Counter, Distance
<1>2. CASE a > b
  BY <1>2, Wraps, BusMonitorAssumption DEF Counter, Distance
<1> QED BY <1>1, <1>2, BusMonitorAssumption DEF Counter

LEMMA DistanceType ==
  \A a, b \in Counter : Distance(a, b) \in Nat /\ Distance(a, b) < Modulo
  BY DistanceIs, BusMonitorAssumption DEF Counter

\* Distance undoes a step forward.
LEMMA DistanceForward ==
  ASSUME NEW a \in Counter, NEW k \in 0 .. Modulo - 1
  PROVE  Distance(a, (a + k) % Modulo) = k
<1> DEFINE b == (a + k) % Modulo
<1>1. b \in Counter /\ b = IF a + k < Modulo THEN a + k ELSE a + k - Modulo
  BY Forward, BusMonitorAssumption
<1> HIDE DEF b
<1>2. Distance(a, b) = IF a <= b THEN b - a ELSE b - a + Modulo
  BY <1>1, DistanceIs
<1>3. Distance(a, b) = k
  BY <1>1, <1>2, BusMonitorAssumption DEF Counter
<1> QED BY <1>3 DEF b

\* Every counter is a step forward away.
LEMMA ForwardDistance ==
  ASSUME NEW a \in Counter, NEW b \in Counter
  PROVE  (a + Distance(a, b)) % Modulo = b
<1> DEFINE k == Distance(a, b)
<1>1. k \in Counter /\ k = IF a <= b THEN b - a ELSE b - a + Modulo
  BY DistanceIs
<1>2. k \in 0 .. Modulo
  BY <1>1, BusMonitorAssumption DEF Counter
<1> HIDE DEF k
<1>3. (a + k) % Modulo = IF a + k < Modulo THEN a + k ELSE a + k - Modulo
  BY <1>2, Forward
<1>4. (a + k) % Modulo = b
  BY <1>1, <1>3, BusMonitorAssumption DEF Counter
<1> QED BY <1>4 DEF k

\* Counters at one distance are one.
LEMMA DistanceInjective ==
  ASSUME NEW a \in Counter, NEW b \in Counter, NEW c \in Counter,
         Distance(a, b) = Distance(a, c)
  PROVE  b = c
  BY ForwardDistance

LEMMA DistanceSelf ==
  ASSUME NEW a \in Counter
  PROVE  Distance(a, a) = 0
<1>1. Distance(a, a) = a - a
  BY DistanceIs, BusMonitorAssumption DEF Counter
<1> QED BY <1>1 DEF Counter

\* Moving the start forward brings what lies ahead nearer.
LEMMA DistanceShift ==
  ASSUME NEW a \in Counter, NEW c \in Counter, NEW n \in 0 .. Modulo,
         n <= Distance(a, c)
  PROVE  Distance((a + n) % Modulo, c) = Distance(a, c) - n
<1> DEFINE b == (a + n) % Modulo
<1>1. b \in Counter /\ b = IF a + n < Modulo THEN a + n ELSE a + n - Modulo
  BY Forward
<1> HIDE DEF b
<1>2. Distance(b, c) = IF b <= c THEN c - b ELSE c - b + Modulo
  BY <1>1, DistanceIs
<1>3. Distance(a, c) = IF a <= c THEN c - a ELSE c - a + Modulo
  BY DistanceIs
<1>4. Distance(b, c) = Distance(a, c) - n
  BY <1>1, <1>2, <1>3, BusMonitorAssumption DEF Counter
<1> QED BY <1>4 DEF b

\* Two steps forward are one.
LEMMA ForwardTwice ==
  ASSUME NEW a \in Counter, NEW m \in 0 .. Modulo, NEW n \in 0 .. Modulo,
         m + n <= Modulo
  PROVE  (((a + m) % Modulo) + n) % Modulo = (a + (m + n)) % Modulo
<1> DEFINE b == (a + m) % Modulo
<1>1. b \in Counter /\ b = IF a + m < Modulo THEN a + m ELSE a + m - Modulo
  BY Forward
<1> HIDE DEF b
<1>2. (b + n) % Modulo = IF b + n < Modulo THEN b + n ELSE b + n - Modulo
  BY <1>1, Forward
<1>3. m + n \in 0 .. Modulo
  BY BusMonitorAssumption
<1>4. (a + (m + n)) % Modulo = IF a + (m + n) < Modulo THEN a + (m + n) ELSE a + (m + n) - Modulo
  BY <1>3, Forward
<1>5. (b + n) % Modulo = (a + (m + n)) % Modulo
  BY <1>1, <1>2, <1>4, BusMonitorAssumption DEF Counter
<1> QED BY <1>5 DEF b

-----------------------------------------------------------------------------
(* Runs and their order *)

\* A set of numbers has a least one.
LEMMA LeastNumber ==
  ASSUME NEW T, T \subseteq Nat, T # {}
  PROVE  \E n \in T : \A m \in T : n <= m
<1> DEFINE R == {p \in Nat \X Nat : p[1] < p[2]}
<1>1. IsWellFoundedOn(R, Nat)
  BY NatLessThanWellFounded DEF OpToRel
<1>2. \E n \in T : \A m \in T : ~(<<m, n>> \in R)
  BY <1>1, WFMin
<1>3. \A m, n \in Nat : (<<m, n>> \in R) <=> m < n
  OBVIOUS
<1> HIDE DEF R
<1>4. PICK n \in T : \A m \in T : ~(<<m, n>> \in R)
  BY <1>2
<1>5. \A m \in T : ~(m < n)
  BY <1>3, <1>4
<1>6. \A m \in T : n <= m
  BY <1>5
<1> QED BY <1>6

\* How far what is held reaches from start without a gap.
RunTo(buf, start, n) ==
    /\ \A i \in 0 .. n - 1 : buf[(start + i) % Modulo] # "absent"
    /\ n < Modulo => buf[(start + n) % Modulo] = "absent"

LEMMA RunLengthIs ==
  ASSUME NEW buf, NEW start \in Counter
  PROVE  /\ RunLength(buf, start) \in 0 .. Modulo
         /\ RunTo(buf, start, RunLength(buf, start))
<1> DEFINE T == {n \in 0 .. Modulo : n < Modulo => buf[(start + n) % Modulo] = "absent"}
<1>1. T \subseteq Nat /\ Modulo \in T
  BY BusMonitorAssumption
<1>2. PICK n \in T : \A m \in T : n <= m
  BY <1>1, LeastNumber
<1>3. ASSUME NEW i \in 0 .. n - 1 PROVE buf[(start + i) % Modulo] # "absent"
  <2>1. n \in 0 .. Modulo
    OBVIOUS
  <2>2. i \in 0 .. Modulo /\ i < n
    BY <2>1, BusMonitorAssumption
  <2>3. i \notin T
    BY <1>2, <2>1, <2>2
  <2> QED BY <2>2, <2>3
<1>4. n \in 0 .. Modulo /\ RunTo(buf, start, n)
  BY <1>3 DEF RunTo
<1>5. RunLength(buf, start) = CHOOSE m \in 0 .. Modulo : RunTo(buf, start, m)
  BY DEF RunLength, RunTo
<1> QED BY <1>4, <1>5

\* A run ends at the first counter that is absent.
LEMMA RunEnds ==
  ASSUME NEW buf, NEW start \in Counter, NEW k \in 0 .. Modulo - 1,
         buf[(start + k) % Modulo] = "absent"
  PROVE  RunLength(buf, start) <= k
<1> DEFINE n == RunLength(buf, start)
<1>1. n \in 0 .. Modulo /\ \A i \in 0 .. n - 1 : buf[(start + i) % Modulo] # "absent"
  BY RunLengthIs DEF RunTo
<1>2. k \notin 0 .. n - 1
  BY <1>1
<1> QED BY <1>1, <1>2, BusMonitorAssumption

\* s lists the counters of S as they follow start.
Lists(s, start, S) ==
    \A i, j \in 1 .. Cardinality(S) :
        i < j => Distance(start, s[i]) < Distance(start, s[j])

LEMMA SomeCounters ==
  ASSUME NEW S \in SUBSET Counter
  PROVE  IsFiniteSet(S) /\ Cardinality(S) \in Nat
<1>1. IsFiniteSet(Counter)
  BY FS_Interval, BusMonitorAssumption DEF Counter
<1> QED BY <1>1, FS_Subset, FS_CardinalityType

\* A set can be listed by a key that tells its members apart: each stands
\* behind those with a smaller key.
LEMMA SortExists ==
  ASSUME NEW S, IsFiniteSet(S), NEW key \in [S -> Int],
         \A c, d \in S : key[c] = key[d] => c = d
  PROVE  \E s \in [1 .. Cardinality(S) -> S] :
            \A i, j \in 1 .. Cardinality(S) : i < j => key[s[i]] < key[s[j]]
<1> DEFINE n == Cardinality(S)
           Before(c) == {d \in S : key[d] < key[c]}
           rank == [c \in S |-> Cardinality(Before(c)) + 1]
<1>1. n \in Nat
  BY FS_CardinalityType
<1>2. \A T \in SUBSET S : IsFiniteSet(T) /\ Cardinality(T) \in Nat /\ Cardinality(T) <= n
  BY FS_Subset, FS_CardinalityType
<1>3. ASSUME NEW c \in S PROVE rank[c] \in 1 .. n
  <2>1. Before(c) \in SUBSET S /\ c \notin Before(c)
    OBVIOUS
  <2>2. Cardinality(Before(c)) # n
    BY <2>1, FS_Subset
  <2> QED BY <1>1, <1>2, <2>1, <2>2
<1>4. ASSUME NEW c \in S, NEW d \in S, key[c] < key[d]
      PROVE  rank[c] < rank[d]
  <2>1. Before(c) \in SUBSET Before(d) /\ c \in Before(d) /\ c \notin Before(c)
    BY <1>4
  <2>2. IsFiniteSet(Before(d)) /\ Cardinality(Before(d)) \in Nat /\ Cardinality(Before(c)) \in Nat
    BY <1>2
  <2>3. Cardinality(Before(c)) <= Cardinality(Before(d)) /\ Cardinality(Before(c)) # Cardinality(Before(d))
    BY <2>1, <2>2, FS_Subset
  <2> QED BY <2>2, <2>3
<1> HIDE DEF rank
<1>5. rank \in Injection(S, 1 .. n)
  <2>1. rank \in [S -> 1 .. n]
    BY <1>3 DEF rank
  <2>2. ASSUME NEW c \in S, NEW d \in S, rank[c] = rank[d] PROVE c = d
    <3>1. ~(key[c] < key[d]) /\ ~(key[d] < key[c])
      BY <1>3, <1>4, <2>2
    <3> QED BY <3>1
  <2> QED BY <2>1, <2>2 DEF Injection, IsInjective
<1>6. rank \in Surjection(S, 1 .. n)
  <2>1. IsFiniteSet(1 .. n) /\ Cardinality(1 .. n) = n
    BY <1>1, FS_Interval
  <2> QED BY <1>1, <1>5, <2>1, FS_Injection
<1> DEFINE s == [i \in 1 .. n |-> CHOOSE c \in S : rank[c] = i]
<1>7. ASSUME NEW i \in 1 .. n PROVE s[i] \in S /\ rank[s[i]] = i
  <2>1. \E c \in S : rank[c] = i
    BY <1>6 DEF Surjection
  <2> QED BY <2>1
<1>8. s \in [1 .. n -> S]
  BY <1>7
<1>9. ASSUME NEW i \in 1 .. n, NEW j \in 1 .. n, i < j PROVE key[s[i]] < key[s[j]]
  <2>1. s[i] \in S /\ s[j] \in S /\ rank[s[i]] < rank[s[j]]
    BY <1>7, <1>9
  <2> HIDE DEF s
  <2>2. rank[s[i]] \in Int /\ rank[s[j]] \in Int
    BY <1>3, <2>1
  <2>3. ~(key[s[j]] < key[s[i]]) /\ key[s[i]] # key[s[j]]
    BY <1>4, <2>1, <2>2
  <2> QED BY <2>1, <2>3
<1> HIDE DEF s
<1> QED BY <1>8, <1>9

\* s lists the members of S, each once.
ListOf(s, S) ==
    /\ s \in Seq(S) /\ Len(s) = Cardinality(S)
    /\ \A i, j \in 1 .. Len(s) : i # j => s[i] # s[j]
    /\ \A c \in S : \E i \in 1 .. Len(s) : s[i] = c

\* A list by a key is as long as the set and holds each of its members.
LEMMA SortCovers ==
  ASSUME NEW S, IsFiniteSet(S), NEW key \in [S -> Int],
         NEW s \in [1 .. Cardinality(S) -> S],
         \A i, j \in 1 .. Cardinality(S) : i < j => key[s[i]] < key[s[j]]
  PROVE  ListOf(s, S)
<1> DEFINE n == Cardinality(S)
<1>1. n \in Nat
  BY FS_CardinalityType
<1>2. s \in Seq(S) /\ Len(s) = n
  BY <1>1
<1>3. ASSUME NEW i \in 1 .. n, NEW j \in 1 .. n, i # j PROVE s[i] # s[j]
  <2>1. key[s[i]] \in Int /\ key[s[j]] \in Int
    OBVIOUS
  <2>2. i < j \/ j < i
    BY <1>1, <1>3
  <2> QED BY <2>1, <2>2
<1>4. s \in Injection(1 .. n, S)
  BY <1>3 DEF Injection, IsInjective
<1>5. s \in Surjection(1 .. n, S)
  <2>1. IsFiniteSet(1 .. n) /\ Cardinality(1 .. n) = n
    BY <1>1, FS_Interval
  <2> QED BY <1>4, <2>1, FS_Injection
<1>6. \A c \in S : \E i \in 1 .. n : s[i] = c
  BY <1>5 DEF Surjection
<1> QED BY <1>2, <1>3, <1>6 DEF ListOf

\* sorted(..., key=offset).
LEMMA InOrderIs ==
  ASSUME NEW start \in Counter, NEW S \in SUBSET Counter
  PROVE  LET s == InOrder(start, S)
         IN  /\ Cardinality(S) \in Nat
             /\ s \in [1 .. Cardinality(S) -> S]
             /\ s \in Seq(Counter)
             /\ Len(s) = Cardinality(S)
             /\ Lists(s, start, S)
             /\ S \subseteq Range(s)
<1> DEFINE s == InOrder(start, S)
           key == [c \in S |-> Distance(start, c)]
<1>1. IsFiniteSet(S) /\ Cardinality(S) \in Nat
  BY SomeCounters
<1>2. key \in [S -> Int] /\ \A c, d \in S : key[c] = key[d] => c = d
  BY DistanceType, DistanceInjective
<1>3. \E f \in [1 .. Cardinality(S) -> S] : Lists(f, start, S)
  <2>1. PICK f \in [1 .. Cardinality(S) -> S] :
               \A i, j \in 1 .. Cardinality(S) : i < j => key[f[i]] < key[f[j]]
    BY <1>1, <1>2, SortExists
  <2> QED BY <2>1 DEF Lists
<1>4. s = CHOOSE f \in [1 .. Cardinality(S) -> S] : Lists(f, start, S)
  BY DEF InOrder, Lists
<1>5. s \in [1 .. Cardinality(S) -> S] /\ Lists(s, start, S)
  BY <1>3, <1>4
<1> HIDE DEF s
<1>6. \A i, j \in 1 .. Cardinality(S) : i < j => key[s[i]] < key[s[j]]
  BY <1>5 DEF Lists
<1> HIDE DEF key
<1>7. ListOf(s, S)
  BY <1>1, <1>2, <1>5, <1>6, SortCovers
<1>8. S \subseteq Range(s) /\ s \in Seq(Counter)
  BY <1>1, <1>5, <1>7 DEF ListOf, Range
<1> QED BY <1>1, <1>5, <1>7, <1>8 DEF s, ListOf

-----------------------------------------------------------------------------
(* What a step publishes *)

\* The buffer holds what the window ahead of the position can take, and nothing
\* before there is a position.
WindowInv ==
    /\ expected = NoCounter => Held(buffer) = {}
    /\ expected # NoCounter =>
          \A c \in Held(buffer) : Distance(expected, c) \in 1 .. ReorderWindow

MonitorInv == TypeOK /\ WindowInv

Buffers == [Counter -> {"absent", "valid", "invalid"}]

\* p is published in order, all of it in the stretch from position x to y.
InStretch(p, x, y) ==
    /\ Distance(x, y) < Modulo \div 2 + RingSize
    /\ \A i \in 1 .. Len(p) : Distance(x, p[i]) < Distance(x, y)
    /\ \A i, j \in 1 .. Len(p) : i < j => Distance(x, p[i]) < Distance(x, p[j])

LEMMA Sizes ==
  /\ Modulo \in Nat /\ RingSize \in Nat /\ RingSize > 1 /\ Modulo >= 4 * RingSize
  /\ ReorderWindow = RingSize - 1 /\ ReorderWindow \in 1 .. Modulo - 2
  /\ Modulo \div 2 \in Nat /\ 2 * (Modulo \div 2) <= Modulo
  BY BusMonitorAssumption DEF ReorderWindow

LEMMA PublishedIs ==
  ASSUME NEW buf, NEW start \in Counter, NEW S \in SUBSET Counter
  PROVE  LET p == Published(buf, start, S)
         IN  /\ p \in Seq(Counter)
             /\ \A i \in 1 .. Len(p) : p[i] \in S
             /\ \A i, j \in 1 .. Len(p) : i < j => Distance(start, p[i]) < Distance(start, p[j])
             /\ \A c \in S : buf[c] = "valid" => c \in Range(p)
<1> DEFINE V == {c \in S : buf[c] = "valid"}
           p == InOrder(start, V)
<1>1. V \in SUBSET Counter /\ V \subseteq S
  OBVIOUS
<1>2. /\ p \in [1 .. Cardinality(V) -> V] /\ p \in Seq(Counter) /\ Len(p) = Cardinality(V)
      /\ Lists(p, start, V) /\ V \subseteq Range(p)
  BY <1>1, InOrderIs
<1>4. \A c \in S : buf[c] = "valid" => c \in Range(p)
  BY <1>2
<1> HIDE DEF V, p
<1>3. /\ p \in Seq(Counter)
      /\ \A i \in 1 .. Len(p) : p[i] \in S
      /\ \A i, j \in 1 .. Len(p) : i < j => Distance(start, p[i]) < Distance(start, p[j])
  BY <1>1, <1>2 DEF Lists
<1> QED BY <1>3, <1>4 DEF p, V, Published

\* _take_contiguous, where the buffer reaches at most a window past start.
LEMMA TakeIs ==
  ASSUME NEW buf \in Buffers, NEW start \in Counter,
         \A c \in Held(buf) : Distance(start, c) \in 0 .. ReorderWindow
  PROVE  /\ RunLength(buf, start) \in 0 .. RingSize
         /\ After(buf, start) \in Counter
         /\ Left(buf, start) \in Buffers
         /\ \A c \in Held(Left(buf, start)) : Distance(After(buf, start), c) \in 1 .. ReorderWindow
<1> DEFINE n == RunLength(buf, start)
           b == After(buf, start)
<1>1. n \in 0 .. Modulo /\ RunTo(buf, start, n)
  BY RunLengthIs
<1>2. buf[(start + RingSize) % Modulo] = "absent"
  <2>1. Distance(start, (start + RingSize) % Modulo) = RingSize
    BY DistanceForward, Sizes
  <2>2. (start + RingSize) % Modulo \in Counter
    BY Forward, Sizes
  <2> QED BY <2>1, <2>2, Sizes DEF Held
<1>3. n <= RingSize
  BY <1>2, RunEnds, Sizes
<1>4. b = (start + n) % Modulo /\ b \in Counter
  BY <1>1, Forward DEF After
<1>5. buf[b] = "absent"
  BY <1>1, <1>3, <1>4, Sizes DEF RunTo
<1>6. Left(buf, start) = [c \in Counter |-> IF Distance(start, c) < n THEN "absent" ELSE buf[c]]
  BY DEF Left, Taken
<1> HIDE DEF n, b
<1>7. ASSUME NEW c \in Held(Left(buf, start)) PROVE Distance(b, c) \in 1 .. ReorderWindow
  <2>1. c \in Counter /\ ~(Distance(start, c) < n) /\ buf[c] # "absent"
    BY <1>6, <1>7 DEF Held
  <2>2. Distance(start, c) \in 0 .. ReorderWindow
    BY <2>1 DEF Held
  <2>3. Distance(start, c) # n
    BY <1>4, <1>5, <2>1, ForwardDistance
  <2>4. n \in 0 .. Modulo /\ n < Distance(start, c)
    BY <1>1, <2>1, <2>2, <2>3
  <2>5. Distance(b, c) = Distance(start, c) - n
    BY <1>4, <2>1, <2>2, <2>4, DistanceShift
  <2> QED BY <2>2, <2>4, <2>5, Sizes
<1>8. Left(buf, start) \in Buffers
  BY <1>6 DEF Buffers
<1> QED BY <1>1, <1>3, <1>4, <1>7, <1>8, Sizes DEF n, b

\* The frame that was expected, and those that waited for it.
LEMMA OnTimeStep ==
  ASSUME MonitorInv, NEW fc \in Counter, NEW valid \in BOOLEAN, OnTime(fc, valid)
  PROVE  MonitorInv' /\ expected' # NoCounter /\ InStretch(out', expected, expected')
<1> DEFINE buf == [buffer EXCEPT ![fc] = Kind(valid)]
           n == RunLength(buf, fc)
<1>1. expected \in Counter /\ buffer \in Buffers /\ farBehind \subseteq Counter
  BY DEF MonitorInv, TypeOK, OnTime, Buffers
<1>2. fc = expected
  BY <1>1, DistanceSelf, DistanceInjective DEF OnTime
<1>3. buf \in Buffers /\ Held(buf) \subseteq Held(buffer) \cup {fc}
  BY <1>1 DEF Buffers, Kind, Held
<1>4. Distance(fc, fc) = 0
  BY DistanceSelf
<1>5. ASSUME NEW c \in Held(buf) PROVE Distance(fc, c) \in 0 .. ReorderWindow
  <2>1. CASE c = fc
    BY <1>4, <2>1, Sizes
  <2>2. CASE c \in Held(buffer)
    BY <1>1, <1>2, <2>2, Sizes DEF MonitorInv, WindowInv, OnTime
  <2> QED BY <1>3, <2>1, <2>2
<1>6. /\ out' = Published(buf, fc, Taken(buf, fc))
      /\ buffer' = Left(buf, fc) /\ expected' = After(buf, fc) /\ farBehind' = {}
  BY DEF OnTime
<1> HIDE DEF buf
<1>7. /\ n \in 0 .. RingSize /\ After(buf, fc) \in Counter /\ Left(buf, fc) \in Buffers
      /\ \A c \in Held(Left(buf, fc)) : Distance(After(buf, fc), c) \in 1 .. ReorderWindow
  BY <1>3, <1>5, TakeIs
<1>8. Taken(buf, fc) = {c \in Counter : Distance(fc, c) < n}
  BY DEF Taken
<1>9. /\ out' \in Seq(Counter)
      /\ \A i \in 1 .. Len(out') : out'[i] \in Taken(buf, fc)
      /\ \A i, j \in 1 .. Len(out') : i < j => Distance(fc, out'[i]) < Distance(fc, out'[j])
  BY <1>6, <1>8, PublishedIs
<1>10. Distance(fc, expected') = n
  <2>1. n \in 0 .. Modulo - 1 /\ expected' = (fc + n) % Modulo
    BY <1>6, <1>7, Sizes DEF After
  <2> HIDE DEF n
  <2> QED BY <2>1, DistanceForward
<1>11. InStretch(out', expected, expected')
  BY <1>2, <1>7, <1>8, <1>9, <1>10, Sizes DEF InStretch
<1>12. expected' # NoCounter
  BY <1>6, <1>7 DEF Counter, NoCounter
<1>13. MonitorInv'
  BY <1>6, <1>7, <1>9, <1>12 DEF MonitorInv, TypeOK, WindowInv, Buffers
<1> QED BY <1>11, <1>12, <1>13

\* The ring edge stands before the frame.
LEMMA EdgeIs ==
  ASSUME NEW x \in Counter, NEW fc \in Counter, NEW k \in 0 .. Modulo, k <= Distance(x, fc)
  PROVE  /\ (fc - k) % Modulo \in Counter
         /\ Distance(x, (fc - k) % Modulo) = Distance(x, fc) - k
<1> DEFINE b == (fc - k) % Modulo
<1>1. b \in Counter /\ b = IF fc >= k THEN fc - k ELSE fc - k + Modulo
  BY Backward
<1> HIDE DEF b
<1>2. Distance(x, b) = IF x <= b THEN b - x ELSE b - x + Modulo
  BY <1>1, DistanceIs
<1>3. Distance(x, fc) = IF x <= fc THEN fc - x ELSE fc - x + Modulo
  BY DistanceIs
<1>4. Distance(x, b) = Distance(x, fc) - k
  BY <1>1, <1>2, <1>3, BusMonitorAssumption DEF Counter
<1> QED BY <1>1, <1>4 DEF b

\* What stands near the edge stands that much further from the position.
LEMMA BeyondEdge ==
  ASSUME NEW x \in Counter, NEW edge \in Counter, NEW k \in Nat,
         Distance(x, edge) + k < Modulo
  PROVE  Distance(x, (edge + k) % Modulo) = Distance(x, edge) + k
<1> DEFINE e == Distance(x, edge)
<1>1. e \in 0 .. Modulo /\ k \in 0 .. Modulo /\ e + k \in 0 .. Modulo - 1
  BY DistanceIs, BusMonitorAssumption DEF Counter
<1>2. edge = (x + e) % Modulo
  BY ForwardDistance
<1> HIDE DEF e
<1>3. (edge + k) % Modulo = (x + (e + k)) % Modulo
  <2>1. (((x + e) % Modulo) + k) % Modulo = (x + (e + k)) % Modulo
    <3>1. e + k <= Modulo
      BY <1>1, BusMonitorAssumption
    <3> QED BY <1>1, <3>1, ForwardTwice
  <2> QED BY <1>2, <2>1
<1>4. Distance(x, (x + (e + k)) % Modulo) = e + k
  BY <1>1, DistanceForward
<1> QED BY <1>3, <1>4 DEF e

\* A frame past the window: the buffer is drained to the edge of the ring, then
\* what lies there without a gap is taken.
LEMMA OverrunStep ==
  ASSUME MonitorInv, NEW fc \in Counter, NEW valid \in BOOLEAN, Overrun(fc, valid)
  PROVE  MonitorInv' /\ expected' # NoCounter /\ InStretch(out', expected, expected')
<1> DEFINE d == Distance(expected, fc)
           edge == (fc - ReorderWindow) % Modulo
           e == Distance(expected, edge)
           buf == [buffer EXCEPT ![fc] = "valid"]
           rest == Undrained(buf, edge)
           n == RunLength(rest, edge)
           p == Published(buf, expected, Drained(buf, edge))
           q == Published(rest, edge, Taken(rest, edge))
<1>1. expected \in Counter /\ buffer \in Buffers /\ farBehind \subseteq Counter /\ expected # NoCounter
  BY DEF MonitorInv, TypeOK, Overrun, OverrunAt, Buffers
<1>2. d \in Counter /\ d > ReorderWindow /\ d < Modulo \div 2
  BY <1>1, DistanceIs DEF Overrun, OverrunAt
<1>3. edge \in Counter /\ e = d - ReorderWindow
  BY <1>1, <1>2, EdgeIs, Sizes DEF Counter
<1>4. /\ out' = p \o q /\ buffer' = Left(rest, edge) /\ expected' = After(rest, edge)
      /\ farBehind' = {}
  BY DEF Overrun, OverrunAt
<1>5. buf \in Buffers /\ Held(buf) \subseteq Held(buffer) \cup {fc}
  BY <1>1 DEF Buffers, Held
<1>6. /\ Drained(buf, edge) = {c \in Held(buf) : Distance(expected, c) < e}
      /\ rest = [c \in Counter |-> IF c \in Drained(buf, edge) THEN "absent" ELSE buf[c]]
  BY DEF Drained, Undrained
<1> HIDE DEF d, edge, e, buf, rest, p, q
<1>7. rest \in Buffers
  BY <1>5, <1>6 DEF Buffers
<1>8. ASSUME NEW c \in Held(rest) PROVE Distance(edge, c) \in 0 .. ReorderWindow
  <2>1. c \in Counter /\ c \in Held(buf) /\ ~(Distance(expected, c) < e)
    BY <1>5, <1>6, <1>8 DEF Held
  <2>2. Distance(expected, c) \in 1 .. ReorderWindow \/ Distance(expected, c) = d
    BY <1>1, <1>5, <2>1 DEF MonitorInv, WindowInv, d
  <2>3. e \in 0 .. Modulo /\ e <= Distance(expected, c) /\ Distance(expected, c) \in 0 .. d
    BY <1>2, <1>3, <2>1, <2>2, Sizes DEF Counter
  <2>4. edge = (expected + e) % Modulo
    BY <1>1, <1>3, ForwardDistance DEF e
  <2>5. Distance(edge, c) = Distance(expected, c) - e
    BY <1>1, <2>1, <2>3, <2>4, DistanceShift
  <2> QED BY <1>2, <1>3, <2>3, <2>5, Sizes DEF Counter
<1>9. /\ n \in 0 .. RingSize /\ After(rest, edge) \in Counter /\ Left(rest, edge) \in Buffers
      /\ \A c \in Held(Left(rest, edge)) : Distance(After(rest, edge), c) \in 1 .. ReorderWindow
  BY <1>3, <1>7, <1>8, TakeIs
<1>10. After(rest, edge) = (edge + n) % Modulo /\ Taken(rest, edge) = {c \in Counter : Distance(edge, c) < n}
  BY DEF After, Taken
<1> HIDE DEF n
<1>11. Distance(expected, expected') = e + n
  <2>1. e + n < Modulo /\ n \in Nat
    BY <1>2, <1>3, <1>9, Sizes DEF Counter
  <2> QED BY <1>1, <1>3, <1>4, <1>10, <2>1, BeyondEdge DEF e
<1>12. /\ p \in Seq(Counter)
       /\ \A i \in 1 .. Len(p) : Distance(expected, p[i]) < e
       /\ \A i, j \in 1 .. Len(p) : i < j => Distance(expected, p[i]) < Distance(expected, p[j])
  <2>1. Drained(buf, edge) \in SUBSET Counter
    BY <1>6 DEF Held
  <2> QED BY <1>1, <1>6, <2>1, PublishedIs DEF p
<1>13. /\ q \in Seq(Counter)
       /\ \A i \in 1 .. Len(q) : q[i] \in Counter /\ Distance(edge, q[i]) < n
       /\ \A i, j \in 1 .. Len(q) : i < j => Distance(edge, q[i]) < Distance(edge, q[j])
  <2>1. Taken(rest, edge) \in SUBSET Counter
    BY <1>10
  <2> QED BY <1>3, <1>10, <2>1, PublishedIs DEF q
<1>14. ASSUME NEW i \in 1 .. Len(q)
       PROVE  Distance(expected, q[i]) = e + Distance(edge, q[i]) /\ Distance(edge, q[i]) \in Nat
  <2>1. q[i] \in Counter /\ Distance(edge, q[i]) \in Nat /\ Distance(edge, q[i]) < n
    BY <1>3, <1>13, DistanceType
  <2>2. q[i] = (edge + Distance(edge, q[i])) % Modulo
    BY <1>3, <2>1, ForwardDistance
  <2>3. e + Distance(edge, q[i]) < Modulo
    BY <1>2, <1>3, <1>9, <2>1, Sizes DEF Counter
  <2> QED BY <1>1, <1>3, <2>1, <2>2, <2>3, BeyondEdge DEF e
<1>15. e \in Nat /\ \A i \in 1 .. Len(p) : Distance(expected, p[i]) \in Nat
  <2>1. \A i \in 1 .. Len(p) : p[i] \in Counter
    BY <1>12
  <2> QED BY <1>1, <1>3, <2>1, DistanceType DEF e
<1>16. /\ out' \in Seq(Counter) /\ Len(out') = Len(p) + Len(q) /\ Len(p) \in Nat /\ Len(q) \in Nat
       /\ \A i \in 1 .. Len(p) : out'[i] = p[i]
       /\ \A i \in Len(p) + 1 .. Len(p) + Len(q) : out'[i] = q[i - Len(p)] /\ i - Len(p) \in 1 .. Len(q)
  BY <1>4, <1>12, <1>13
<1>17. ASSUME NEW i \in 1 .. Len(out')
       PROVE  \/ i \in 1 .. Len(p) /\ out'[i] = p[i]
              \/ i > Len(p) /\ i - Len(p) \in 1 .. Len(q) /\ out'[i] = q[i - Len(p)]
  BY <1>16
<1>18. ASSUME NEW i \in 1 .. Len(out') PROVE Distance(expected, out'[i]) < e + n
  <2>1. CASE i \in 1 .. Len(p) /\ out'[i] = p[i]
    <3>1. Distance(expected, p[i]) < e /\ Distance(expected, p[i]) \in Nat
      BY <1>12, <1>15, <2>1
    <3> QED BY <1>9, <1>15, <2>1, <3>1
  <2>2. CASE i - Len(p) \in 1 .. Len(q) /\ out'[i] = q[i - Len(p)]
    <3> DEFINE k == i - Len(p)
    <3>1. /\ Distance(expected, q[k]) = e + Distance(edge, q[k])
          /\ Distance(edge, q[k]) < n /\ Distance(edge, q[k]) \in Nat
      BY <1>13, <1>14, <2>2
    <3> QED BY <1>9, <1>15, <2>2, <3>1
  <2> QED BY <1>17, <2>1, <2>2
<1>19. ASSUME NEW i \in 1 .. Len(out'), NEW j \in 1 .. Len(out'), i < j
       PROVE  Distance(expected, out'[i]) < Distance(expected, out'[j])
  <2>1. CASE j \in 1 .. Len(p) /\ out'[j] = p[j]
    <3>1. i \in 1 .. Len(p) /\ out'[i] = p[i]
      BY <1>16, <1>19, <2>1
    <3> QED BY <1>12, <1>19, <2>1, <3>1
  <2>2. CASE i \in 1 .. Len(p) /\ out'[i] = p[i] /\ j - Len(p) \in 1 .. Len(q) /\ out'[j] = q[j - Len(p)]
    <3> DEFINE k == j - Len(p)
    <3>1. /\ Distance(expected, p[i]) < e /\ Distance(expected, p[i]) \in Nat
          /\ Distance(expected, q[k]) = e + Distance(edge, q[k]) /\ Distance(edge, q[k]) \in Nat
      BY <1>12, <1>14, <1>15, <2>2
    <3> QED BY <1>15, <2>2, <3>1
  <2>3. CASE /\ i - Len(p) \in 1 .. Len(q) /\ out'[i] = q[i - Len(p)]
             /\ j - Len(p) \in 1 .. Len(q) /\ out'[j] = q[j - Len(p)]
    <3>1. i - Len(p) < j - Len(p)
      BY <1>16, <1>19
    <3>2. Distance(edge, q[i - Len(p)]) < Distance(edge, q[j - Len(p)])
      BY <1>13, <2>3, <3>1
    <3>3. /\ Distance(expected, q[i - Len(p)]) = e + Distance(edge, q[i - Len(p)])
          /\ Distance(edge, q[i - Len(p)]) \in Nat
          /\ Distance(expected, q[j - Len(p)]) = e + Distance(edge, q[j - Len(p)])
          /\ Distance(edge, q[j - Len(p)]) \in Nat
      BY <1>14, <2>3
    <3> QED BY <1>15, <2>3, <3>2, <3>3
  <2> QED BY <1>17, <2>1, <2>2, <2>3
<1>20. InStretch(out', expected, expected')
  <2>1. e + n < Modulo \div 2 + RingSize
    BY <1>2, <1>3, <1>9, Sizes DEF Counter
  <2> QED BY <1>11, <1>18, <1>19, <2>1 DEF InStretch
<1>21. expected' \in Counter /\ expected' # NoCounter
  BY <1>4, <1>9 DEF Counter, NoCounter
<1>22. MonitorInv'
  BY <1>4, <1>9, <1>16, <1>21 DEF MonitorInv, TypeOK, WindowInv, Buffers
<1> QED BY <1>20, <1>21, <1>22

\* The other ways a frame can land.
LEMMA OtherSteps ==
  ASSUME MonitorInv, NEW fc \in Counter, NEW valid \in BOOLEAN,
         First(fc, valid) \/ Ahead(fc, valid) \/ Untrusted(fc, valid)
           \/ DropBehind(fc, valid) \/ Resync(fc, valid)
  PROVE  /\ MonitorInv'
         /\ expected # NoCounter /\ ~Resync(fc, TRUE) => InStretch(out', expected, expected')
<1> USE DEF MonitorInv
<1>1. /\ expected \in Counter \cup {NoCounter} /\ farBehind \subseteq Counter
      /\ buffer \in [Counter -> {"absent", "valid", "invalid"}]
  BY DEF TypeOK
<1>2. (fc + 1) % Modulo \in Counter /\ (fc + 1) % Modulo # NoCounter
  BY Forward, Sizes DEF Counter, NoCounter
<1>3. <<>> \in Seq(Counter) /\ Len(<<>>) = 0 /\ <<fc>> \in Seq(Counter)
  OBVIOUS
<1>4. Held(EmptyBuffer) = {} /\ EmptyBuffer \in [Counter -> {"absent", "valid", "invalid"}]
  BY DEF Held, EmptyBuffer
<1>5. ASSUME expected # NoCounter, UNCHANGED expected, out' = <<>>
      PROVE  InStretch(out', expected, expected')
  <2>1. Distance(expected, expected) = 0
    BY <1>1, <1>5, DistanceSelf
  <2> QED BY <1>3, <1>5, <2>1, Sizes DEF InStretch
<1>6. FarBehindWith(fc) \subseteq Counter
  BY <1>1 DEF FarBehindWith
<1>7. CASE First(fc, valid)
  BY <1>1, <1>2, <1>3, <1>7 DEF First, TypeOK, WindowInv, Held
<1>8. CASE Ahead(fc, valid)
  <2>1. Held(buffer') \subseteq Held(buffer) \cup {fc}
    BY <1>1, <1>8 DEF Ahead, Held
  <2>2. buffer' \in [Counter -> {"absent", "valid", "invalid"}]
    BY <1>1, <1>8 DEF Ahead, Kind
  <2>3. TypeOK'
    BY <1>1, <1>3, <1>8, <2>2 DEF Ahead, TypeOK
  <2>4. WindowInv'
    BY <1>8, <2>1 DEF Ahead, WindowInv
  <2> QED BY <1>5, <1>8, <2>3, <2>4 DEF Ahead
<1>9. CASE Untrusted(fc, valid)
  BY <1>3, <1>5, <1>9 DEF Untrusted, TypeOK, WindowInv
<1>10. CASE DropBehind(fc, valid)
  BY <1>3, <1>5, <1>6, <1>10 DEF DropBehind, Behind, TypeOK, WindowInv
<1>11. CASE Resync(fc, valid)
  <2>1. Resync(fc, TRUE)
    BY <1>11 DEF Resync, Behind
  <2> QED BY <1>2, <1>3, <1>4, <1>11, <2>1 DEF Resync, TypeOK, WindowInv
<1> QED BY <1>7, <1>8, <1>9, <1>10, <1>11

LEMMA HandleKeeps ==
  ASSUME MonitorInv, NEW fc \in Counter, NEW valid \in BOOLEAN, Handle(fc, valid)
  PROVE  /\ MonitorInv'
         /\ expected # NoCounter /\ ~Resync(fc, TRUE) => InStretch(out', expected, expected')
<1>1. CASE OnTime(fc, valid)
  BY <1>1, OnTimeStep
<1>2. CASE Overrun(fc, valid)
  BY <1>2, OverrunStep
<1> QED BY <1>1, <1>2, OtherSteps DEF Handle

LEMMA MonitorInit == Init => MonitorInv
<1>1. Held(EmptyBuffer) = {} /\ EmptyBuffer \in Buffers /\ <<>> \in Seq(Counter)
  BY DEF Held, EmptyBuffer, Buffers
<1> QED BY <1>1 DEF Init, MonitorInv, TypeOK, WindowInv, Buffers

\* Except on a resynchronisation every step publishes counters in order, from
\* the stretch between the old position and the new one, for every size of the
\* ring and every modulus: BusMonitorFrameHandler publishes no frame twice or
\* ahead of its predecessor, whatever slots it is given.
THEOREM MonitorInCounterOrder == Spec => InCounterOrder
<1> DEFINE Ordered == (expected # NoCounter /\ ~\E fc \in Counter : Resync(fc, TRUE)) =>
                         InStretch(out', expected, expected')
<1>1. MonitorInv /\ [Next]_vars => MonitorInv' /\ [Ordered]_vars
  <2> SUFFICES ASSUME MonitorInv, [Next]_vars PROVE MonitorInv' /\ [Ordered]_vars
    OBVIOUS
  <2>1. CASE UNCHANGED vars
    BY <2>1 DEF vars, MonitorInv, TypeOK, WindowInv, Held
  <2>2. CASE Next
    <3>1. PICK fc \in Counter, valid \in BOOLEAN : Handle(fc, valid)
      BY <2>2 DEF Next
    <3> QED BY <3>1, HandleKeeps
  <2> QED BY <2>1, <2>2
<1>2. [Ordered]_vars =>
         [(expected # NoCounter /\ ~\E fc \in Counter : Resync(fc, TRUE)) =>
            /\ Distance(expected, expected') < Modulo \div 2 + RingSize
            /\ \A i \in 1 .. Len(out') :
                  Distance(expected, out'[i]) < Distance(expected, expected')
            /\ \A i, j \in 1 .. Len(out') :
                  i < j => Distance(expected, out'[i]) < Distance(expected, out'[j])]_vars
  BY DEF InStretch
<1> QED BY <1>1, <1>2, MonitorInit, PTL DEF Spec, InCounterOrder

-----------------------------------------------------------------------------
(* A stream that starts elsewhere *)

\* The last n counters up to fc.
Recent(fc, n) == {(fc - i) % Modulo : i \in 0 .. n - 1}

\* The valid frames dropped in a row, lastFc the last of them: while they land
\* far behind the position all of them are remembered, and from the counter a
\* ring before it the run ends where the position stands.
StreamInv ==
    /\ dropRun \in Nat
    /\ dropRun > 0 =>
          /\ expected # NoCounter /\ lastFc \in Counter
          /\ Distance(lastFc, expected) > 0
          /\ \/ /\ Distance(lastFc, expected) > RingSize
                /\ dropRun < RingSize
                /\ Recent(lastFc, dropRun) \subseteq farBehind
             \/ /\ Distance(lastFc, expected) <= RingSize
                /\ dropRun + Distance(lastFc, expected) <= 2 * RingSize

FeedInv ==
    /\ feed \in {"ring", "any"}
    /\ feed = "ring" => dropRun = 0
    /\ feed = "any" => MonitorInv /\ StreamInv

\* Only a frame behind the position is dropped.
LEMMA OnlyBehindDropped ==
  ASSUME MonitorInv, NEW fc \in Counter, Handle(fc, TRUE), MCDropped(fc)
  PROVE  DropBehind(fc, TRUE)
<1>1. expected \in Counter \cup {NoCounter} /\ buffer \in Buffers
  BY DEF MonitorInv, TypeOK, Buffers
<1>2. fc \in Range(<<fc>>)
  <2>1. 1 \in DOMAIN <<fc>> /\ <<fc>>[1] = fc
    OBVIOUS
  <2> QED BY <2>1 DEF Range
<1>3. ~First(fc, TRUE) /\ ~Resync(fc, TRUE) /\ ~Untrusted(fc, TRUE)
  BY <1>2 DEF First, Resync, Untrusted, MCDropped
<1>4. ~Ahead(fc, TRUE)
  BY <1>1 DEF Ahead, Kind, MCDropped, Buffers
<1>5. ASSUME OnTime(fc, TRUE) PROVE FALSE
  <2> DEFINE buf == [buffer EXCEPT ![fc] = Kind(TRUE)]
             n == RunLength(buf, fc)
  <2>1. buf[fc] = "valid" /\ out' = Published(buf, fc, Taken(buf, fc))
    BY <1>1, <1>5 DEF OnTime, Kind, Buffers
  <2> HIDE DEF buf
  <2>2. n # 0
    <3>1. n = 0 => buf[(fc + 0) % Modulo] = "absent"
      BY RunLengthIs, Sizes DEF RunTo
    <3>2. (fc + 0) % Modulo = fc
      <4>1. fc + 0 = fc /\ fc % Modulo = fc
        BY Wraps DEF Counter
      <4> QED BY <4>1
    <3> QED BY <2>1, <3>1, <3>2
  <2>3. fc \in Taken(buf, fc) /\ Taken(buf, fc) \in SUBSET Counter
    BY <2>2, RunLengthIs, DistanceSelf, Sizes DEF Taken
  <2> QED BY <2>1, <2>3, PublishedIs DEF MCDropped
<1>6. ASSUME Overrun(fc, TRUE) PROVE FALSE
  <2> DEFINE edge == (fc - ReorderWindow) % Modulo
             buf == [buffer EXCEPT ![fc] = "valid"]
             rest == Undrained(buf, edge)
             p == Published(buf, expected, Drained(buf, edge))
             q == Published(rest, edge, Taken(rest, edge))
  <2>1. /\ expected \in Counter /\ Distance(expected, fc) > ReorderWindow /\ buf[fc] = "valid"
        /\ out' = p \o q /\ buffer' = Left(rest, edge)
    BY <1>1, <1>6 DEF Overrun, OverrunAt, Buffers
  <2>2. edge \in Counter /\ Distance(expected, edge) = Distance(expected, fc) - ReorderWindow
    <3>1. ReorderWindow \in 0 .. Modulo /\ ReorderWindow <= Distance(expected, fc)
      BY <2>1, DistanceType, Sizes
    <3> QED BY <2>1, <3>1, EdgeIs
  <2>3. rest[fc] = "valid"
    <3>1. ~(Distance(expected, fc) < Distance(expected, edge))
      BY <2>1, <2>2, DistanceType, Sizes
    <3> QED BY <2>1, <3>1 DEF Undrained, Drained
  <2> HIDE DEF edge, buf, rest
  <2>4. Taken(rest, edge) \in SUBSET Counter /\ Drained(buf, edge) \in SUBSET Counter
    BY DEF Taken, Drained, Held
  <2>5. p \in Seq(Counter) /\ q \in Seq(Counter)
    BY <2>1, <2>2, <2>4, PublishedIs
  <2>6. CASE fc \in Taken(rest, edge)
    <3>1. fc \in Range(q)
      BY <2>2, <2>3, <2>4, <2>6, PublishedIs
    <3> HIDE DEF p, q
    <3>2. PICK i \in 1 .. Len(q) : q[i] = fc
      BY <2>5, <3>1 DEF Range
    <3>3. Len(p) + i \in DOMAIN (p \o q) /\ (p \o q)[Len(p) + i] = fc
      BY <2>5, <3>2
    <3> QED BY <2>1, <3>3 DEF MCDropped, Range
  <2>7. CASE fc \notin Taken(rest, edge)
    BY <2>1, <2>3, <2>7 DEF Left, MCDropped
  <2> QED BY <2>6, <2>7
<1> QED BY <1>3, <1>4, <1>5, <1>6 DEF Handle

\* The recent counters up to the next one.
LEMMA RecentNext ==
  ASSUME NEW x \in Counter, NEW n \in 0 .. Modulo - 1
  PROVE  Recent((x + 1) % Modulo, n + 1) \subseteq Recent(x, n) \cup {(x + 1) % Modulo}
<1> DEFINE y == (x + 1) % Modulo
<1>1. y \in Counter /\ y = IF x + 1 < Modulo THEN x + 1 ELSE x + 1 - Modulo
  BY Forward, Sizes
<1> HIDE DEF y
<1>2. ASSUME NEW i \in 0 .. n, i # 0
      PROVE  (y - i) % Modulo = (x - (i - 1)) % Modulo
  <2>1. i \in 0 .. Modulo /\ i - 1 \in 0 .. Modulo
    BY <1>2, Sizes
  <2>2. (y - i) % Modulo = IF y >= i THEN y - i ELSE y - i + Modulo
    BY <1>1, <2>1, Backward
  <2>3. (x - (i - 1)) % Modulo = IF x >= i - 1 THEN x - (i - 1) ELSE x - (i - 1) + Modulo
    BY <2>1, Backward
  <2> QED BY <1>1, <2>1, <2>2, <2>3, Sizes DEF Counter
<1>3. (y - 0) % Modulo = y
  <2>1. y - 0 = y /\ y % Modulo = y
    BY <1>1, Wraps DEF Counter
  <2> QED BY <2>1
<1>4. ASSUME NEW c \in Recent(y, n + 1) PROVE c \in Recent(x, n) \cup {y}
  <2>1. PICK i \in 0 .. (n + 1) - 1 : c = (y - i) % Modulo
    BY <1>4 DEF Recent
  <2>2. CASE i = 0
    BY <1>3, <2>1, <2>2
  <2>3. CASE i # 0
    <3>1. i \in 0 .. n /\ i - 1 \in 0 .. n - 1
      BY <2>1, <2>3
    <3>2. c = (x - (i - 1)) % Modulo
      BY <1>2, <2>1, <2>3, <3>1
    <3> QED BY <3>1, <3>2 DEF Recent
  <2> QED BY <2>2, <2>3
<1> QED BY <1>4 DEF y

\* They are as many as the run is long.
LEMMA RecentCount ==
  ASSUME NEW x \in Counter, NEW n \in 0 .. Modulo, NEW S \in SUBSET Counter,
         Recent(x, n) \subseteq S
  PROVE  n <= Cardinality(S)
<1> DEFINE f == [i \in 0 .. n - 1 |-> (x - i) % Modulo]
<1>1. f \in [0 .. n - 1 -> S]
  BY DEF Recent
<1>2. ASSUME NEW i \in 0 .. n - 1, NEW j \in 0 .. n - 1, f[i] = f[j] PROVE i = j
  <2>1. i \in 0 .. Modulo /\ j \in 0 .. Modulo /\ i < Modulo /\ j < Modulo
    BY Sizes
  <2>2. (x - i) % Modulo = IF x >= i THEN x - i ELSE x - i + Modulo
    BY <2>1, Backward
  <2>3. (x - j) % Modulo = IF x >= j THEN x - j ELSE x - j + Modulo
    BY <2>1, Backward
  <2>4. (x - i) % Modulo = (x - j) % Modulo
    BY <1>2
  <2> QED BY <2>1, <2>2, <2>3, <2>4, Sizes DEF Counter
<1>3. f \in Injection(0 .. n - 1, S)
  BY <1>1, <1>2 DEF Injection, IsInjective
<1>4. Cardinality(0 .. n - 1) <= Cardinality(S)
  BY <1>3, SomeCounters, FS_Injection
<1>5. Cardinality(0 .. n - 1) = n
  BY FS_Interval, Sizes
<1> QED BY <1>4, <1>5

\* One more frame is dropped.
LEMMA DroppedStep ==
  ASSUME MonitorInv, StreamInv, NEW fc \in Counter, DropBehind(fc, TRUE), lastFc' = fc,
         dropRun' = IF lastFc # NoCounter /\ fc = (lastFc + 1) % Modulo THEN dropRun + 1 ELSE 1
  PROVE  StreamInv'
<1> DEFINE e == Distance(fc, expected)
<1>1. /\ expected \in Counter /\ Distance(expected, fc) >= Modulo \div 2 /\ expected' = expected
      /\ farBehind' = FarBehindWith(fc) /\ Cardinality(FarBehindWith(fc)) < RingSize
      /\ farBehind \subseteq Counter /\ dropRun \in Nat
  BY DEF MonitorInv, TypeOK, DropBehind, Behind, ResyncAfter, StreamInv
<1>2. e \in Nat /\ e > 0
  <2>1. fc # expected
    BY <1>1, DistanceSelf, Sizes
  <2>2. e # 0
    BY <1>1, <2>1, DistanceSelf, DistanceInjective
  <2> QED BY <1>1, <2>2, DistanceType
<1> HIDE DEF e
<1>3. /\ farBehind' = IF e <= RingSize THEN {} ELSE farBehind \cup {fc}
      /\ farBehind' \in SUBSET Counter
  BY <1>1 DEF FarBehindWith, e
<1>4. CASE dropRun' = 1
  <2>1. CASE e > RingSize
    <3>1. Recent(fc, 1) = {fc}
      <4>1. fc - 0 = fc /\ fc % Modulo = fc /\ 0 .. 1 - 1 = {0}
        BY Wraps DEF Counter
      <4> QED BY <4>1 DEF Recent
    <3>2. Recent(fc, 1) \subseteq farBehind'
      BY <1>2, <1>3, <2>1, <3>1, Sizes
    <3> QED BY <1>1, <1>2, <1>4, <2>1, <3>2, Sizes DEF StreamInv, e, Counter, NoCounter
  <2>2. CASE e <= RingSize
    BY <1>1, <1>2, <1>4, <2>2, Sizes DEF StreamInv, e, Counter, NoCounter
  <2> QED BY <1>2, <2>1, <2>2, Sizes
<1>5. CASE dropRun > 0 /\ dropRun' = dropRun + 1 /\ fc = (lastFc + 1) % Modulo
  <2> DEFINE d == Distance(lastFc, expected)
  <2>1. lastFc \in Counter /\ d > 0 /\ d \in Nat
    BY <1>1, <1>5, DistanceType DEF StreamInv
  <2>2. e = d - 1
    BY <1>1, <1>5, <2>1, DistanceShift, Sizes DEF e
  <2>3. \/ d > RingSize /\ dropRun < RingSize /\ Recent(lastFc, dropRun) \subseteq farBehind
        \/ d <= RingSize /\ dropRun + d <= 2 * RingSize
    BY <1>5 DEF StreamInv
  <2> HIDE DEF d
  <2>4. CASE e > RingSize
    <3>1. dropRun < RingSize /\ Recent(lastFc, dropRun) \subseteq farBehind
      BY <2>1, <2>2, <2>3, <2>4, Sizes
    <3>2. dropRun \in 0 .. Modulo - 1 /\ dropRun + 1 \in 0 .. Modulo
      BY <1>1, <3>1, Sizes
    <3>3. Recent(fc, dropRun + 1) \subseteq farBehind'
      BY <1>2, <1>3, <1>5, <2>1, <2>4, <3>1, <3>2, RecentNext, Sizes
    <3>4. dropRun + 1 <= Cardinality(farBehind')
      BY <1>3, <3>2, <3>3, RecentCount
    <3>5. Cardinality(farBehind') \in Nat /\ Cardinality(farBehind') < RingSize
      BY <1>1, <1>3, SomeCounters
    <3>6. dropRun' < RingSize
      BY <1>1, <1>5, <3>4, <3>5, Sizes
    <3> QED BY <1>1, <1>2, <1>5, <2>4, <3>3, <3>6 DEF StreamInv, e, Counter, NoCounter
  <2>5. CASE e <= RingSize
    <3>1. dropRun' + e <= 2 * RingSize
      BY <1>1, <1>5, <2>1, <2>2, <2>3, <2>5, Sizes
    <3> QED BY <1>1, <1>2, <1>5, <2>5, <3>1 DEF StreamInv, e, Counter, NoCounter
  <2> QED BY <1>2, <2>4, <2>5, Sizes
<1>6. dropRun' = 1 \/ (dropRun > 0 /\ dropRun' = dropRun + 1 /\ fc = (lastFc + 1) % Modulo)
  BY <1>1
<1> QED BY <1>4, <1>5, <1>6

LEMMA FeedStep ==
  ASSUME FeedInv, [MCNext]_mcVars
  PROVE  FeedInv'
<1>1. CASE UNCHANGED mcVars
  BY <1>1 DEF mcVars, allVars, vars, FeedInv, StreamInv, MonitorInv, TypeOK, WindowInv, Held
<1>2. CASE MCRing
  BY <1>2 DEF MCRing, FeedInv
<1>3. CASE MCAny
  <2>1. PICK fc \in Counter, valid \in BOOLEAN :
          /\ Handle(fc, valid)
          /\ lastFc' = fc
          /\ dropRun' = IF ~(valid /\ MCDropped(fc)) THEN 0
                        ELSE IF lastFc # NoCounter /\ fc = (lastFc + 1) % Modulo THEN dropRun + 1
                        ELSE 1
    BY <1>3 DEF MCAny
  <2>2. feed = "any" /\ feed' = "any" /\ MonitorInv /\ StreamInv
    BY <1>3 DEF MCAny, FeedInv
  <2>3. MonitorInv'
    BY <2>1, <2>2, HandleKeeps
  <2>4. CASE ~(valid /\ MCDropped(fc))
    BY <2>1, <2>2, <2>3, <2>4 DEF FeedInv, StreamInv
  <2>5. CASE valid /\ MCDropped(fc)
    <3>1. DropBehind(fc, TRUE)
      BY <2>1, <2>2, <2>5, OnlyBehindDropped
    <3>2. StreamInv'
      BY <2>1, <2>2, <2>5, <3>1, DroppedStep
    <3> QED BY <2>2, <2>3, <3>2 DEF FeedInv
  <2> QED BY <2>4, <2>5
<1> QED BY <1>1, <1>2, <1>3 DEF MCNext

\* Fewer than two ring lengths of valid frames with consecutive counters are
\* dropped in a row, for every size of the ring and every modulus: a stream
\* whose counter restarted anywhere is picked up again by
\* _handle_frame_behind_expected, wherever its first frame lands.
THEOREM MonitorPicksStreamUp == MCSpec => []PicksStreamUp
<1>1. MCInit => FeedInv
  BY MonitorInit DEF MCInit, RingInit, FeedInv, StreamInv
<1>2. FeedInv => PicksStreamUp
  <2> SUFFICES ASSUME FeedInv, dropRun > 0 PROVE dropRun < 2 * RingSize
    BY Sizes DEF FeedInv, StreamInv, PicksStreamUp
  <2>1. /\ dropRun \in Nat /\ expected \in Counter \cup {NoCounter} /\ expected # NoCounter
        /\ lastFc \in Counter /\ StreamInv
    BY DEF FeedInv, StreamInv, MonitorInv, TypeOK
  <2>2. Distance(lastFc, expected) \in Nat
    BY <2>1, DistanceType
  <2> QED BY <2>1, <2>2, Sizes DEF StreamInv
<1> QED BY <1>1, <1>2, FeedStep, PTL DEF MCSpec

-----------------------------------------------------------------------------
(* The numbers behind the counters *)

\* A quotient leaves one remainder.
LEMMA OneRemainder ==
  ASSUME NEW M \in Nat \ {0}, NEW p \in Int, NEW q \in Int,
         NEW r \in 0 .. M - 1, NEW s \in 0 .. M - 1, p * M + r = q * M + s
  PROVE  r = s
<1>1. p - q \in Int /\ (p - q) * M = s - r
  OBVIOUS
<1>2. \A k \in Int : (k >= 1 => k * M >= M) /\ (k <= -1 => k * M <= -M)
  OBVIOUS
<1>3. ~(p - q >= 1) /\ ~(p - q <= -1)
  BY <1>1, <1>2
<1>4. p = q
  BY <1>3
<1> QED BY <1>4

LEMMA Quotient ==
  ASSUME NEW M \in Nat \ {0}, NEW a \in Int
  PROVE  \E q \in Int : a = q * M + (a % M) /\ a % M \in 0 .. M - 1
<1>1. a \div M \in Int /\ a = (a \div M) * M + (a % M) /\ a % M \in 0 .. M - 1
  OBVIOUS
<1> WITNESS a \div M \in Int
<1> QED BY <1>1

\* The difference of two numbers can be read off their remainders.
LEMMA RemainderOfDifference ==
  ASSUME NEW M \in Nat \ {0}, NEW m \in Int, NEW n \in Int
  PROVE  ((n % M) - (m % M)) % M = (n - m) % M
<1>1. PICK p \in Int : m = p * M + (m % M) /\ m % M \in 0 .. M - 1
  BY Quotient
<1>2. PICK q \in Int : n = q * M + (n % M) /\ n % M \in 0 .. M - 1
  BY Quotient
<1> DEFINE x == (n % M) - (m % M)
           y == n - m
<1>3. x \in Int /\ y \in Int /\ y = (q - p) * M + x
  BY <1>1, <1>2
<1> HIDE DEF x, y
<1>4. PICK u \in Int : x = u * M + (x % M) /\ x % M \in 0 .. M - 1
  BY <1>3, Quotient
<1>5. PICK v \in Int : y = v * M + (y % M) /\ y % M \in 0 .. M - 1
  BY <1>3, Quotient
<1> DEFINE r == x % M
           s == y % M
<1>6. r \in 0 .. M - 1 /\ s \in 0 .. M - 1 /\ (q - p) * M + (u * M + r) = v * M + s
  BY <1>3, <1>4, <1>5
<1> HIDE DEF r, s
<1>7. (q - p) + u \in Int /\ ((q - p) + u) * M + r = v * M + s
  BY <1>6
<1>8. r = s
  BY <1>6, <1>7, OneRemainder
<1> QED BY <1>8 DEF r, s, x, y

\* The numbers of one cycle of the counter, from the first frame on.
Number == FirstFrame .. FirstFrame + Modulo - 1

LEMMA NumberRange ==
  /\ FirstFrame \in Nat /\ MaxFrames \in Nat /\ MaxFrames >= 1 /\ 2 * MaxFrames <= Modulo - 2
  /\ MaxFrames < Modulo \div 2
  BY RingAssumption, BusMonitorAssumption

\* The counter of a number, and how far two of them are apart.
LEMMA CounterOf ==
  ASSUME NEW m \in Number, NEW n \in Number
  PROVE  /\ n % Modulo \in Counter
         /\ NumberOf(n % Modulo) = n
         /\ Distance(m % Modulo, n % Modulo) = IF m <= n THEN n - m ELSE n - m + Modulo
<1>1. Modulo \in Nat \ {0} /\ FirstFrame \in Int /\ m \in Int /\ n \in Int
  BY NumberRange, Sizes DEF Number
<1>2. n % Modulo \in Counter
  BY <1>1, Sizes DEF Counter
<1>3. Distance(m % Modulo, n % Modulo) = (n - m) % Modulo
  BY <1>1, RemainderOfDifference DEF Distance
<1>4. Distance(m % Modulo, n % Modulo) = IF m <= n THEN n - m ELSE n - m + Modulo
  <2>1. CASE m <= n
    <3>1. n - m \in Int /\ n - m \in Counter
      BY <1>1, <2>1, Sizes DEF Number, Counter
    <3> QED BY <1>3, <2>1, <3>1, Wraps
  <2>2. CASE ~(m <= n)
    <3>1. n - m \in Int /\ n - m \in -Modulo .. -1
      BY <1>1, <2>2, Sizes DEF Number
    <3> QED BY <1>3, <2>2, <3>1, Wraps
  <2> QED BY <2>1, <2>2
<1>5. NumberOf(n % Modulo) = n
  <2>1. Distance(FirstFrame % Modulo, n % Modulo) = (n - FirstFrame) % Modulo
    BY <1>1, RemainderOfDifference DEF Distance
  <2>2. n - FirstFrame \in Int /\ n - FirstFrame \in Counter
    BY <1>1, Sizes DEF Number, Counter
  <2>3. (n - FirstFrame) % Modulo = n - FirstFrame
    BY <2>2, Wraps
  <2> QED BY <1>1, <2>1, <2>3 DEF NumberOf
<1> QED BY <1>2, <1>4, <1>5

\* Every counter has a number.
LEMMA NumberBehind ==
  ASSUME NEW c \in Counter
  PROVE  NumberOf(c) \in Number /\ NumberOf(c) % Modulo = c
<1> DEFINE f == FirstFrame % Modulo
           d == Distance(f, c)
           n == FirstFrame + d
<1>1. Modulo \in Nat \ {0} /\ FirstFrame \in Int /\ c \in Int
  BY NumberRange, Sizes DEF Counter
<1>2. f \in Counter
  BY <1>1, Sizes DEF Counter
<1>3. d \in Counter
  BY <1>2, DistanceIs
<1> HIDE DEF d
<1>4. n \in Number
  BY <1>1, <1>3, Sizes DEF Number, Counter
<1>5. n % Modulo \in Counter /\ NumberOf(n % Modulo) = n
  BY <1>4, CounterOf
<1>6. Distance(f, n % Modulo) = d
  <2>1. Distance(f, n % Modulo) \in Int
    BY <1>2, <1>5, DistanceIs DEF Counter
  <2>2. FirstFrame + Distance(f, n % Modulo) = FirstFrame + d
    BY <1>5 DEF NumberOf
  <2>3. d \in Int
    BY <1>3 DEF Counter
  <2> DEFINE x == Distance(f, n % Modulo)
  <2>4. x \in Int /\ FirstFrame + x = FirstFrame + d
    BY <2>1, <2>2
  <2> HIDE DEF x
  <2>5. x = d
    BY <1>1, <2>3, <2>4
  <2> QED BY <2>5 DEF x
<1>7. n % Modulo = c
  BY <1>2, <1>5, <1>6, DistanceInjective DEF d
<1>8. NumberOf(c) = n
  BY DEF NumberOf, d
<1> QED BY <1>4, <1>7, <1>8

-----------------------------------------------------------------------------
(* What moves with the position *)

\* What is taken from start on without a gap is held, and what is valid of it
\* is published; the rest stays as it is.
LEMMA TakeKeeps ==
  ASSUME NEW buf \in Buffers, NEW start \in Counter, NEW c \in Counter
  PROVE  /\ Left(buf, start)[c] = buf[c]
              \/ /\ Left(buf, start)[c] = "absent"
                 /\ buf[c] = "valid" => c \in Range(Published(buf, start, Taken(buf, start)))
         /\ Distance(start, c) < RunLength(buf, start) => buf[c] # "absent"
<1> DEFINE n == RunLength(buf, start)
<1>1. n \in 0 .. Modulo /\ RunTo(buf, start, n)
  BY RunLengthIs
<1>2. Taken(buf, start) = {d \in Counter : Distance(start, d) < n}
  BY DEF Taken
<1> HIDE DEF n
<1>3. Taken(buf, start) \in SUBSET Counter
  BY <1>2
<1>4. \A d \in Taken(buf, start) : buf[d] = "valid" => d \in Range(Published(buf, start, Taken(buf, start)))
  BY <1>3, PublishedIs
<1>5. Left(buf, start)[c] = IF c \in Taken(buf, start) THEN "absent" ELSE buf[c]
  BY DEF Left
<1>6. Distance(start, c) < n => buf[c] # "absent"
  <2>1. Distance(start, c) \in Nat /\ c = (start + Distance(start, c)) % Modulo
    BY DistanceType, ForwardDistance
  <2>2. Distance(start, c) < n => Distance(start, c) \in 0 .. n - 1
    BY <1>1, <2>1
  <2> QED BY <1>1, <2>1, <2>2 DEF RunTo
<1> QED BY <1>4, <1>5, <1>6 DEF n

\* The position moves over c only if c is held, or further behind the frame
\* than the ring reaches.
PassesOver(buf, fc, c) ==
    \/ buf[c] # "absent"
    \/ Distance(expected, c) + ReorderWindow < Distance(expected, fc)

\* The position moves to a frame that was expected, or overran the window.
LEMMA MovesOn ==
  ASSUME MonitorInv, NEW fc \in Counter, NEW valid \in BOOLEAN, NEW c \in Counter,
         OnTime(fc, valid) \/ Overrun(fc, valid)
  PROVE  LET buf == [buffer EXCEPT ![fc] = Kind(valid)]
         IN  /\ \/ buffer'[c] = buf[c]
                \/ buffer'[c] = "absent" /\ (buf[c] = "valid" => c \in Range(out'))
             /\ Distance(expected, c) < Distance(expected, expected') => PassesOver(buf, fc, c)
<1> DEFINE buf == [buffer EXCEPT ![fc] = Kind(valid)]
<1>1. expected \in Counter /\ buffer \in Buffers /\ buf \in Buffers
  BY DEF MonitorInv, TypeOK, OnTime, Overrun, OverrunAt, Buffers, Kind
<1>2. CASE OnTime(fc, valid)
  <2>1. fc = expected
    BY <1>1, <1>2, DistanceSelf, DistanceInjective DEF OnTime
  <2>2. /\ out' = Published(buf, fc, Taken(buf, fc))
        /\ buffer' = Left(buf, fc) /\ expected' = After(buf, fc)
    BY <1>2 DEF OnTime
  <2> HIDE DEF buf
  <2> DEFINE n == RunLength(buf, fc)
  <2>3. n \in 0 .. Modulo /\ expected' = (fc + n) % Modulo
    BY <2>2, RunLengthIs DEF After
  <2>4. Distance(expected, expected') <= n
    <3>1. CASE n = Modulo
      <4>1. Distance(expected, expected') \in Counter
        BY <1>1, <2>1, <2>3, Forward, DistanceIs
      <4> QED BY <3>1, <4>1, Sizes DEF Counter
    <3>2. CASE n < Modulo
      <4>1. n \in 0 .. Modulo - 1
        BY <2>3, <3>2, Sizes
      <4> HIDE DEF n
      <4>2. Distance(expected, expected') = n
        BY <2>1, <2>3, <4>1, DistanceForward
      <4> QED BY <4>1, <4>2, Sizes
    <3> QED BY <2>3, <3>1, <3>2, Sizes
  <2>5. Distance(expected, c) < Distance(expected, expected') => buf[c] # "absent"
    <3>1. Distance(fc, c) < n => buf[c] # "absent"
      BY <1>1, TakeKeeps
    <3>2. Distance(expected, c) \in Nat /\ Distance(expected, expected') \in Nat /\ n \in Nat
      BY <1>1, <2>1, <2>3, Forward, DistanceType, Sizes
    <3> QED BY <2>1, <2>4, <3>1, <3>2
  <2>6. \/ buffer'[c] = buf[c]
        \/ buffer'[c] = "absent" /\ (buf[c] = "valid" => c \in Range(out'))
    BY <1>1, <2>2, TakeKeeps
  <2> QED BY <2>5, <2>6 DEF buf, PassesOver
<1>3. CASE Overrun(fc, valid)
  <2> DEFINE d == Distance(expected, fc)
             edge == (fc - ReorderWindow) % Modulo
             e == Distance(expected, edge)
             rest == Undrained(buf, edge)
             n == RunLength(rest, edge)
             p == Published(buf, expected, Drained(buf, edge))
             q == Published(rest, edge, Taken(rest, edge))
  <2>1. d \in Counter /\ d > ReorderWindow /\ d < Modulo \div 2
    BY <1>1, <1>3, DistanceIs DEF Overrun, OverrunAt
  <2>2. edge \in Counter /\ e = d - ReorderWindow
    BY <1>1, <2>1, EdgeIs, Sizes DEF Counter
  <2>3. buf = [buffer EXCEPT ![fc] = "valid"]
    BY <1>3 DEF Overrun, OverrunAt, Kind
  <2>4. /\ out' = p \o q /\ buffer' = Left(rest, edge) /\ expected' = After(rest, edge)
    BY <1>3, <2>3 DEF Overrun, OverrunAt
  <2>5. /\ Drained(buf, edge) = {x \in Held(buf) : Distance(expected, x) < e}
        /\ rest = [x \in Counter |-> IF x \in Drained(buf, edge) THEN "absent" ELSE buf[x]]
    BY DEF Drained, Undrained
  <2> HIDE DEF d, edge, e, buf, rest, p, q, n
  <2>6. rest \in Buffers /\ Drained(buf, edge) \in SUBSET Counter /\ Taken(rest, edge) \in SUBSET Counter
    BY <1>1, <2>5 DEF Buffers, Held, Taken
  <2>7. /\ p \in Seq(Counter) /\ q \in Seq(Counter)
        /\ \A x \in Drained(buf, edge) : buf[x] = "valid" => x \in Range(p)
    BY <1>1, <2>2, <2>6, PublishedIs DEF p, q
  <2>8. Range(p) \subseteq Range(out') /\ Range(q) \subseteq Range(out')
    <3>1. /\ Len(p) \in Nat /\ Len(q) \in Nat /\ out' = p \o q
          /\ \A i \in 1 .. Len(p) : i \in 1 .. Len(p \o q) /\ (p \o q)[i] = p[i]
          /\ \A i \in 1 .. Len(q) : Len(p) + i \in 1 .. Len(p \o q) /\ (p \o q)[Len(p) + i] = q[i]
      BY <2>4, <2>7
    <3>2. Range(p) \subseteq Range(p \o q)
      BY <2>7, <3>1 DEF Range
    <3>3. ASSUME NEW x \in Range(q) PROVE x \in Range(p \o q)
      <4>1. PICK i \in 1 .. Len(q) : x = q[i]
        BY <2>7 DEF Range
      <4>2. Len(p) + i \in DOMAIN (p \o q) /\ (p \o q)[Len(p) + i] = x
        BY <2>7, <3>1, <4>1
      <4> QED BY <4>2 DEF Range
    <3> QED BY <3>1, <3>2, <3>3
  <2>9. /\ buffer'[c] = rest[c] \/ (buffer'[c] = "absent" /\ (rest[c] = "valid" => c \in Range(q)))
        /\ Distance(edge, c) < n => rest[c] # "absent"
    BY <2>2, <2>4, <2>6, TakeKeeps DEF q, n
  <2>10. rest[c] = buf[c] \/ (rest[c] = "absent" /\ (buf[c] = "valid" => c \in Range(p)))
    BY <2>5, <2>7
  <2>11. rest[c] # "absent" => buf[c] # "absent"
    BY <2>10
  <2>12. /\ \/ buffer'[c] = buf[c]
            \/ buffer'[c] = "absent" /\ (buf[c] = "valid" => c \in Range(out'))
    BY <2>8, <2>9, <2>10
  <2>13. n \in 0 .. Modulo /\ expected' = (edge + n) % Modulo
    BY <2>2, <2>4, RunLengthIs DEF After, n
  <2>14. /\ Distance(expected, c) \in Nat /\ Distance(expected, c) < Modulo
         /\ e \in Nat /\ d \in Nat /\ n \in Nat
    BY <1>1, <2>1, <2>2, <2>13, DistanceType, Sizes DEF Counter, e
  <2>15. Distance(expected, expected') <= e + n
    <3>1. expected' \in Counter
      BY <2>2, <2>13, Forward
    <3>2. Distance(expected, expected') \in Nat /\ Distance(expected, expected') < Modulo
      BY <1>1, <3>1, DistanceType
    <3>3. CASE e + n < Modulo
      <4>1. Distance(expected, expected') = e + n
        BY <1>1, <2>2, <2>13, <2>14, <3>3, BeyondEdge DEF e
      <4> QED BY <2>14, <4>1
    <3> QED BY <2>14, <3>2, <3>3, Sizes
  <2>16. ASSUME Distance(expected, c) < Distance(expected, expected'), e <= Distance(expected, c)
         PROVE  buf[c] # "absent"
    <3>1. e \in 0 .. Modulo /\ edge = (expected + e) % Modulo
      BY <1>1, <2>2, <2>14, <2>16, ForwardDistance, Sizes DEF e
    <3>2. Distance(edge, c) = Distance(expected, c) - e
      BY <1>1, <2>16, <3>1, DistanceShift
    <3>3. Distance(expected, expected') \in Nat
      BY <1>1, <2>2, <2>13, Forward, DistanceType
    <3>4. Distance(edge, c) < n
      BY <2>14, <2>15, <2>16, <3>2, <3>3
    <3> QED BY <2>9, <2>11, <3>4
  <2>17. Distance(expected, c) < Distance(expected, expected') => PassesOver(buf, fc, c)
    BY <2>2, <2>14, <2>16, Sizes DEF PassesOver, d
  <2> QED BY <2>12, <2>17 DEF buf
<1> QED BY <1>2, <1>3

-----------------------------------------------------------------------------
(* Behind the ring *)

\* The number the position stands for.
Position == NumberOf(expected)

\* The ring holds the newest frames.
GatewayInv ==
    /\ written \in FirstFrame - 1 .. FirstFrame + MaxFrames - 1
    /\ seen \in FirstFrame - 1 .. written
    /\ DOMAIN ring = {n \in FirstFrame .. written : n > written - RingSize}
    /\ \A n \in DOMAIN ring : ring[n] \in BOOLEAN

\* A pass holds different frames of the ring it was read from, none of which is
\* held in the buffer.
PassInv ==
    /\ pass \in Seq([n : Int, valid : BOOLEAN])
    /\ \A i \in 1 .. Len(pass) :
          /\ pass[i].n \in FirstFrame .. seen /\ pass[i].n > seen - RingSize
          /\ buffer[pass[i].n % Modulo] = "absent"
    /\ \A i, j \in 1 .. Len(pass) : i # j => pass[i].n # pass[j].n

\* The position stands behind everything published and moves up to what was
\* read; what is still to come of a pass it has not moved over, save the frames
\* before the first one published.
PositionInv ==
    /\ farBehind = {}
    /\ delivered \in Seq(Int)
    /\ delivered = <<>> <=> expected = NoCounter
    /\ delivered # <<>> =>
          /\ \A i \in 1 .. Len(delivered) : delivered[i] < Position
          /\ Position <= seen + 1
          /\ \A c \in Held(buffer) : NumberOf(c) <= seen
          /\ \A i \in 1 .. Len(pass) : pass[i].n >= Position \/ pass[i].n < delivered[1]

\* Where a valid frame is that was read and that the ring still holds.
ReadInv ==
    \A n \in DOMAIN ring :
        ring[n] /\ n <= seen =>
            \/ \E i \in 1 .. Len(pass) : pass[i].n = n /\ pass[i].valid
            \/ /\ delivered # <<>>
               /\ n <= delivered[1] \/ n \in Range(delivered) \/ buffer[n % Modulo] = "valid"

RingInv == MonitorInv /\ GatewayInv /\ PassInv /\ PositionInv /\ ReadInv

LEMMA RingInitInv == RingInit => RingInv
<1> SUFFICES ASSUME RingInit PROVE RingInv
  OBVIOUS
<1>1. MonitorInv /\ expected = NoCounter /\ farBehind = {}
  BY MonitorInit DEF RingInit, Init
<1>2. GatewayInv
  BY NumberRange, Sizes DEF RingInit, GatewayInv
<1>3. PassInv /\ PositionInv
  BY <1>1 DEF RingInit, PassInv, PositionInv
<1>4. ReadInv
  BY DEF RingInit, ReadInv
<1> QED BY <1>1, <1>2, <1>3, <1>4 DEF RingInv

\* What has been read is less than one cycle of the counter.
LEMMA ReadNumbers ==
  ASSUME GatewayInv
  PROVE  /\ written \in Int /\ seen \in Int /\ seen <= written
         /\ FirstFrame .. seen \subseteq Number /\ FirstFrame .. written \subseteq Number
         /\ seen + 1 - FirstFrame < Modulo \div 2
         /\ DOMAIN ring = {n \in FirstFrame .. written : n > written - RingSize}
  BY NumberRange, Sizes DEF GatewayInv, Number

\* The gateway overwrites the oldest frame.
LEMMA WriteKeeps ==
  ASSUME RingInv, NEW valid \in BOOLEAN, GatewayWrite(valid)
  PROVE  RingInv'
<1>1. /\ UNCHANGED <<expected, farBehind, buffer, out, seen, pass, delivered>>
      /\ written' = written + 1 /\ written < FirstFrame + MaxFrames - 1
      /\ ring' = [n \in {m \in DOMAIN ring : m > written + 1 - RingSize} \cup {written + 1} |->
                     IF n = written + 1 THEN valid ELSE ring[n]]
  BY DEF GatewayWrite, vars
<1>2. /\ written \in Int /\ seen \in Int /\ FirstFrame \in Nat /\ MaxFrames \in Nat
      /\ written \in FirstFrame - 1 .. FirstFrame + MaxFrames - 1
      /\ seen \in FirstFrame - 1 .. written
      /\ DOMAIN ring = {n \in FirstFrame .. written : n > written - RingSize}
      /\ \A n \in DOMAIN ring : ring[n] \in BOOLEAN
  BY NumberRange DEF RingInv, GatewayInv
<1>3. MonitorInv'
  BY <1>1 DEF RingInv, MonitorInv, TypeOK, WindowInv, Held
<1>4. GatewayInv'
  <2>1. DOMAIN ring' = {n \in FirstFrame .. written' : n > written' - RingSize}
    BY <1>1, <1>2, Sizes
  <2>2. \A n \in DOMAIN ring' : ring'[n] \in BOOLEAN
    BY <1>1, <1>2
  <2> QED BY <1>1, <1>2, <2>1, <2>2 DEF GatewayInv
<1>5. PassInv' /\ PositionInv'
  BY <1>1 DEF RingInv, PassInv, PositionInv, Position, NumberOf, Held
<1>6. ReadInv'
  <2>1. \A n \in DOMAIN ring' : n <= seen => n \in DOMAIN ring /\ ring'[n] = ring[n]
    BY <1>1, <1>2
  <2> QED BY <1>1, <2>1 DEF RingInv, ReadInv, Range
<1> QED BY <1>3, <1>4, <1>5, <1>6 DEF RingInv

\* A read pass lists every frame it is given once.
LEMMA SlotOrder ==
  ASSUME NEW F, IsFiniteSet(F), NEW lo \in Int,
         \A f \in F : f.n \in lo + 1 .. lo + RingSize,
         \A f, g \in F : f.n = g.n => f = g
  PROVE  ListOf(InSlotOrder(F), F)
<1> DEFINE s == InSlotOrder(F)
           key == [f \in F |-> f.n % RingSize]
<1>1. \A f \in F : f.n \in Int /\ f.n % RingSize \in Int
  BY Sizes
<1>2. ASSUME NEW f \in F, NEW g \in F, f.n % RingSize = g.n % RingSize PROVE f = g
  <2>1. PICK m \in Int, n \in Int : m = f.n /\ n = g.n
    BY <1>1
  <2>2. m \in lo + 1 .. lo + RingSize /\ n \in lo + 1 .. lo + RingSize /\ m % RingSize = n % RingSize
    BY <1>2, <2>1
  <2>3. RingSize \in Nat \ {0}
    BY Sizes
  <2>4. ((n % RingSize) - (m % RingSize)) % RingSize = (n - m) % RingSize
    BY <2>3, RemainderOfDifference
  <2>5. (n - m) % RingSize = 0
    <3>1. (n % RingSize) - (m % RingSize) = 0
      BY <2>2, <2>3
    <3> QED BY <2>3, <2>4, <3>1
  <2>6. PICK q \in Int : n - m = q * RingSize + 0
    <3>1. n - m \in Int
      OBVIOUS
    <3> QED BY <2>3, <2>5, <3>1, Quotient
  <2>7. (q >= 1 => q * RingSize >= RingSize) /\ (q <= -1 => q * RingSize <= -RingSize)
    BY <2>3
  <2>8. m = n
    BY <2>2, <2>3, <2>6, <2>7
  <2> QED BY <2>1, <2>8
<1>3. key \in [F -> Int] /\ \A f, g \in F : key[f] = key[g] => f = g
  BY <1>1, <1>2
<1>4. PICK t \in [1 .. Cardinality(F) -> F] :
             \A i, j \in 1 .. Cardinality(F) : i < j => key[t[i]] < key[t[j]]
  BY <1>3, SortExists
<1>5. s \in [1 .. Cardinality(F) -> F]
      /\ \A i, j \in 1 .. Cardinality(F) : i < j => s[i].n % RingSize < s[j].n % RingSize
  <2>1. \A i, j \in 1 .. Cardinality(F) : i < j => t[i].n % RingSize < t[j].n % RingSize
    BY <1>4
  <2> QED BY <1>4, <2>1 DEF InSlotOrder
<1> HIDE DEF s
<1>6. \A i, j \in 1 .. Cardinality(F) : i < j => key[s[i]] < key[s[j]]
  BY <1>5
<1>7. IsFiniteSet(F) /\ key \in [F -> Int] /\ s \in [1 .. Cardinality(F) -> F]
  BY <1>3, <1>5
<1> HIDE DEF key
<1>8. ListOf(s, F)
  BY <1>6, <1>7, SortCovers
<1> QED BY <1>8 DEF s

\* What a pass reads is ahead of the position.
LEMMA ReadKeeps ==
  ASSUME RingInv, ReadPass
  PROVE  RingInv'
<1> DEFINE F == {[n |-> m, valid |-> ring[m]] : m \in {k \in DOMAIN ring : k > seen}}
<1>1. /\ UNCHANGED <<expected, farBehind, buffer, out, written, ring, delivered>>
      /\ pass = <<>> /\ seen < written /\ seen' = written /\ pass' = InSlotOrder(F)
  BY DEF ReadPass, vars
<1>2. /\ written \in Int /\ seen \in Int /\ FirstFrame \in Nat
      /\ seen \in FirstFrame - 1 .. written
      /\ DOMAIN ring = {n \in FirstFrame .. written : n > written - RingSize}
      /\ \A n \in DOMAIN ring : ring[n] \in BOOLEAN
      /\ FirstFrame .. written \subseteq Number
  BY NumberRange, ReadNumbers DEF RingInv, GatewayInv
<1>3. /\ \A f \in F : f \in [n : Int, valid : BOOLEAN] /\ f.n \in DOMAIN ring /\ f.n > seen
      /\ \A f, g \in F : f.n = g.n => f = g
      /\ \A m \in DOMAIN ring : m > seen => \E f \in F : f.n = m /\ f.valid = ring[m]
  <2>1. ASSUME NEW f \in F
        PROVE  f \in [n : Int, valid : BOOLEAN] /\ f.n \in DOMAIN ring /\ f.n > seen
    <3>1. PICK m \in DOMAIN ring : m > seen /\ f = [n |-> m, valid |-> ring[m]]
      OBVIOUS
    <3> QED BY <1>2, <3>1
  <2>2. ASSUME NEW f \in F, NEW g \in F, f.n = g.n PROVE f = g
    BY <2>2
  <2>3. ASSUME NEW m \in DOMAIN ring, m > seen PROVE \E f \in F : f.n = m /\ f.valid = ring[m]
    <3> DEFINE f == [n |-> m, valid |-> ring[m]]
    <3>1. f \in F /\ f.n = m /\ f.valid = ring[m]
      BY <2>3
    <3> QED BY <3>1
  <2> QED BY <2>1, <2>2, <2>3
<1>4. IsFiniteSet(F)
  <2> DEFINE D == {k \in DOMAIN ring : k > seen}
  <2>1. IsFiniteSet(D)
    <3>1. IsFiniteSet(FirstFrame .. written)
      BY <1>2, FS_Interval
    <3> QED BY <1>2, <3>1, FS_Subset
  <2> HIDE DEF D
  <2>2. F = {[n |-> m, valid |-> ring[m]] : m \in D}
    BY DEF D
  <2> DEFINE h == [m \in D |-> [n |-> m, valid |-> ring[m]]]
  <2>3. h \in Surjection(D, F)
    BY <2>2 DEF Surjection
  <2> QED BY <2>1, <2>3, FS_Surjection
<1> HIDE DEF F
<1>5. /\ pass' \in Seq(F)
      /\ \A i, j \in 1 .. Len(pass') : i # j => pass'[i] # pass'[j]
      /\ \A f \in F : \E i \in 1 .. Len(pass') : pass'[i] = f
  <2> DEFINE lo == written - RingSize
  <2>1. lo \in Int /\ \A f \in F : f.n \in lo + 1 .. lo + RingSize
    BY <1>2, <1>3, Sizes
  <2>2. \A f, g \in F : f.n = g.n => f = g
    BY <1>3
  <2> HIDE DEF lo
  <2>3. ListOf(InSlotOrder(F), F)
    BY <1>4, <2>1, <2>2, SlotOrder
  <2> QED BY <1>1, <2>3 DEF ListOf
<1>6. \A i \in 1 .. Len(pass') : pass'[i] \in F
  BY <1>5
<1>7. MonitorInv' /\ GatewayInv'
  BY <1>1, <1>2 DEF RingInv, MonitorInv, GatewayInv, TypeOK, WindowInv, Held
<1>8. ASSUME NEW i \in 1 .. Len(pass') PROVE buffer[pass'[i].n % Modulo] = "absent"
  <2>1. pass'[i].n \in Number /\ pass'[i].n > seen
    BY <1>2, <1>3, <1>6
  <2>2. pass'[i].n % Modulo \in Counter /\ NumberOf(pass'[i].n % Modulo) = pass'[i].n
    BY <2>1, CounterOf
  <2>3. \A c \in Held(buffer) : NumberOf(c) <= seen
    BY DEF RingInv, MonitorInv, WindowInv, PositionInv
  <2>4. pass'[i].n % Modulo \notin Held(buffer)
    BY <1>2, <2>1, <2>2, <2>3 DEF Number
  <2> QED BY <2>2, <2>4 DEF Held
<1>9. PassInv'
  <2>1. pass' \in Seq([n : Int, valid : BOOLEAN])
    <3>1. PICK q : q = pass'
      OBVIOUS
    <3>2. q \in Seq(F) /\ F \subseteq [n : Int, valid : BOOLEAN]
      BY <1>3, <1>5, <3>1
    <3> DEFINE T == [n : Int, valid : BOOLEAN]
    <3>4. F \subseteq T
      BY <3>2
    <3> HIDE DEF T
    <3>5. q \in Seq(T)
      BY <3>2, <3>4
    <3> QED BY <3>1, <3>5 DEF T
  <2>2. \A i \in 1 .. Len(pass') : pass'[i].n \in FirstFrame .. written /\ pass'[i].n > written - RingSize
    BY <1>2, <1>3, <1>6
  <2>3. ASSUME NEW i \in 1 .. Len(pass'), NEW j \in 1 .. Len(pass'), i # j
        PROVE  pass'[i].n # pass'[j].n
    <3>1. pass'[i] \in F /\ pass'[j] \in F /\ pass'[i] # pass'[j]
      BY <1>5, <1>6, <2>3
    <3> QED BY <1>3, <3>1
  <2> QED BY <1>1, <1>8, <2>1, <2>2, <2>3 DEF PassInv
<1>10. PositionInv'
  <2>1. \A i \in 1 .. Len(pass') : pass'[i].n \in Int /\ pass'[i].n >= seen + 1
    BY <1>2, <1>3, <1>6
  <2>2. delivered # <<>> => Position \in Int /\ Position <= seen + 1
    <3>1. delivered # <<>> => expected \in Counter
      BY DEF RingInv, MonitorInv, TypeOK, PositionInv
    <3> QED BY <3>1, NumberBehind, NumberRange, Sizes DEF RingInv, PositionInv, Position, Number
  <2>3. \A c \in Held(buffer) : NumberOf(c) \in Int
    BY NumberBehind, NumberRange, Sizes DEF Held, Number
  <2>4. delivered # <<>> =>
           /\ \A i \in 1 .. Len(pass') : pass'[i].n >= Position
           /\ Position <= written + 1
           /\ \A c \in Held(buffer) : NumberOf(c) <= written
    BY <1>1, <1>2, <2>1, <2>2, <2>3 DEF RingInv, PositionInv
  <2>5. Position' = Position /\ Held(buffer)' = Held(buffer)
    BY <1>1 DEF Position, NumberOf, Held
  <2> QED BY <1>1, <2>4, <2>5 DEF RingInv, PositionInv
<1>11. ReadInv'
  <2>1. ASSUME NEW n \in DOMAIN ring, ring[n], n <= written
        PROVE  \/ \E i \in 1 .. Len(pass') : pass'[i].n = n /\ pass'[i].valid
               \/ /\ delivered # <<>>
                  /\ n <= delivered[1] \/ n \in Range(delivered) \/ buffer[n % Modulo] = "valid"
    <3>1. CASE n > seen
      <4>1. PICK f \in F : f.n = n /\ f.valid = ring[n]
        BY <1>3, <3>1
      <4>2. PICK i \in 1 .. Len(pass') : pass'[i] = f
        BY <1>5
      <4>3. pass'[i].n = n /\ pass'[i].valid
        BY <2>1, <4>1, <4>2
      <4> QED BY <4>3
    <3>2. CASE ~(n > seen)
      <4>1. n <= seen /\ ~\E i \in 1 .. Len(pass) : pass[i].n = n
        BY <1>1, <1>2, <3>2
      <4> QED BY <2>1, <4>1 DEF RingInv, ReadInv
    <3> QED BY <3>1, <3>2
  <2> QED BY <1>1, <2>1 DEF ReadInv, Range
<1> QED BY <1>7, <1>9, <1>10, <1>11 DEF RingInv

\* What the next frame of a pass comes to once there is a position: the position
\* moves up to what was read, and over nothing that is still to come of the ring;
\* what leaves the buffer is published, and so is the frame itself, unless it
\* waits or is behind.
Landed(n, valid) ==
    /\ farBehind' = {} /\ expected' # NoCounter
    /\ Position' \in Number /\ Position <= Position' /\ Position' <= seen + 1
    /\ \A d \in Counter :
          \/ d = n % Modulo
          \/ buffer'[d] = buffer[d]
          \/ buffer'[d] = "absent" /\ (buffer[d] = "valid" => d \in Range(out'))
    /\ \A i \in 1 .. Len(out') : NumberOf(out'[i]) < Position'
    /\ \A m \in FirstFrame .. seen :
          m > seen - RingSize /\ Position <= m /\ m < Position' =>
              m = n \/ buffer[m % Modulo] # "absent"
    /\ valid => n < Position \/ buffer'[n % Modulo] = "valid" \/ n % Modulo \in Range(out')

\* Where the position and a frame that was read stand to each other.
LEMMA Standing ==
  ASSUME RingInv, expected # NoCounter, NEW n \in FirstFrame .. seen
  PROVE  /\ expected \in Counter /\ Position \in Number /\ expected = Position % Modulo
         /\ Position <= seen + 1 /\ seen \in Int /\ n \in Number
         /\ n % Modulo \in Counter /\ NumberOf(n % Modulo) = n
         /\ Distance(expected, n % Modulo) =
               IF Position <= n THEN n - Position ELSE n - Position + Modulo
         /\ Position <= n <=> Distance(expected, n % Modulo) < Modulo \div 2
<1>1. expected \in Counter /\ delivered # <<>> /\ Position <= seen + 1
  BY DEF RingInv, MonitorInv, TypeOK, PositionInv
<1>2. Position \in Number /\ expected = Position % Modulo
  BY <1>1, NumberBehind DEF Position
<1>3. seen \in Int /\ n \in Number /\ seen + 1 - FirstFrame < Modulo \div 2
  BY ReadNumbers DEF RingInv
<1>4. /\ n % Modulo \in Counter /\ NumberOf(n % Modulo) = n
      /\ Distance(expected, n % Modulo) =
            IF Position <= n THEN n - Position ELSE n - Position + Modulo
  BY <1>2, <1>3, CounterOf
<1>5. Position <= n <=> Distance(expected, n % Modulo) < Modulo \div 2
  <2>1. FirstFrame \in Int /\ n \in Int /\ n <= seen /\ n >= FirstFrame /\ Position \in Int /\ Position >= FirstFrame
    BY <1>2, <1>3, NumberRange, Sizes DEF Number
  <2> QED BY <1>1, <1>3, <1>4, <2>1, Sizes
<1> QED BY <1>1, <1>2, <1>3, <1>4, <1>5

\* No frame of the ring is far behind the position.
LEMMA NeverFarBehind ==
  ASSUME RingInv, NEW n \in FirstFrame .. seen, n > seen - RingSize,
         NEW valid \in BOOLEAN, Behind(n % Modulo, valid)
  PROVE  n < Position /\ FarBehindWith(n % Modulo) = {} /\ ~Resync(n % Modulo, valid)
<1>1. expected # NoCounter
  BY DEF Behind
<1>2. /\ Position \in Number /\ expected = Position % Modulo /\ n \in Number
      /\ Position <= seen + 1 /\ seen \in Int
      /\ ~(Position <= n)
  <2>1. Distance(expected, n % Modulo) >= Modulo \div 2 /\ Distance(expected, n % Modulo) \in Int
    BY <1>1, Standing, DistanceIs DEF Behind, Counter
  <2> QED BY <1>1, <2>1, Standing, Sizes
<1>3. n < Position /\ Position - n <= RingSize
  BY <1>2, NumberRange, Sizes DEF Number
<1>4. Distance(n % Modulo, expected) = Position - n
  <2>1. Distance(n % Modulo, Position % Modulo) =
            IF n <= Position THEN Position - n ELSE Position - n + Modulo
    BY <1>2, CounterOf
  <2>2. n <= Position
    BY <1>2, <1>3, NumberRange, Sizes DEF Number
  <2> QED BY <1>2, <2>1, <2>2
<1>5. FarBehindWith(n % Modulo) = {}
  BY <1>3, <1>4 DEF FarBehindWith
<1>6. Cardinality({}) = 0
  BY FS_EmptySet
<1>7. ~Resync(n % Modulo, valid)
  <2>1. Cardinality(FarBehindWith(n % Modulo)) = 0
    BY <1>5, <1>6
  <2>2. ~(Cardinality(FarBehindWith(n % Modulo)) >= ResyncAfter)
    BY <2>1, Sizes DEF ResyncAfter
  <2> QED BY <2>2 DEF Resync
<1> QED BY <1>3, <1>5, <1>7

\* A frame that leaves the position where it is.
LEMMA Stays ==
  ASSUME RingInv, expected # NoCounter,
         NEW n \in FirstFrame .. seen, n > seen - RingSize, NEW valid \in BOOLEAN,
         Ahead(n % Modulo, valid) \/ Untrusted(n % Modulo, valid) \/ DropBehind(n % Modulo, valid)
  PROVE  Landed(n, valid)
<1>1. /\ UNCHANGED expected /\ out' = <<>>
      /\ buffer' = buffer \/ buffer' = [buffer EXCEPT ![n % Modulo] = Kind(valid)]
  BY DEF Ahead, Untrusted, DropBehind
<1>2. Position' = Position
  BY <1>1 DEF Position, NumberOf, Distance
<1>3. Position \in Number /\ Position <= seen + 1 /\ n % Modulo \in Counter
  BY Standing
<1>4. buffer \in [Counter -> {"absent", "valid", "invalid"}] /\ farBehind = {}
  BY DEF RingInv, MonitorInv, TypeOK, PositionInv
<1>5. farBehind' = {}
  BY <1>4, NeverFarBehind DEF Ahead, Untrusted, DropBehind
<1>6. ASSUME valid PROVE n < Position \/ buffer'[n % Modulo] = "valid"
  <2>1. CASE Ahead(n % Modulo, valid)
    BY <1>3, <1>4, <1>6, <2>1 DEF Ahead, Kind
  <2>2. CASE DropBehind(n % Modulo, valid)
    BY <2>2, NeverFarBehind DEF DropBehind
  <2> QED BY <1>6, <2>1, <2>2 DEF Untrusted
<1>7. \A d \in Counter : d = n % Modulo \/ buffer'[d] = buffer[d]
  BY <1>1, <1>4
<1>8. Position <= Position /\ Len(<<>>) = 0
  BY <1>3, NumberRange, Sizes DEF Number
<1>9. ~\E m \in FirstFrame .. seen : Position <= m /\ m < Position
  BY <1>3, NumberRange, Sizes DEF Number
<1> QED BY <1>1, <1>2, <1>3, <1>5, <1>6, <1>7, <1>8, <1>9 DEF Landed

\* A frame that was expected or overran the window.
LEMMA Moves ==
  ASSUME RingInv, expected # NoCounter,
         NEW n \in FirstFrame .. seen, n > seen - RingSize, NEW valid \in BOOLEAN,
         OnTime(n % Modulo, valid) \/ Overrun(n % Modulo, valid)
  PROVE  Landed(n, valid)
<1> DEFINE c == n % Modulo
           buf == [buffer EXCEPT ![c] = Kind(valid)]
           D == Distance(expected, expected')
<1>1. /\ expected \in Counter /\ Position \in Number /\ expected = Position % Modulo
      /\ Position <= seen + 1 /\ seen \in Int /\ n \in Number
      /\ c \in Counter /\ NumberOf(c) = n
      /\ Distance(expected, c) = IF Position <= n THEN n - Position ELSE n - Position + Modulo
      /\ Position <= n <=> Distance(expected, c) < Modulo \div 2
  BY Standing
<1>2. /\ FirstFrame \in Int /\ n \in Int /\ n <= seen /\ Position \in Int /\ Position >= FirstFrame
      /\ FirstFrame .. seen \subseteq Number /\ seen + 1 - FirstFrame < Modulo \div 2
  BY <1>1, ReadNumbers, NumberRange, Sizes DEF RingInv, Number
<1>3. buffer \in [Counter -> {"absent", "valid", "invalid"}] /\ MonitorInv
      /\ \A x \in Held(buffer) : NumberOf(x) <= seen
  BY DEF RingInv, MonitorInv, TypeOK, PositionInv
<1>4. /\ MonitorInv' /\ expected' # NoCounter /\ InStretch(out', expected, expected')
      /\ farBehind' = {}
  BY <1>1, <1>3, OnTimeStep, OverrunStep DEF OnTime, Overrun, OverrunAt
<1>5. expected' \in Counter /\ out' \in Seq(Counter)
  BY <1>4 DEF MonitorInv, TypeOK
<1>6. Position' \in Number /\ expected' = Position' % Modulo
  BY <1>5, NumberBehind DEF Position
<1>7. D \in Nat /\ D = IF Position <= Position' THEN Position' - Position ELSE Position' - Position + Modulo
  BY <1>1, <1>5, <1>6, CounterOf, DistanceType
<1>8. Position <= n
  <2>1. CASE OnTime(c, valid)
    BY <1>1, <2>1, Sizes DEF OnTime
  <2>2. CASE Overrun(c, valid)
    BY <1>1, <2>2 DEF Overrun, OverrunAt
  <2> QED BY <2>1, <2>2
<1>9. \A x \in Counter :
         /\ \/ buffer'[x] = buf[x]
            \/ buffer'[x] = "absent" /\ (buf[x] = "valid" => x \in Range(out'))
         /\ Distance(expected, x) < D => PassesOver(buf, c, x)
  BY <1>1, <1>3, MovesOn
<1>10. buf[c] = Kind(valid) /\ \A x \in Counter : x # c => buf[x] = buffer[x]
  BY <1>1, <1>3
<1> HIDE DEF buf, D, c
<1>11. ASSUME NEW m \in Number, m # n, Position <= m, m < Position + D,
              buffer[m % Modulo] = "absent"
       PROVE  m + ReorderWindow < n
  <2>1. m % Modulo \in Counter /\ NumberOf(m % Modulo) = m /\ Distance(expected, m % Modulo) = m - Position
    BY <1>1, <1>11, CounterOf
  <2>2. m \in Int /\ m - Position < D
    BY <1>2, <1>7, <1>11, NumberRange, Sizes DEF Number
  <2>3. m % Modulo # c /\ buf[m % Modulo] = "absent"
    BY <1>1, <1>10, <1>11, <2>1
  <2>4. PassesOver(buf, c, m % Modulo)
    BY <1>9, <2>1, <2>2
  <2>5. (m - Position) + ReorderWindow < n - Position
    BY <1>1, <1>8, <2>1, <2>3, <2>4 DEF PassesOver
  <2> QED BY <1>2, <2>2, <2>5, Sizes
<1>12. Position + D <= seen + 1
  <2> SUFFICES ASSUME Position + D > seen + 1 PROVE FALSE
    BY <1>1, <1>2, <1>7
  <2> DEFINE m == seen + 1
  <2>1. m \in Number /\ m # n /\ Position <= m /\ m < Position + D /\ m \in Int /\ m > n
    BY <1>1, <1>2, NumberRange, Sizes DEF Number
  <2> HIDE DEF m
  <2>2. m % Modulo \in Counter /\ NumberOf(m % Modulo) = m
    BY <2>1, CounterOf
  <2>3. m % Modulo \notin Held(buffer)
    BY <1>1, <1>2, <1>3, <2>2 DEF m
  <2>4. buffer[m % Modulo] = "absent"
    BY <2>2, <2>3 DEF Held
  <2>5. m + ReorderWindow < n
    BY <1>11, <2>1, <2>4
  <2> QED BY <1>2, <2>1, <2>5, Sizes
<1>13. Position <= Position' /\ Position' = Position + D /\ Position' <= seen + 1
  <2>1. Position' \in Int /\ Position' >= FirstFrame
    BY <1>6, NumberRange, Sizes DEF Number
  <2>2. PICK q : q = Position'
    OBVIOUS
  <2>3. q \in Int /\ q >= FirstFrame
    BY <2>1, <2>2
  <2>4. /\ Position <= q => D = q - Position
        /\ q < Position => D = (q - Position) + Modulo
    BY <1>2, <1>7, <2>2, <2>3
  <2>5. Position + D <= seen + 1 /\ D \in Int
    BY <1>7, <1>12
  <2>6. Position <= q /\ q = Position + D /\ q <= seen + 1
    BY <1>1, <1>2, <2>3, <2>4, <2>5, Sizes
  <2> QED BY <2>2, <2>6
<1>14. ASSUME NEW x \in Counter
       PROVE  \/ x = c
              \/ buffer'[x] = buffer[x]
              \/ buffer'[x] = "absent" /\ (buffer[x] = "valid" => x \in Range(out'))
  BY <1>9, <1>10
<1>15. ASSUME NEW i \in 1 .. Len(out') PROVE NumberOf(out'[i]) < Position'
  <2>1. PICK k : k = NumberOf(out'[i])
    OBVIOUS
  <2>2. out'[i] \in Counter /\ k \in Number /\ out'[i] = k % Modulo
    BY <1>5, <2>1, NumberBehind
  <2>3. Distance(expected, k % Modulo) = IF Position <= k THEN k - Position ELSE k - Position + Modulo
    BY <1>1, <2>2, CounterOf
  <2>4. Distance(expected, k % Modulo) < D
    BY <1>4, <2>2 DEF InStretch, D
  <2>5. k \in Int /\ k >= FirstFrame
    BY <2>2, NumberRange, Sizes DEF Number
  <2>6. Position + D <= seen + 1 /\ D \in Int
    BY <1>7, <1>12
  <2>7. Position <= k
    <3> SUFFICES ASSUME k < Position PROVE FALSE
      BY <1>2, <2>5
    <3>1. (k - Position) + Modulo < D
      BY <1>2, <2>3, <2>4, <2>5
    <3> QED BY <1>1, <1>2, <2>5, <2>6, <3>1, Sizes
  <2>8. k < Position + D
    BY <1>2, <2>3, <2>4, <2>5, <2>6, <2>7
  <2> QED BY <1>13, <2>1, <2>8
<1>16. ASSUME NEW m \in FirstFrame .. seen, m > seen - RingSize, Position <= m, m < Position'
       PROVE  m = n \/ buffer[m % Modulo] # "absent"
  <2> SUFFICES ASSUME m # n, buffer[m % Modulo] = "absent" PROVE FALSE
    OBVIOUS
  <2>1. m \in Number /\ m \in Int
    BY <1>2
  <2>2. m + ReorderWindow < n
    BY <1>11, <1>13, <1>16, <2>1
  <2> QED BY <1>1, <1>2, <1>16, <2>1, <2>2, Sizes
<1>17. valid => buffer'[c] = "valid" \/ c \in Range(out')
  BY <1>1, <1>9, <1>10 DEF Kind
<1> QED BY <1>4, <1>6, <1>13, <1>14, <1>15, <1>16, <1>17 DEF Landed, c

\* The first valid frame sets the position; every other one does what Landed says.
LEMMA HandlesRead ==
  ASSUME RingInv, NEW n \in FirstFrame .. seen, n > seen - RingSize, NEW valid \in BOOLEAN,
         Handle(n % Modulo, valid)
  PROVE  \/ expected = NoCounter /\ First(n % Modulo, valid)
         \/ /\ expected = NoCounter /\ ~valid
            /\ UNCHANGED <<expected, farBehind, buffer>> /\ out' = <<>>
         \/ expected # NoCounter /\ Landed(n, valid)
<1>1. CASE expected = NoCounter
  BY <1>1 DEF Handle, OnTime, Ahead, Untrusted, Overrun, OverrunAt, DropBehind, Resync, Behind
<1>2. CASE expected # NoCounter
  <2>1. ~First(n % Modulo, valid)
    BY <1>2 DEF First
  <2>2. ~Resync(n % Modulo, valid)
    BY NeverFarBehind DEF Resync
  <2> QED BY <1>2, <2>1, <2>2, Stays, Moves DEF Handle
<1> QED BY <1>1, <1>2

\* What is published goes behind what was published.
LEMMA Appended ==
  ASSUME NEW a \in Seq(Int), a # <<>>, NEW b \in Seq(Int)
  PROVE  /\ a \o b \in Seq(Int) /\ a \o b # <<>> /\ (a \o b)[1] = a[1]
         /\ \A i \in 1 .. Len(b) : Len(a) + i \in 1 .. Len(a \o b) /\ (a \o b)[Len(a) + i] = b[i]
         /\ \A i \in 1 .. Len(a \o b) :
               \/ i \in 1 .. Len(a) /\ (a \o b)[i] = a[i]
               \/ i - Len(a) \in 1 .. Len(b) /\ (a \o b)[i] = b[i - Len(a)]
         /\ \A m \in Range(a) : m \in Range(a \o b)
<1>1. /\ Len(a) \in Nat /\ Len(a) >= 1 /\ Len(b) \in Nat
      /\ a \o b \in Seq(Int) /\ Len(a \o b) = Len(a) + Len(b)
      /\ DOMAIN (a \o b) = 1 .. Len(a) + Len(b) /\ DOMAIN a = 1 .. Len(a)
  OBVIOUS
<1>2. \A i \in 1 .. Len(a) : i \in 1 .. Len(a \o b) /\ (a \o b)[i] = a[i]
  BY <1>1
<1>3. \A i \in 1 .. Len(b) : Len(a) + i \in 1 .. Len(a \o b) /\ (a \o b)[Len(a) + i] = b[i]
  BY <1>1
<1>4. ASSUME NEW i \in 1 .. Len(a \o b)
      PROVE  \/ i \in 1 .. Len(a) /\ (a \o b)[i] = a[i]
             \/ i - Len(a) \in 1 .. Len(b) /\ (a \o b)[i] = b[i - Len(a)]
  <2>1. i \in 1 .. Len(a) \/ (i - Len(a) \in 1 .. Len(b) /\ i = Len(a) + (i - Len(a)))
    BY <1>1
  <2> QED BY <1>2, <1>3, <2>1
<1>5. (a \o b)[1] = a[1] /\ a \o b # <<>>
  BY <1>1, <1>2
<1>6. \A m \in Range(a) : m \in Range(a \o b)
  BY <1>1, <1>2 DEF Range
<1> QED BY <1>1, <1>3, <1>4, <1>5, <1>6

\* The next frame of a pass is handled.
LEMMA DeliverKeeps ==
  ASSUME RingInv, Deliver
  PROVE  RingInv'
<1>1. PICK n, valid : n = Head(pass).n /\ valid = Head(pass).valid
  OBVIOUS
<1>2. /\ pass # <<>> /\ pass \in Seq([n : Int, valid : BOOLEAN])
      /\ Handle(n % Modulo, valid) /\ pass' = Tail(pass)
      /\ delivered' = delivered \o [i \in 1 .. Len(out') |-> NumberOf(out'[i])]
      /\ UNCHANGED <<written, ring, seen>>
  BY <1>1 DEF Deliver, RingInv, PassInv
<1>3. /\ 1 \in 1 .. Len(pass) /\ pass[1].n = n /\ pass[1].valid = valid /\ valid \in BOOLEAN
      /\ pass' \in Seq([n : Int, valid : BOOLEAN])
      /\ \A i \in 1 .. Len(pass') : i + 1 \in 1 .. Len(pass) /\ pass'[i] = pass[i + 1] /\ i + 1 # 1
      /\ \A i \in 1 .. Len(pass) : i = 1 \/ (i - 1 \in 1 .. Len(pass') /\ pass'[i - 1] = pass[i])
  <2>1. Len(pass) \in Nat /\ Len(pass) >= 1 /\ pass[1] \in [n : Int, valid : BOOLEAN] /\ Head(pass) = pass[1]
    <3> DEFINE T == [n : Int, valid : BOOLEAN]
    <3>1. pass # <<>> /\ pass \in Seq(T)
      BY <1>2
    <3> HIDE DEF T
    <3>2. Len(pass) \in Nat /\ Len(pass) >= 1 /\ pass[1] \in T /\ Head(pass) = pass[1]
      BY <3>1
    <3> QED BY <3>2 DEF T
  <2>2. /\ pass' \in Seq([n : Int, valid : BOOLEAN]) /\ Len(pass') = Len(pass) - 1
        /\ \A i \in 1 .. Len(pass') : pass'[i] = pass[i + 1]
    BY <1>2, <2>1
  <2>3. 1 \in 1 .. Len(pass) /\ pass[1].n = n /\ pass[1].valid = valid /\ valid \in BOOLEAN
    BY <1>1, <2>1
  <2>4. \A i \in 1 .. Len(pass') : i + 1 \in 1 .. Len(pass) /\ i + 1 # 1
    BY <2>1, <2>2
  <2>5. ASSUME NEW i \in 1 .. Len(pass), i # 1
        PROVE  i - 1 \in 1 .. Len(pass') /\ pass'[i - 1] = pass[i]
    <3>1. i - 1 \in 1 .. Len(pass') /\ (i - 1) + 1 = i
      BY <2>1, <2>2, <2>5
    <3> QED BY <2>2, <3>1
  <2> QED BY <2>2, <2>3, <2>4, <2>5
<1>4. /\ n \in FirstFrame .. seen /\ n > seen - RingSize /\ buffer[n % Modulo] = "absent"
      /\ \A i \in 1 .. Len(pass') :
            /\ pass'[i].n \in FirstFrame .. seen /\ pass'[i].n > seen - RingSize
            /\ buffer[pass'[i].n % Modulo] = "absent" /\ pass'[i].n # n
      /\ \A i, j \in 1 .. Len(pass') : i # j => pass'[i].n # pass'[j].n
  <2>1. n \in FirstFrame .. seen /\ n > seen - RingSize /\ buffer[n % Modulo] = "absent"
    BY <1>3 DEF RingInv, PassInv
  <2>2. ASSUME NEW i \in 1 .. Len(pass')
        PROVE  /\ pass'[i].n \in FirstFrame .. seen /\ pass'[i].n > seen - RingSize
               /\ buffer[pass'[i].n % Modulo] = "absent" /\ pass'[i].n # n
    <3>1. i + 1 \in 1 .. Len(pass) /\ pass'[i] = pass[i + 1] /\ i + 1 # 1
      BY <1>3
    <3> QED BY <1>3, <3>1 DEF RingInv, PassInv
  <2>3. ASSUME NEW i \in 1 .. Len(pass'), NEW j \in 1 .. Len(pass'), i # j
        PROVE  pass'[i].n # pass'[j].n
    <3>1. i + 1 \in 1 .. Len(pass) /\ j + 1 \in 1 .. Len(pass) /\ i + 1 # j + 1
          /\ pass'[i] = pass[i + 1] /\ pass'[j] = pass[j + 1]
      BY <1>3, <2>3
    <3> QED BY <3>1 DEF RingInv, PassInv
  <2> QED BY <2>1, <2>2, <2>3
<1>5. /\ n \in Number /\ n % Modulo \in Counter /\ NumberOf(n % Modulo) = n /\ n \in Int /\ seen \in Int
      /\ FirstFrame .. seen \subseteq Number
  <2>1. n \in Number /\ FirstFrame .. seen \subseteq Number /\ seen \in Int
    BY <1>4, ReadNumbers DEF RingInv
  <2> QED BY <2>1, CounterOf, NumberRange, Sizes DEF Number
<1>6. MonitorInv' /\ GatewayInv'
  BY <1>2, <1>3, <1>5, HandleKeeps DEF RingInv, GatewayInv
<1>7. CASE expected = NoCounter /\ First(n % Modulo, valid)
  <2>1. /\ delivered = <<>> /\ out' = <<n % Modulo>> /\ valid /\ expected' = ((n % Modulo) + 1) % Modulo
        /\ farBehind' = {} /\ buffer' = buffer /\ Held(buffer) = {}
    BY <1>7 DEF First, RingInv, MonitorInv, WindowInv, PositionInv
  <2>2. delivered' = <<n>>
    BY <1>2, <1>5, <2>1
  <2>3. n + 1 \in Number /\ expected' = (n + 1) % Modulo
    <3>1. n + 1 \in Number /\ n + 1 \in Int
      BY <1>4, <1>5, ReadNumbers, NumberRange, Sizes DEF RingInv, Number
    <3>2. Distance(n % Modulo, (n + 1) % Modulo) = 1 /\ (n + 1) % Modulo \in Counter
      BY <1>5, <3>1, CounterOf
    <3>3. ((n % Modulo) + 1) % Modulo = (n + 1) % Modulo
      BY <1>5, <3>2, ForwardDistance
    <3> QED BY <2>1, <3>1, <3>3
  <2>4. Position' = n + 1 /\ expected' # NoCounter
    BY <2>3, CounterOf DEF Position, Counter, NoCounter
  <2>5. PassInv'
    BY <1>2, <1>3, <1>4, <2>1 DEF PassInv
  <2>6. PositionInv'
    <3>1. delivered' \in Seq(Int) /\ delivered' # <<>> /\ Len(delivered') = 1 /\ delivered'[1] = n
      BY <1>5, <2>2
    <3>2. \A i \in 1 .. Len(delivered') : delivered'[i] < n + 1
      BY <1>5, <3>1
    <3>3. \A i \in 1 .. Len(pass') : pass'[i].n >= n + 1 \/ pass'[i].n < n
      BY <1>4, <1>5, NumberRange
    <3>4. n + 1 <= seen + 1
      BY <1>4, <1>5
    <3>5. Held(buffer)' = {}
      BY <2>1 DEF Held
    <3> QED BY <1>2, <2>1, <2>4, <3>1, <3>2, <3>3, <3>4, <3>5 DEF PositionInv
  <2>7. ReadInv'
    <3>1. ASSUME NEW m \in DOMAIN ring, ring[m], m <= seen
          PROVE  (\E i \in 1 .. Len(pass') : pass'[i].n = m /\ pass'[i].valid) \/ m <= n
      <4>1. PICK i \in 1 .. Len(pass) : pass[i].n = m /\ pass[i].valid
        BY <2>1, <3>1 DEF RingInv, ReadInv
      <4>2. CASE i = 1
        BY <1>3, <1>5, <4>1, <4>2
      <4>3. CASE i # 1
        BY <1>3, <4>1, <4>3
      <4> QED BY <4>2, <4>3
    <3>2. delivered' # <<>> /\ delivered'[1] = n
      BY <2>2
    <3> QED BY <1>2, <3>1, <3>2 DEF ReadInv
  <2> QED BY <1>6, <2>5, <2>6, <2>7 DEF RingInv

<1>8. CASE expected = NoCounter /\ ~valid /\ UNCHANGED <<expected, farBehind, buffer>> /\ out' = <<>>
  <2>1. delivered = <<>> /\ delivered' = <<>>
    BY <1>2, <1>8 DEF RingInv, PositionInv
  <2>2. PassInv'
    BY <1>2, <1>3, <1>4, <1>8 DEF PassInv
  <2>3. PositionInv'
    BY <1>8, <2>1 DEF RingInv, PositionInv
  <2>4. ReadInv'
    <3>1. ASSUME NEW m \in DOMAIN ring, ring[m], m <= seen
          PROVE  \E i \in 1 .. Len(pass') : pass'[i].n = m /\ pass'[i].valid
      <4>1. PICK i \in 1 .. Len(pass) : pass[i].n = m /\ pass[i].valid
        BY <2>1, <3>1 DEF RingInv, ReadInv
      <4> QED BY <1>3, <1>8, <4>1
    <3> QED BY <1>2, <3>1 DEF ReadInv
  <2> QED BY <1>6, <2>2, <2>3, <2>4 DEF RingInv
<1>9. CASE expected # NoCounter /\ Landed(n, valid)
  <2>1. /\ farBehind' = {} /\ expected' # NoCounter
        /\ Position' \in Number /\ Position <= Position' /\ Position' <= seen + 1
        /\ \A d \in Counter :
              \/ d = n % Modulo
              \/ buffer'[d] = buffer[d]
              \/ buffer'[d] = "absent" /\ (buffer[d] = "valid" => d \in Range(out'))
        /\ \A i \in 1 .. Len(out') : NumberOf(out'[i]) < Position'
        /\ \A m \in FirstFrame .. seen :
              m > seen - RingSize /\ Position <= m /\ m < Position' =>
                  m = n \/ buffer[m % Modulo] # "absent"
        /\ valid => n < Position \/ buffer'[n % Modulo] = "valid" \/ n % Modulo \in Range(out')
    BY <1>9 DEF Landed
  <2>2. /\ delivered # <<>> /\ delivered \in Seq(Int) /\ out' \in Seq(Counter)
        /\ \A i \in 1 .. Len(delivered) : delivered[i] < Position
        /\ \A d \in Held(buffer) : NumberOf(d) <= seen
        /\ \A i \in 1 .. Len(pass) : pass[i].n >= Position \/ pass[i].n < delivered[1]
    BY <1>6, <1>9 DEF RingInv, PositionInv, MonitorInv, TypeOK
  <2>3. Position \in Int /\ Position \in Number
    BY <1>4, <1>9, Standing, NumberRange, Sizes DEF Number
  <2> DEFINE new == [i \in 1 .. Len(out') |-> NumberOf(out'[i])]
  <2>4. new \in Seq(Int) /\ Len(new) = Len(out') /\ \A i \in 1 .. Len(new) : new[i] = NumberOf(out'[i])
    <3>1. \A d \in Counter : NumberOf(d) \in Int
      BY NumberBehind, NumberRange, Sizes DEF Number
    <3>2. PICK o : o = out'
      OBVIOUS
    <3>3. Len(o) \in Nat /\ \A i \in 1 .. Len(o) : NumberOf(o[i]) \in Int
      BY <2>2, <3>1, <3>2
    <3>4. [i \in 1 .. Len(o) |-> NumberOf(o[i])] \in Seq(Int)
      BY <3>3
    <3> QED BY <3>2, <3>3, <3>4
  <2>5. delivered' = delivered \o new
    BY <1>2
  <2> HIDE DEF new
  <2>6. /\ delivered' \in Seq(Int) /\ delivered' # <<>> /\ delivered'[1] = delivered[1]
        /\ \A i \in 1 .. Len(new) : Len(delivered) + i \in 1 .. Len(delivered') /\ delivered'[Len(delivered) + i] = new[i]
        /\ \A i \in 1 .. Len(delivered') :
              \/ i \in 1 .. Len(delivered) /\ delivered'[i] = delivered[i]
              \/ i - Len(delivered) \in 1 .. Len(new) /\ delivered'[i] = new[i - Len(delivered)]
        /\ \A m \in Range(delivered) : m \in Range(delivered')
    BY <2>2, <2>4, <2>5, Appended
  <2>8. ASSUME NEW d \in Range(out') PROVE NumberOf(d) \in Range(delivered')
    <3>1. PICK i \in 1 .. Len(out') : d = out'[i]
      BY <2>2 DEF Range
    <3>2. Len(delivered) + i \in 1 .. Len(delivered') /\ delivered'[Len(delivered) + i] = NumberOf(d)
      BY <2>4, <2>6, <3>1
    <3>3. 1 .. Len(delivered') = DOMAIN delivered'
      BY <2>6
    <3> QED BY <3>2, <3>3 DEF Range
  <2>9. ASSUME NEW m \in FirstFrame .. seen, m # n
        PROVE  m % Modulo \in Counter /\ NumberOf(m % Modulo) = m /\ m % Modulo # n % Modulo
    BY <1>5, <2>9, CounterOf
  <2>10. PassInv'
    <3>1. ASSUME NEW i \in 1 .. Len(pass') PROVE buffer'[pass'[i].n % Modulo] = "absent"
      <4>1. PICK m : m = pass'[i].n
        OBVIOUS
      <4>2. m \in FirstFrame .. seen /\ m # n /\ buffer[m % Modulo] = "absent"
        BY <1>4, <4>1
      <4>3. m % Modulo \in Counter /\ m % Modulo # n % Modulo
        BY <2>9, <4>2
      <4>4. buffer'[m % Modulo] = "absent"
        BY <2>1, <4>2, <4>3
      <4> QED BY <4>1, <4>4
    <3> QED BY <1>2, <1>3, <1>4, <3>1 DEF PassInv
  <2>11. PositionInv'
    <3>1. ASSUME NEW i \in 1 .. Len(delivered') PROVE delivered'[i] < Position'
      <4>1. PICK p : p = Position'
        OBVIOUS
      <4>2. p \in Int /\ Position <= p /\ \A k \in 1 .. Len(out') : NumberOf(out'[k]) < p
        BY <2>1, <4>1, NumberRange, Sizes DEF Number
      <4>3. CASE i \in 1 .. Len(delivered) /\ delivered'[i] = delivered[i]
        <5>1. delivered[i] \in Int /\ delivered[i] < Position /\ delivered'[i] = delivered[i]
          BY <2>2, <4>3
        <5> QED BY <2>3, <4>1, <4>2, <5>1
      <4>4. CASE i - Len(delivered) \in 1 .. Len(new) /\ delivered'[i] = new[i - Len(delivered)]
        <5> DEFINE k == i - Len(delivered)
        <5>1. k \in 1 .. Len(new) /\ k \in 1 .. Len(out') /\ delivered'[i] = new[k]
          BY <2>4, <4>4
        <5>2. delivered'[i] = NumberOf(out'[k])
          BY <2>4, <5>1
        <5> QED BY <4>1, <4>2, <5>1, <5>2
      <4> QED BY <2>6, <4>3, <4>4
    <3>2. ASSUME NEW d \in Held(buffer)' PROVE NumberOf(d) <= seen
      <4>1. d \in Counter /\ buffer'[d] # "absent"
        BY DEF Held
      <4>2. CASE d = n % Modulo
        BY <1>4, <1>5, <4>2
      <4>3. CASE d # n % Modulo
        <5>1. d \in Held(buffer)
          BY <2>1, <4>1, <4>3 DEF Held
        <5> QED BY <2>2, <5>1
      <4> QED BY <4>2, <4>3
    <3>3. ASSUME NEW i \in 1 .. Len(pass')
          PROVE  pass'[i].n >= Position' \/ pass'[i].n < delivered[1]
      <4>1. PICK m, p : m = pass'[i].n /\ p = Position'
        OBVIOUS
      <4>2. m \in FirstFrame .. seen /\ m > seen - RingSize /\ m # n /\ buffer[m % Modulo] = "absent"
        BY <1>4, <4>1
      <4>3. m >= Position \/ m < delivered[1]
        BY <1>3, <2>2, <4>1
      <4>4. p \in Int /\ m \in Int
        BY <2>1, <4>1, <4>2, <1>5, NumberRange, Sizes DEF Number
      <4>5. m >= Position => ~(m < p)
        <5> SUFFICES ASSUME m >= Position, m < p PROVE FALSE
          OBVIOUS
        <5>1. Position <= m
          BY <2>3, <4>4
        <5> QED BY <2>1, <4>1, <4>2, <5>1
      <4>6. m >= p \/ m < delivered[1]
        BY <4>3, <4>4, <4>5
      <4> QED BY <4>1, <4>6
    <3> QED BY <1>2, <2>1, <2>6, <3>1, <3>2, <3>3 DEF PositionInv
  <2>12. ReadInv'
    <3>1. ASSUME NEW m \in DOMAIN ring, ring[m], m <= seen
          PROVE  \/ \E i \in 1 .. Len(pass') : pass'[i].n = m /\ pass'[i].valid
                 \/ m <= delivered[1] \/ m \in Range(delivered') \/ buffer'[m % Modulo] = "valid"
      <4>1. m \in FirstFrame .. seen /\ m \in Int
        BY <1>5, <3>1, NumberRange DEF RingInv, GatewayInv
      <4>2. CASE \E i \in 1 .. Len(pass) : pass[i].n = m /\ pass[i].valid
        <5>1. PICK i \in 1 .. Len(pass) : pass[i].n = m /\ pass[i].valid
          BY <4>2
        <5>2. CASE i # 1
          BY <1>3, <5>1, <5>2
        <5>3. CASE i = 1
          <6>1. m = n /\ valid
            BY <1>3, <5>1, <5>3
          <6>2. n < Position => n < delivered[1]
            <7>1. pass[1].n >= Position \/ pass[1].n < delivered[1]
              BY <1>3, <2>2
            <7> QED BY <1>3, <1>5, <2>3, <7>1
          <6>3. n < delivered[1] => n <= delivered[1]
            <7>1. delivered[1] \in Int
              BY <2>2
            <7> QED BY <1>5, <7>1
          <6>4. n % Modulo \in Range(out') => n \in Range(delivered')
            BY <1>5, <2>8
          <6> QED BY <2>1, <6>1, <6>2, <6>3, <6>4
        <5> QED BY <5>2, <5>3
      <4>3. CASE m <= delivered[1]
        BY <4>3
      <4>4. CASE m \in Range(delivered)
        BY <2>6, <4>4
      <4>5. CASE buffer[m % Modulo] = "valid"
        <5>1. m # n
          BY <1>4, <4>5
        <5>2. m % Modulo \in Counter /\ NumberOf(m % Modulo) = m /\ m % Modulo # n % Modulo
          BY <2>9, <4>1, <5>1
        <5>3. buffer'[m % Modulo] = "valid" \/ m % Modulo \in Range(out')
          BY <2>1, <4>5, <5>2
        <5> QED BY <2>8, <5>2, <5>3
      <4> QED BY <3>1, <4>2, <4>3, <4>4, <4>5 DEF RingInv, ReadInv
    <3> QED BY <1>2, <2>6, <3>1 DEF ReadInv
  <2> QED BY <1>6, <2>10, <2>11, <2>12 DEF RingInv
<1> QED BY <1>2, <1>3, <1>4, <1>7, <1>8, <1>9, HandlesRead

LEMMA RingStep ==
  RingInv /\ [RingNext]_allVars => RingInv'
<1> SUFFICES ASSUME RingInv, [RingNext]_allVars PROVE RingInv'
  OBVIOUS
<1>1. CASE RingNext
  BY <1>1, WriteKeeps, ReadKeeps, DeliverKeeps DEF RingNext
<1>2. CASE UNCHANGED allVars
  BY <1>2 DEF allVars, vars, ringVars, RingInv, MonitorInv, TypeOK, WindowInv, Held, GatewayInv,
        PassInv, PositionInv, Position, NumberOf, ReadInv, Range
<1> QED BY <1>1, <1>2

\* Between passes every frame read is where it belongs.
LEMMA BetweenPasses ==
  ASSUME RingInv
  PROVE  PassIsDelivered
<1>1. ReadIsNotLost
  <2> SUFFICES ASSUME pass = <<>>, NEW n \in DOMAIN ring, ring[n], n <= seen, delivered # <<>>, n > delivered[1]
               PROVE  n \in Range(delivered) \/ buffer[n % Modulo] = "valid"
    BY DEF ReadIsNotLost
  <2>1. n \in Int /\ delivered[1] \in Int
    BY NumberRange DEF RingInv, GatewayInv, PositionInv
  <2>2. ~\E i \in 1 .. Len(pass) : pass[i].n = n /\ pass[i].valid
    OBVIOUS
  <2> QED BY <2>1, <2>2 DEF RingInv, ReadInv
<1>2. NothingWaitsBetweenPasses
  <2> SUFFICES ASSUME pass = <<>>, delivered # <<>>, seen = written, Trusted
               PROVE  Held(buffer) = {} /\ expected = (seen + 1) % Modulo
    BY DEF NothingWaitsBetweenPasses
  <2>1. /\ expected # NoCounter /\ Position <= seen + 1 /\ delivered \in Seq(Int)
        /\ \A i \in 1 .. Len(delivered) : delivered[i] < Position
        /\ \A d \in Held(buffer) : NumberOf(d) <= seen
        /\ \A d \in Held(buffer) : Distance(expected, d) \in 1 .. ReorderWindow
    BY DEF RingInv, PositionInv, MonitorInv, WindowInv
  <2>2. expected \in Counter /\ Position \in Number /\ expected = Position % Modulo /\ Position \in Int
    <3>1. expected \in Counter
      BY <2>1 DEF RingInv, MonitorInv, TypeOK
    <3> QED BY <3>1, NumberBehind, NumberRange, Sizes DEF Position, Number
  <2>3. /\ seen \in Int /\ FirstFrame .. seen \subseteq Number /\ FirstFrame \in Int
        /\ seen + 1 - FirstFrame < Modulo \div 2
        /\ DOMAIN ring = {n \in FirstFrame .. seen : n > seen - RingSize}
    BY ReadNumbers, NumberRange DEF RingInv
  <2>4. Position = seen + 1
    <3> SUFFICES ASSUME Position <= seen PROVE FALSE
      BY <2>1, <2>2, <2>3
    <3>1. Position >= FirstFrame
      BY <2>2, NumberRange, Sizes DEF Number
    <3>2. seen \in DOMAIN ring /\ ring[seen] /\ seen \in Number
      BY <2>2, <2>3, <3>1, Sizes DEF Trusted
    <3>3. delivered[1] < Position /\ delivered[1] \in Int
      BY <2>1
    <3>4. seen \notin Range(delivered)
      <4>1. \A i \in 1 .. Len(delivered) : delivered[i] # seen
        BY <2>1, <2>2, <2>3
      <4> QED BY <2>1, <4>1 DEF Range
    <3>5. buffer[seen % Modulo] = "valid"
      <4>1. ~\E i \in 1 .. Len(pass) : pass[i].n = seen /\ pass[i].valid
        OBVIOUS
      <4>2. ~(seen <= delivered[1])
        BY <2>2, <2>3, <3>3
      <4> QED BY <2>3, <3>2, <3>4, <4>1, <4>2 DEF RingInv, ReadInv
    <3>6. seen % Modulo \in Held(buffer) /\ Distance(expected, seen % Modulo) = seen - Position
      <4>1. seen % Modulo \in Counter /\ Distance(expected, seen % Modulo) = seen - Position
        BY <2>2, <3>2, CounterOf
      <4> QED BY <3>5, <4>1 DEF Held
    <3>7. seen - Position \in 1 .. ReorderWindow
      BY <2>1, <3>6
    <3>8. Position \in DOMAIN ring /\ ring[Position]
      BY <2>2, <2>3, <3>1, <3>7, Sizes DEF Trusted
    <3>9. Position \notin Range(delivered)
      <4>1. \A i \in 1 .. Len(delivered) : delivered[i] # Position
        BY <2>1, <2>2
      <4> QED BY <2>1, <4>1 DEF Range
    <3>10. buffer[Position % Modulo] = "valid"
      <4>1. ~\E i \in 1 .. Len(pass) : pass[i].n = Position /\ pass[i].valid
        OBVIOUS
      <4>2. ~(Position <= delivered[1])
        BY <2>2, <3>3
      <4> QED BY <2>2, <2>3, <3>8, <3>9, <4>1, <4>2 DEF RingInv, ReadInv
    <3>11. expected \in Held(buffer) /\ Distance(expected, expected) = 0
      BY <2>2, <3>10, DistanceSelf DEF Held
    <3> QED BY <2>1, <3>11, Sizes
  <2>5. ASSUME NEW d \in Held(buffer) PROVE FALSE
    <3>1. PICK k : k = NumberOf(d)
      OBVIOUS
    <3>2. d \in Counter
      BY DEF Held
    <3>3. k \in Number /\ d = k % Modulo /\ k \in Int /\ k >= FirstFrame
      BY <3>1, <3>2, NumberBehind, NumberRange, Sizes DEF Number
    <3>4. k <= seen
      BY <2>1, <3>1
    <3>5. Distance(expected, d) = k - Position + Modulo
      <4>1. ~(Position <= k)
        BY <2>3, <2>4, <3>3, <3>4
      <4> QED BY <2>2, <3>3, <4>1, CounterOf
    <3>6. k - Position + Modulo \in 1 .. ReorderWindow
      BY <2>1, <3>5
    <3> QED BY <2>2, <2>3, <2>4, <3>3, <3>6, Sizes
  <2> QED BY <2>2, <2>4, <2>5
<1> QED BY <1>1, <1>2 DEF PassIsDelivered

\* Behind the gateway's ring every frame that can be published in order is:
\* between passes a valid frame that the ring still holds was published or waits
\* for a gap that only frames not valid leave, and with none of those nothing
\* waits (BusMonitorFrameHandler, class docstring), for any size of the ring, any
\* modulus and wherever the counter starts.
THEOREM MonitorDeliversPass == RingSpec => []PassIsDelivered
<1>1. RingInv => PassIsDelivered
  BY BetweenPasses
<1> QED BY <1>1, RingInitInv, RingStep, PTL DEF RingSpec
=============================================================================

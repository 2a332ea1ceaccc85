----------------------------- MODULE BusMonitor -----------------------------
(***************************************************************************)
(* BusMonitorFrameHandler (wb/mqtt_dali/wbdali.py): puts the frames seen   *)
(* on the DALI bus back into the order of their 16-bit counter.            *)
(*                                                                         *)
(* A slot publication is its frame counter and whether it is_valid; what   *)
(* the frame says is not looked at. Retained, unparseable and empty        *)
(* publications return before any state is touched and are left out.      *)
(***************************************************************************)
EXTENDS Integers, Sequences, FiniteSets, SequencesExt

CONSTANTS
    RingSize,   \* BUS_MONITOR_RING_SIZE
    Modulo      \* FRAME_COUNTER_MODULO

ASSUME BusMonitorAssumption ==
    /\ RingSize \in Nat /\ RingSize > 1
    /\ Modulo \in Nat /\ Modulo >= 4 * RingSize

Counter == 0 .. Modulo - 1
NoCounter == -1

ReorderWindow == RingSize - 1
ResyncAfter == RingSize

VARIABLES
    expected,   \* _next_expected_fc
    farBehind,  \* _far_behind_fcs
    buffer,     \* _buffer: what is held for each counter
    out         \* counters the last step gave to notify_bus_frame, in order

vars == <<expected, farBehind, buffer, out>>

EmptyBuffer == [c \in Counter |-> "absent"]

TypeOK ==
    /\ expected \in Counter \cup {NoCounter}
    /\ farBehind \subseteq Counter
    /\ buffer \in [Counter -> {"absent", "valid", "invalid"}]
    /\ out \in Seq(Counter)

Init ==
    /\ expected = NoCounter
    /\ farBehind = {}
    /\ buffer = EmptyBuffer
    /\ out = <<>>

\* Modular distance from one counter forward to another.
Distance(from, to) == (to - from) % Modulo

Kind(valid) == IF valid THEN "valid" ELSE "invalid"

Held(buf) == {c \in Counter : buf[c] # "absent"}

\* How many counters from start on are held without a gap.
RunLength(buf, start) ==
    CHOOSE n \in 0 .. Modulo :
        /\ \A i \in 0 .. n - 1 : buf[(start + i) % Modulo] # "absent"
        /\ n < Modulo => buf[(start + n) % Modulo] = "absent"

\* The counters of S as they follow start.
InOrder(start, S) ==
    CHOOSE s \in [1 .. Cardinality(S) -> S] :
        \A i, j \in 1 .. Cardinality(S) :
            i < j => Distance(start, s[i]) < Distance(start, s[j])

\* _publish passes over the slots that are not valid.
Published(buf, start, S) == InOrder(start, {c \in S : buf[c] = "valid"})

\* _take_contiguous: what is taken, what stays, where the position ends.
Taken(buf, start) ==
    LET n == RunLength(buf, start) IN {c \in Counter : Distance(start, c) < n}
Left(buf, start) ==
    LET taken == Taken(buf, start)
    IN  [c \in Counter |-> IF c \in taken THEN "absent" ELSE buf[c]]
After(buf, start) == (start + RunLength(buf, start)) % Modulo

\* _drain_to: what is held before limit, and what stays.
Drained(buf, limit) ==
    {c \in Held(buf) : Distance(expected, c) < Distance(expected, limit)}
Undrained(buf, limit) ==
    LET drained == Drained(buf, limit)
    IN  [c \in Counter |-> IF c \in drained THEN "absent" ELSE buf[c]]

-----------------------------------------------------------------------------
(* _order_and_publish, one action per way a frame can land *)

\* The first frame sets the position; one that is not valid is not trusted.
First(fc, valid) ==
    /\ expected = NoCounter /\ valid
    /\ expected' = (fc + 1) % Modulo
    /\ out' = <<fc>>
    /\ UNCHANGED <<farBehind, buffer>>

OnTime(fc, valid) ==
    /\ expected # NoCounter /\ Distance(expected, fc) = 0
    /\ farBehind' = {}
    /\ LET buf == [buffer EXCEPT ![fc] = Kind(valid)]
       IN  /\ out' = Published(buf, fc, Taken(buf, fc))
           /\ buffer' = Left(buf, fc)
           /\ expected' = After(buf, fc)

Ahead(fc, valid) ==
    /\ expected # NoCounter
    /\ Distance(expected, fc) \in 1 .. ReorderWindow
    /\ farBehind' = {}
    /\ buffer' = [buffer EXCEPT ![fc] = Kind(valid)]
    /\ out' = <<>>
    /\ UNCHANGED expected

\* The counter of an invalid slot outside the window, or before the first
\* frame, is not trusted.
Untrusted(fc, valid) ==
    /\ ~valid
    /\ expected # NoCounter => Distance(expected, fc) > ReorderWindow
    /\ out' = <<>>
    /\ UNCHANGED <<expected, farBehind, buffer>>

\* The ring overran: the counters before its edge are conceded.
OverrunAt(fc, valid, edge) ==
    /\ expected # NoCounter /\ valid
    /\ Distance(expected, fc) > ReorderWindow
    /\ Distance(expected, fc) < Modulo \div 2
    /\ farBehind' = {}
    /\ LET buf  == [buffer EXCEPT ![fc] = "valid"]
           rest == Undrained(buf, edge)
       IN  /\ out' = Published(buf, expected, Drained(buf, edge))
                       \o Published(rest, edge, Taken(rest, edge))
           /\ buffer' = Left(rest, edge)
           /\ expected' = After(rest, edge)

\* Seeded faults: the ring edge one too late or one too early.
OverrunLateEdge(fc, valid) == OverrunAt(fc, valid, (fc - ReorderWindow + 1) % Modulo)

OverrunEarlyEdge(fc, valid) == OverrunAt(fc, valid, (fc - ReorderWindow - 1) % Modulo)

Overrun(fc, valid) == OverrunAt(fc, valid, (fc - ReorderWindow) % Modulo)

Behind(fc, valid) ==
    /\ expected # NoCounter /\ valid
    /\ Distance(expected, fc) >= Modulo \div 2

\* Seeded fault: only the last counter far behind is remembered.
FarBehindForgets(fc) ==
    IF Distance(fc, expected) <= RingSize THEN {} ELSE {fc}

\* _far_behind_fcs after a frame behind the position.
FarBehindWith(fc) ==
    IF Distance(fc, expected) <= RingSize THEN {} ELSE farBehind \cup {fc}

\* Seeded fault: a late frame is published after its successors.
PublishBehind(fc, valid) ==
    /\ Behind(fc, valid)
    /\ Cardinality(FarBehindWith(fc)) < ResyncAfter
    /\ farBehind' = FarBehindWith(fc)
    /\ out' = <<fc>>
    /\ UNCHANGED <<expected, buffer>>

DropBehind(fc, valid) ==
    /\ Behind(fc, valid)
    /\ Cardinality(FarBehindWith(fc)) < ResyncAfter
    /\ farBehind' = FarBehindWith(fc)
    /\ out' = <<>>
    /\ UNCHANGED <<expected, buffer>>

\* Enough distinct counters landed far behind: the position itself was wrong.
Resync(fc, valid) ==
    /\ Behind(fc, valid)
    /\ Cardinality(FarBehindWith(fc)) >= ResyncAfter
    /\ farBehind' = {}
    /\ buffer' = EmptyBuffer
    /\ expected' = (fc + 1) % Modulo
    /\ out' = <<fc>>

Handle(fc, valid) ==
    \/ First(fc, valid)
    \/ OnTime(fc, valid)
    \/ Ahead(fc, valid)
    \/ Untrusted(fc, valid)
    \/ Overrun(fc, valid)
    \/ DropBehind(fc, valid)
    \/ Resync(fc, valid)

Next == \E fc \in Counter, valid \in BOOLEAN : Handle(fc, valid)

Spec == Init /\ [][Next]_vars

-----------------------------------------------------------------------------
(* Properties *)

\* Except on a resynchronisation, a step publishes counters in order from the
\* stretch between the old position and the new one, so no frame is published
\* twice or ahead of its predecessor; and the position never moves back.
\* (Class docstring: "Frames reach the callbacks in counter order"; "The only
\* case where the dispatched counter restarts lower" is the resync.)
InCounterOrder ==
    [][(expected # NoCounter /\ ~\E fc \in Counter : Resync(fc, TRUE)) =>
          /\ Distance(expected, expected') < Modulo \div 2 + RingSize
          /\ \A i \in 1 .. Len(out') :
                Distance(expected, out'[i]) < Distance(expected, expected')
          /\ \A i, j \in 1 .. Len(out') :
                i < j => Distance(expected, out'[i]) < Distance(expected, out'[j])]_vars

=============================================================================

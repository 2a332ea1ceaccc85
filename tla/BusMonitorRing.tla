--------------------------- MODULE BusMonitorRing ---------------------------
(***************************************************************************)
(* BusMonitor behind the gateway's ring and wb-mqtt-serial, both external: *)
(* the gateway writes each frame it sees into the next slot of a ring;     *)
(* wb-mqtt-serial reads the ring in passes and publishes the slots that    *)
(* changed, in slot order; the broker keeps that order. Frames have here a *)
(* number that does not wrap; the handler sees it modulo Modulo.           *)
(***************************************************************************)
EXTENDS BusMonitor

CONSTANTS
    FirstFrame,     \* number of the first frame: any point of the counter's cycle
    MaxFrames       \* bound: frames the gateway writes

ASSUME RingAssumption ==
    /\ FirstFrame \in Nat
    /\ MaxFrames \in 1 .. Modulo \div 2 - 1   \* a jump of half a cycle reads as a step back

VARIABLES
    written,    \* number of the last frame written
    ring,       \* newest RingSize frames: number -> is_valid
    seen,       \* number of the newest frame read
    pass,       \* frames of the current read pass still to be delivered
    delivered   \* numbers of the frames published, in order

ringVars == <<written, ring, seen, pass, delivered>>
allVars == <<vars, ringVars>>

RingInit ==
    /\ Init
    /\ written = FirstFrame - 1 /\ seen = FirstFrame - 1
    /\ ring = <<>>
    /\ pass = <<>>
    /\ delivered = <<>>

\* The gateway overwrites the oldest frame of the ring.
GatewayWrite(valid) ==
    /\ written < FirstFrame + MaxFrames - 1
    /\ written' = written + 1
    /\ ring' = [n \in {m \in DOMAIN ring : m > written + 1 - RingSize} \cup {written + 1} |->
                    IF n = written + 1 THEN valid ELSE ring[n]]
    /\ UNCHANGED <<vars, seen, pass, delivered>>

\* Frames as their slots follow each other in the ring.
InSlotOrder(frames) ==
    CHOOSE s \in [1 .. Cardinality(frames) -> frames] :
        \A i, j \in 1 .. Cardinality(frames) :
            i < j => s[i].n % RingSize < s[j].n % RingSize

\* One read pass over the ring: the slots that changed since the last one.
ReadPass ==
    /\ pass = <<>> /\ seen < written
    /\ pass' = InSlotOrder({[n |-> m, valid |-> ring[m]] : m \in {k \in DOMAIN ring : k > seen}})
    /\ seen' = written
    /\ UNCHANGED <<vars, written, ring, delivered>>

\* The frame number behind a counter: counters of MaxFrames frames are distinct.
NumberOf(fc) == FirstFrame + Distance(FirstFrame % Modulo, fc)

\* The next publication of the pass reaches handle().
Deliver ==
    /\ pass # <<>>
    /\ Handle(Head(pass).n % Modulo, Head(pass).valid)
    /\ pass' = Tail(pass)
    /\ delivered' = delivered \o [i \in 1 .. Len(out') |-> NumberOf(out'[i])]
    /\ UNCHANGED <<written, ring, seen>>

RingNext ==
    \/ \E valid \in BOOLEAN : GatewayWrite(valid)
    \/ ReadPass
    \/ Deliver

RingSpec == RingInit /\ [][RingNext]_allVars

-----------------------------------------------------------------------------
(* Properties *)

\* No slot of the ring holds a frame that is not valid.
Trusted == \A n \in DOMAIN ring : ring[n]

\* Between passes, a valid frame the ring still holds and a pass has read is
\* published or waits in the buffer, if it came after the first one published.
\* (Overrun concedes only what the ring cannot deliver any more.)
ReadIsNotLost ==
    (pass = <<>> /\ delivered # <<>>) =>
        \A n \in DOMAIN ring :
            (ring[n] /\ n <= seen /\ n > delivered[1]) =>
                n \in Range(delivered) \/ buffer[n % Modulo] = "valid"

\* Between passes, when the ring holds valid frames only, nothing waits: the
\* neighbours a frame waits for came with the same pass. (Class docstring:
\* "the frame waits at that edge for its neighbours, which the same read pass
\* delivers".)
NothingWaitsBetweenPasses ==
    (pass = <<>> /\ delivered # <<>> /\ seen = written /\ Trusted) =>
        Held(buffer) = {} /\ expected = (seen + 1) % Modulo

\* Between passes every frame read is where it belongs: published, or held
\* behind a gap that only frames not valid leave.
PassIsDelivered == ReadIsNotLost /\ NothingWaitsBetweenPasses
=============================================================================

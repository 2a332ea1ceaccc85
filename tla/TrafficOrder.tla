---------------------------- MODULE TrafficOrder ----------------------------
(***************************************************************************)
(* What BusTrafficCallbacks promises its listeners, on sets of sequence    *)
(* ids: commands are heard in the order of their ids, a gap holds back the *)
(* commands behind it until it closes or grows beyond the gateway queue.   *)
(* BusTraffic has the list the code keeps and is shown to implement this.  *)
(***************************************************************************)
EXTENDS Integers, FiniteSets

CONSTANT QueueSize  \* gateway_queue_size

\* The parameter every statement about this module assumes.
TrafficConstants == QueueSize \in Nat \ {0}

VARIABLES
    last,       \* _last_item_sequence_id
    held,       \* ids in _waiting_for_publish
    heard       \* ids given to the listeners so far

trafficVars == <<last, held, heard>>

TrafficInit == last = -1 /\ held = {} /\ heard = {}

\* The id expected next: heard together with what directly follows it.
HearNext(id) ==
    /\ id = last + 1
    /\ \E m \in id .. id + QueueSize :
          /\ id + 1 .. m \subseteq held /\ m + 1 \notin held
          /\ last' = m
          /\ heard' = heard \cup id .. m
          /\ held' = {h \in held : h > m}

\* The gap is too long to wait out: everything held, then this one.
HearAll(id) ==
    /\ id > last + QueueSize
    /\ last' = id
    /\ heard' = heard \cup {h \in held : h > last} \cup {id}
    /\ held' = {}

Hold(id) ==
    /\ id # last + 1 /\ id <= last + QueueSize
    /\ held' = held \cup {id}
    /\ UNCHANGED <<last, heard>>

NotifyCommand(id) == HearNext(id) \/ HearAll(id) \/ Hold(id)

\* Each id is notified once; ids may come in any order or not at all.
Fresh(id) == id \in Nat /\ id \notin heard /\ id \notin held

\* The id of a step is then heard or held.
TrafficNext == \E id \in heard' \cup held' : Fresh(id) /\ NotifyCommand(id)

TrafficSpec == TrafficInit /\ [][TrafficNext]_trafficVars

-----------------------------------------------------------------------------
(* Properties *)

TrafficTypeOK ==
    /\ last \in Int /\ last >= -1
    /\ held \subseteq Nat
    /\ heard \subseteq Nat

\* Ids that are still to be heard lie within the gateway queue's length of
\* the cursor, behind a gap. (notify_command, _drain_contiguous.)
HeldBehindGap ==
    \A h \in held : h > last => h \in last + 2 .. last + QueueSize

\* Listeners hear the ids in increasing order, none twice.
HeardInOrder ==
    [][\A n \in heard' \ heard : \A m \in heard : m < n]_trafficVars
=============================================================================

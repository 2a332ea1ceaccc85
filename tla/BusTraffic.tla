----------------------------- MODULE BusTraffic -----------------------------
(***************************************************************************)
(* BusTrafficCallbacks.notify_command (wb/mqtt_dali/bus_traffic.py) on its *)
(* sorted list, shown to implement TrafficOrder where the driver feeds it.  *)
(* An item is its sequence id. Frames of the bus monitor pass straight     *)
(* through (notify_bus_frame) and touch none of this.                      *)
(***************************************************************************)
EXTENDS Integers, Sequences, Functions

CONSTANTS QueueSize

VARIABLES
    lastItemSequenceId,
    waitingForPublish,  \* the list, in its order
    dispatched          \* history: ids the callbacks have seen

Init ==
    /\ lastItemSequenceId = -1
    /\ waitingForPublish = <<>>
    /\ dispatched = {}

\* _drain_contiguous, called with the cursor on id: it pops n items from the
\* head of the list. Before each one the cursor is run[i - 1]; an item that
\* directly follows it is dispatched and moves it, one behind it is only popped.
DrainContiguous(id) ==
    \E n \in 0 .. Len(waitingForPublish) :
    \E run \in [0 .. n -> {id} \cup Range(waitingForPublish)] :
        /\ run[0] = id
        /\ \A i \in 1 .. n :
              \/ waitingForPublish[i] <= run[i - 1] /\ run[i] = run[i - 1]
              \/ waitingForPublish[i] = run[i - 1] + 1 /\ run[i] = waitingForPublish[i]
        /\ n < Len(waitingForPublish) => waitingForPublish[n + 1] > run[n] + 1
        /\ lastItemSequenceId' = run[n]
        /\ waitingForPublish' = SubSeq(waitingForPublish, n + 1, Len(waitingForPublish))
        /\ dispatched' = dispatched \cup {run[i] : i \in 0 .. n}

\* append and sort(): the sort is stable, so id goes behind its equals.
Inserted(list, id) ==
    LET k == CHOOSE k \in 0 .. Len(list) :
                /\ \A i \in 1 .. k : list[i] <= id
                /\ k < Len(list) => list[k + 1] > id
    IN  SubSeq(list, 1, k) \o <<id>> \o SubSeq(list, k + 1, Len(list))

NotifyNext(id) ==
    /\ id = lastItemSequenceId + 1
    /\ DrainContiguous(id)

\* Seeded fault: the flushed items stay in the list.
NotifyFlushKeeps(id) ==
    /\ id > lastItemSequenceId + QueueSize
    /\ dispatched' = dispatched \cup {id}
          \cup {i \in Range(waitingForPublish) : i > lastItemSequenceId}
    /\ lastItemSequenceId' = id
    /\ UNCHANGED waitingForPublish

NotifyFlush(id) ==
    /\ id > lastItemSequenceId + QueueSize
    /\ dispatched' = dispatched \cup {id}
          \cup {i \in Range(waitingForPublish) : i > lastItemSequenceId}
    /\ waitingForPublish' = <<>>
    /\ lastItemSequenceId' = id

NotifyWait(id) ==
    /\ id # lastItemSequenceId + 1 /\ id <= lastItemSequenceId + QueueSize
    /\ waitingForPublish' = Inserted(waitingForPublish, id)
    /\ UNCHANGED <<lastItemSequenceId, dispatched>>

notify_command(id) == NotifyNext(id) \/ NotifyFlush(id) \/ NotifyWait(id)

-----------------------------------------------------------------------------
(* Properties *)

\* The list implements the set-based order: an item is heard after all smaller
\* ids that are ever heard, and what is kept back waits for a gap no longer
\* than the gateway queue. (notify_command: "drained in sequence_id order".)
Order == INSTANCE TrafficOrder WITH
    last <- lastItemSequenceId,
    held <- Range(waitingForPublish),
    heard <- dispatched
=============================================================================

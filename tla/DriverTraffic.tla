--------------------------- MODULE DriverTraffic ---------------------------
(***************************************************************************)
(* DaliDriver and the bus traffic it reports: each step of the driver      *)
(* hands the sequence ids it notifies to notify_command before the next    *)
(* step (the driver calls it synchronously).                               *)
(***************************************************************************)
EXTENDS DaliDriver, SequencesExt

VARIABLES
    inbox,          \* ids of the last driver step, still to be processed
    linkWasLost,    \* history: the broker link has been down
    lastItemSequenceId, waitingForPublish, dispatched   \* BusTraffic

callbackVars == <<lastItemSequenceId, waitingForPublish, dispatched>>
allVars == <<vars, inbox, linkWasLost, callbackVars>>

Traffic == INSTANCE BusTraffic

TrafficInit == Init /\ inbox = <<>> /\ linkWasLost = FALSE /\ Traffic!Init

Ascending(q) == \A i, j \in 1 .. Len(q) : i < j => q[i] < q[j]

\* The ids of drained waiters are notified in the order of a dict, which here
\* is any order; then come the fresh ids of the batch, in order.
DriverStep ==
    /\ inbox = <<>>
    /\ Next
    /\ LET new == notified' \ notified
       IN  \E drained \in SetToSeqs(new \cap PendingIds), fresh \in SetToSeqs(new \ PendingIds) :
              Ascending(fresh) /\ inbox' = drained \o fresh
    /\ linkWasLost' = (linkWasLost \/ ~connected')
    /\ UNCHANGED callbackVars

NotifyStep ==
    /\ inbox # <<>>
    /\ Traffic!notify_command(Head(inbox))
    /\ inbox' = Tail(inbox)
    /\ UNCHANGED <<vars, linkWasLost>>

TrafficNext == DriverStep \/ NotifyStep

TrafficSpec == TrafficInit /\ [][TrafficNext]_allVars

\* notify_command runs to its end before the event loop goes on.
FairTrafficSpec == TrafficSpec /\ Fairness /\ WF_allVars(NotifyStep)

-----------------------------------------------------------------------------
(* Properties *)

\* As long as the broker link stays up: when no command waits for a response,
\* every command that was resolved has been heard, none is skipped or kept
\* back. (bus_traffic.py: "no frame is published ahead of its predecessor or
\* silently skipped". After a link loss refused commands take ids that
\* overtake those in flight, and the flush gives the late ones up.)
NothingSkipped ==
    (~linkWasLost /\ inbox = <<>> /\ PendingSlots = {}) =>
        notified = dispatched

\* Whatever order the driver's ids come in (also after a link loss), the list
\* keeps TrafficOrder's promise: listeners hear ids in increasing order, and an
\* id is kept back only behind a gap the gateway queue can still fill.
\* (notify_command, _drain_contiguous.)
ImplementsOrder == Traffic!Order!TrafficSpec
=============================================================================

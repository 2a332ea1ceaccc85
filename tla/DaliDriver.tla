----------------------------- MODULE DaliDriver -----------------------------
(***************************************************************************)
(* WBDALIDriver (wb/mqtt_dali/wbdali.py): how a DALI command travels from  *)
(* a caller through the send queue and a gateway slot to its response.     *)
(*                                                                         *)
(* Tasks and callbacks that interleave at every await:                     *)
(*   - callers of send_commands and run_sequence,                          *)
(*   - the queue sender task, which collects a batch, waits for slots and  *)
(*     publishes the batch to wb-mqtt-serial,                              *)
(*   - response timers, reply messages and /meta/error reports,            *)
(*   - the broker link, and the gateway behind wb-mqtt-serial (external).  *)
(*                                                                         *)
(* Sessions of the broker are numbered in the code and only compared with  *)
(* the current one: synced and reported are the results of the comparison. *)
(***************************************************************************)
EXTENDS Integers, Sequences, FiniteSets

CONSTANTS
    Cmd,                \* DALI commands, EnableDeviceType prefixes included
    NoCmd,
    Call,               \* calls of send_commands / run_sequence
    NoCall,
    CmdsOf,             \* the commands of a call, in order
    SequenceCall,       \* the calls that are run_sequence
    CancellableCall,    \* the calls whose task may be cancelled
    QueueSize,          \* slots of the gateway queue
    PromptGateway,      \* no reply comes after its timeout, reset or outage
    RefusedPublish,     \* the MQTT client may refuse a publish on a live link
    ReportDuringReset,  \* a report may be handled while a reset is published
    LinkMayDrop,        \* the broker link may go down
    MayDeinit           \* deinitialize may be called

Slot == 0 .. QueueSize - 1

Responses == {"answered", "no_response", "unavailable", "transmission_cancelled"}

FutureStates == {"new", "pending", "cancelled"} \cup Responses

Waiters == [cmd : Cmd \cup {NoCmd}, id : Nat, armed : BOOLEAN]

NoWaiter == [cmd |-> NoCmd, id |-> 0, armed |-> FALSE]

Rng(s) == {s[i] : i \in 1 .. Len(s)}

ASSUME DriverAssumption ==
    /\ NoCmd \notin Cmd
    /\ NoCall \notin Call
    /\ QueueSize \in Nat \ {0}
    /\ CmdsOf \in [Call -> Seq(Cmd)]
    /\ \A k \in Call : Len(CmdsOf[k]) > 0
    /\ SequenceCall \subseteq Call
    /\ CancellableCall \subseteq Call
    /\ {PromptGateway, RefusedPublish, ReportDuringReset,
        LinkMayDrop, MayDeinit} \subseteq BOOLEAN

\* Commands are objects of their call: no two calls, and no two positions of
\* one call, share one.
ASSUME DistinctCommands ==
    /\ \A k \in Call : \A i, j \in 1 .. Len(CmdsOf[k]) :
            CmdsOf[k][i] = CmdsOf[k][j] => i = j
    /\ \A k, m \in Call : k # m => Rng(CmdsOf[k]) \cap Rng(CmdsOf[m]) = {}

VARIABLES
    callPc, callPos, \* where each call is; the position of its next command
    lock,            \* holder of _send_queue_lock
    sendQueue,       \* _send_queue
    future,          \* state of the response future of each command
    answer,          \* history: the command whose reply resolved the future
    waiting,         \* _waiting_for_responses
    orphans,         \* armed timers per slot whose waiter was replaced
    pc,              \* the await the queue sender stands at
    site,            \* which of its three calls of _send_to_gateway runs
    slotCmd,         \* command of the waiter the sender waits for
    batch, batchStart, nextIndex,
    batchTimer,      \* get() runs with the batch timeout
    connected, synced, reported, pendingResync,
    itemIndex,       \* _send_queue_item_index
    notified,        \* history: sequence ids given to notify_command
    rpc,             \* commands published and not yet answered or lost
    gwPtr,           \* history: slot the gateway runs next, as published
    deinit

callVars   == <<callPc, callPos, lock>>
senderVars == <<pc, site, slotCmd, batch, batchStart, nextIndex, batchTimer>>
timerVars  == <<waiting, orphans>>
linkVars   == <<connected, synced, reported, pendingResync>>
idVars     == <<itemIndex, notified>>
gwVars     == <<rpc, gwPtr>>
vars == <<callVars, senderVars, timerVars, linkVars, idVars, gwVars,
          sendQueue, future, answer, deinit>>

\* The gateway pointer after a publish that may not have arrived, or after an
\* outage of the gateway.
UnknownPtr == QueueSize

TypeOK ==
    /\ callPc \in [Call -> {"idle", "lock", "put", "blocked", "gather", "done", "cancelled"}]
    /\ callPos \in [Call -> Nat \ {0}]
    /\ lock \in Call \cup {NoCall}
    /\ sendQueue \in Seq(Cmd)
    /\ future \in [Cmd -> FutureStates]
    /\ answer \in [Cmd -> Cmd \cup {NoCmd}]
    /\ waiting \in [Slot -> Waiters]
    /\ orphans \in [Slot -> Nat]
    /\ pc \in {"top", "get", "cooldown", "resetting", "writing", "refused", "slot", "stopped"}
    /\ site \in {"slot", "timer", "end"}
    /\ slotCmd \in Cmd \cup {NoCmd}
    /\ batch \in Seq(Cmd)
    /\ batchStart \in Slot
    /\ nextIndex \in 0 .. QueueSize
    /\ batchTimer \in BOOLEAN
    /\ connected \in BOOLEAN
    /\ synced \in BOOLEAN
    /\ reported \in BOOLEAN
    /\ pendingResync \in BOOLEAN
    /\ itemIndex \in Nat
    /\ notified \subseteq Nat
    /\ rpc \in Seq([slot : Slot, cmd : Cmd])
    /\ gwPtr \in 0 .. QueueSize
    /\ deinit \in {"no", "cancelling", "done"}

\* initialize: the reset of the gateway queue was delivered or is deferred.
Init ==
    /\ callPc = [k \in Call |-> "idle"]
    /\ callPos = [k \in Call |-> 1]
    /\ lock = NoCall
    /\ sendQueue = <<>>
    /\ future = [c \in Cmd |-> "new"]
    /\ answer = [c \in Cmd |-> NoCmd]
    /\ waiting = [s \in Slot |-> NoWaiter]
    /\ orphans = [s \in Slot |-> 0]
    /\ pc = "top" /\ site = "timer" /\ slotCmd = NoCmd
    /\ batch = <<>> /\ batchStart = 0 /\ nextIndex = 0 /\ batchTimer = FALSE
    /\ connected = TRUE /\ synced = TRUE /\ reported = FALSE
    /\ pendingResync \in BOOLEAN
    /\ itemIndex = 0 /\ notified = {}
    /\ rpc = <<>>
    /\ gwPtr = IF pendingResync THEN UnknownPtr ELSE 0
    /\ deinit = "no"

-----------------------------------------------------------------------------
(* Resolving futures *)

GatewayUnavailable == reported \/ ~connected

Pending(c) == c # NoCmd /\ future[c] = "pending"

PendingSlots == {s \in Slot : Pending(waiting[s].cmd)}

PendingWaiters == {waiting[s].cmd : s \in PendingSlots}

PendingIds == {waiting[s].id : s \in PendingSlots}

\* future after every command of S got the response r
Resolve(S, r) == [c \in Cmd |-> IF c \in S THEN r ELSE future[c]]

\* _drain_pending_with_gateway_unavailable: timers cancelled, waiters failed
\* and told to the bus traffic, dictionary cleared.
DrainTimers ==
    /\ waiting' = [s \in Slot |-> NoWaiter]
    /\ UNCHANGED orphans

DrainPending ==
    /\ DrainTimers
    /\ future' = Resolve(PendingWaiters, "unavailable")
    /\ notified' = notified \cup PendingIds
    /\ UNCHANGED itemIndex

\* _drain_pending_with_gateway_unavailable when drain holds, and then
\* _fail_batch_gateway_unavailable: what is left pending of the batch takes
\* fresh sequence ids.
FailBatch(drain) ==
    LET drained == IF drain THEN PendingWaiters ELSE {}
        failed  == {c \in Rng(batch) : future[c] = "pending"} \ drained
        count   == Cardinality(failed)
    IN  /\ IF drain THEN DrainTimers ELSE UNCHANGED timerVars
        /\ future' = Resolve(drained \cup failed, "unavailable")
        /\ notified' = notified \cup (IF drain THEN PendingIds ELSE {})
                                \cup itemIndex .. itemIndex + count - 1
        /\ itemIndex' = itemIndex + count

-----------------------------------------------------------------------------
(* Callers: send_commands and run_sequence *)

CurrentCmd(k) == CmdsOf[k][callPos[k]]

LastCmd(k) == callPos[k] = Len(CmdsOf[k])

\* Commands refused while the gateway is unavailable still take sequence ids.
Refuse(S) ==
    /\ future' = Resolve(S, "unavailable")
    /\ notified' = notified \cup itemIndex .. itemIndex + Cardinality(S) - 1
    /\ itemIndex' = itemIndex + Cardinality(S)

CallUnavailable(k) ==
    /\ callPc[k] = "idle" /\ k \notin SequenceCall
    /\ GatewayUnavailable
    /\ Refuse(Rng(CmdsOf[k]))
    /\ callPc' = [callPc EXCEPT ![k] = "done"]
    /\ UNCHANGED <<callPos, lock, senderVars, timerVars, linkVars, gwVars,
                   sendQueue, answer, deinit>>

CallStart(k) ==
    /\ callPc[k] = "idle"
    /\ k \in SequenceCall \/ ~GatewayUnavailable
    /\ callPc' = [callPc EXCEPT ![k] = "lock"]
    /\ UNCHANGED <<callPos, lock, senderVars, timerVars, linkVars, idVars,
                   gwVars, sendQueue, future, answer, deinit>>

AcquireLock(k) ==
    /\ callPc[k] = "lock" /\ lock = NoCall
    /\ lock' = k
    /\ callPc' = [callPc EXCEPT ![k] = "put"]
    /\ UNCHANGED <<callPos, senderVars, timerVars, linkVars, idVars, gwVars,
                   sendQueue, future, answer, deinit>>

\* A sequence tests the availability before each of its commands, and not
\* again after it had to wait for room in the queue.
SequenceRefused(k) ==
    /\ callPc[k] = "put" /\ k \in SequenceCall
    /\ GatewayUnavailable
    /\ Refuse({CurrentCmd(k)})
    /\ IF LastCmd(k)
       THEN /\ callPc' = [callPc EXCEPT ![k] = "done"]
            /\ lock' = NoCall
            /\ UNCHANGED callPos
       ELSE /\ callPos' = [callPos EXCEPT ![k] = @ + 1]
            /\ UNCHANGED <<callPc, lock>>
    /\ UNCHANGED <<senderVars, timerVars, linkVars, gwVars, sendQueue, answer,
                   deinit>>

SequenceBlocks(k) ==
    /\ callPc[k] = "put" /\ k \in SequenceCall
    /\ ~GatewayUnavailable /\ Len(sendQueue) = QueueSize
    /\ callPc' = [callPc EXCEPT ![k] = "blocked"]
    /\ UNCHANGED <<callPos, lock, senderVars, timerVars, linkVars, idVars,
                   gwVars, sendQueue, future, answer, deinit>>

\* Seeded fault: the lock is released after each command of a batch.
PutReleasesLock(k) ==
    /\ callPc[k] = "put" /\ Len(sendQueue) < QueueSize
    /\ sendQueue' = Append(sendQueue, CurrentCmd(k))
    /\ future' = [future EXCEPT ![CurrentCmd(k)] = "pending"]
    /\ IF k \in SequenceCall \/ LastCmd(k)
       THEN /\ callPc' = [callPc EXCEPT ![k] = "gather"]
            /\ UNCHANGED callPos
       ELSE /\ callPos' = [callPos EXCEPT ![k] = @ + 1]
            /\ callPc' = [callPc EXCEPT ![k] = "lock"]
    /\ lock' = IF k \in SequenceCall THEN lock ELSE NoCall
    /\ UNCHANGED <<senderVars, timerVars, linkVars, idVars, gwVars, answer,
                   deinit>>

\* send_commands puts its next command and, after the last one, releases the
\* lock and gathers; a sequence puts one command and awaits it with the lock.
Put(k) ==
    /\ \/ callPc[k] = "put" /\ (k \in SequenceCall => ~GatewayUnavailable)
       \/ callPc[k] = "blocked"
    /\ Len(sendQueue) < QueueSize
    /\ sendQueue' = Append(sendQueue, CurrentCmd(k))
    /\ future' = [future EXCEPT ![CurrentCmd(k)] = "pending"]
    /\ IF k \in SequenceCall \/ LastCmd(k)
       THEN /\ callPc' = [callPc EXCEPT ![k] = "gather"]
            /\ UNCHANGED callPos
       ELSE /\ callPos' = [callPos EXCEPT ![k] = @ + 1]
            /\ UNCHANGED callPc
    /\ lock' = IF k \notin SequenceCall /\ LastCmd(k) THEN NoCall ELSE lock
    /\ UNCHANGED <<senderVars, timerVars, linkVars, idVars, gwVars, answer,
                   deinit>>

\* The futures a call awaits.
Awaited(k) == IF k \in SequenceCall THEN {CurrentCmd(k)} ELSE Rng(CmdsOf[k])

\* Seeded fault: a sequence that ends keeps the lock.
GatheredKeepsLock(k) ==
    /\ callPc[k] = "gather"
    /\ \A c \in Awaited(k) : ~Pending(c)
    /\ IF k \in SequenceCall /\ ~LastCmd(k)
       THEN /\ callPc' = [callPc EXCEPT ![k] = "put"]
            /\ callPos' = [callPos EXCEPT ![k] = @ + 1]
       ELSE /\ callPc' = [callPc EXCEPT ![k] = "done"]
            /\ UNCHANGED callPos
    /\ UNCHANGED <<lock, senderVars, timerVars, linkVars, idVars, gwVars, sendQueue,
                   future, answer, deinit>>

Gathered(k) ==
    /\ callPc[k] = "gather"
    /\ \A c \in Awaited(k) : ~Pending(c)
    /\ IF k \in SequenceCall /\ ~LastCmd(k)
       THEN /\ callPc' = [callPc EXCEPT ![k] = "put"]
            /\ callPos' = [callPos EXCEPT ![k] = @ + 1]
            /\ UNCHANGED lock
       ELSE /\ callPc' = [callPc EXCEPT ![k] = "done"]
            /\ lock' = IF lock = k THEN NoCall ELSE lock
            /\ UNCHANGED callPos
    /\ UNCHANGED <<senderVars, timerVars, linkVars, idVars, gwVars, sendQueue,
                   future, answer, deinit>>

\* The calling task is cancelled at one of its awaits. gather cancels the
\* futures it awaits; a call cancelled while the queue is full leaves the
\* commands it already put in the queue.
CancelCall(k) ==
    /\ k \in CancellableCall
    /\ \/ callPc[k] = "lock" /\ UNCHANGED future
       \/ /\ callPc[k] = "put" /\ k \notin SequenceCall
          /\ Len(sendQueue) = QueueSize /\ UNCHANGED future
       \/ callPc[k] = "blocked" /\ UNCHANGED future
       \/ /\ callPc[k] = "gather"
          /\ future' = Resolve({c \in Awaited(k) : Pending(c)}, "cancelled")
    /\ callPc' = [callPc EXCEPT ![k] = "cancelled"]
    /\ lock' = IF lock = k THEN NoCall ELSE lock
    /\ UNCHANGED <<callPos, senderVars, timerVars, linkVars, idVars, gwVars,
                   sendQueue, answer, deinit>>

-----------------------------------------------------------------------------
(* The queue sender task: _queue_sender and _send_to_gateway *)

\* Seeded fault: a slot is taken whether it awaits a response or not.
SenderTopNoWait ==
    /\ pc = "top"
    /\ pc' = "get"
    /\ UNCHANGED <<site, slotCmd, batch, batchStart, nextIndex, batchTimer, callVars,
                   timerVars, linkVars, idVars, gwVars, sendQueue, future, answer, deinit>>

\* Top of the loop: a slot that still awaits a response is waited for after
\* the batch collected so far is flushed.
SenderTop ==
    /\ pc = "top"
    /\ IF Pending(waiting[nextIndex].cmd)
       THEN /\ slotCmd' = waiting[nextIndex].cmd
            /\ site' = "slot"
            /\ IF batch = <<>>
               THEN pc' = "slot" /\ batchStart' = nextIndex
               ELSE pc' = "cooldown" /\ UNCHANGED batchStart
       ELSE /\ pc' = "get"
            /\ UNCHANGED <<slotCmd, site, batchStart>>
    /\ UNCHANGED <<batch, nextIndex, batchTimer, callVars, timerVars, linkVars,
                   idVars, gwVars, sendQueue, future, answer, deinit>>

\* get() returned an item: a cancelled one is dropped, the others join the
\* batch, which is flushed when it reaches the last slot.
SenderGet ==
    /\ pc = "get" /\ sendQueue # <<>>
    /\ sendQueue' = Tail(sendQueue)
    /\ batchTimer' = TRUE
    /\ IF future[Head(sendQueue)] = "cancelled"
       THEN pc' = "top" /\ UNCHANGED <<batch, nextIndex, site>>
       ELSE /\ batch' = Append(batch, Head(sendQueue))
            /\ nextIndex' = nextIndex + 1
            /\ IF nextIndex + 1 = QueueSize
               THEN pc' = "cooldown" /\ site' = "end"
               ELSE pc' = "top" /\ UNCHANGED site
    /\ UNCHANGED <<batchStart, slotCmd, callVars, timerVars, linkVars, idVars,
                   gwVars, future, answer, deinit>>

\* The batch timeout of get() expired.
SenderGetTimeout ==
    /\ pc = "get" /\ batchTimer /\ sendQueue = <<>>
    /\ IF batch = <<>>
       THEN /\ pc' = "top" /\ batchTimer' = FALSE
            /\ batchStart' = nextIndex
            /\ UNCHANGED site
       ELSE /\ pc' = "cooldown" /\ site' = "timer"
            /\ UNCHANGED <<batchTimer, batchStart>>
    /\ UNCHANGED <<slotCmd, batch, nextIndex, callVars, timerVars, linkVars,
                   idVars, gwVars, sendQueue, future, answer, deinit>>

\* What follows a call of _send_to_gateway at each of its three sites.
Finish ==
    /\ batch' = <<>>
    /\ nextIndex' = IF nextIndex = QueueSize THEN 0 ELSE nextIndex
    /\ batchStart' = nextIndex'
    /\ batchTimer' = (batchTimer /\ site # "timer")
    /\ pc' = IF site = "slot" THEN "slot" ELSE "top"
    /\ UNCHANGED <<site, slotCmd>>

\* Registers the batch in the slots from start on; a waiter that is replaced
\* leaves its timer armed.
Register(start) ==
    LET used == start .. start + Len(batch) - 1
    IN  /\ waiting' = [s \in Slot |->
                IF s \in used
                THEN [cmd |-> batch[s - start + 1], id |-> itemIndex + (s - start),
                      armed |-> TRUE]
                ELSE waiting[s]]
        /\ orphans' = [s \in Slot |->
                IF s \in used /\ waiting[s].armed THEN orphans[s] + 1 ELSE orphans[s]]
        /\ itemIndex' = itemIndex + Len(batch)
        /\ UNCHANGED <<notified, future>>

\* After wait_before_send: catch up with the broker session, then fail the
\* batch, start the queue reset, or register and start the write.
SendUnavailable ==
    /\ pc = "cooldown" /\ GatewayUnavailable
    /\ FailBatch(~synced)
    /\ synced' = TRUE
    /\ pendingResync' = (pendingResync \/ ~synced)
    /\ Finish
    /\ UNCHANGED <<connected, reported, callVars, gwVars, sendQueue, answer,
                   deinit>>

SendReset ==
    /\ pc = "cooldown" /\ ~GatewayUnavailable
    /\ pendingResync \/ ~synced
    /\ IF synced THEN UNCHANGED <<timerVars, future, idVars>> ELSE DrainPending
    /\ synced' = TRUE
    /\ pendingResync' = TRUE
    /\ pc' = "resetting"
    /\ gwPtr' = 0
    /\ UNCHANGED <<site, slotCmd, batch, batchStart, nextIndex, batchTimer,
                   connected, reported, callVars, rpc, sendQueue, answer, deinit>>

SendWrite ==
    /\ pc = "cooldown" /\ ~GatewayUnavailable
    /\ ~pendingResync /\ synced
    /\ Register(batchStart)
    /\ pc' = "writing"
    /\ UNCHANGED <<site, slotCmd, batch, batchStart, nextIndex, batchTimer,
                   linkVars, callVars, gwVars, sendQueue, answer, deinit>>

\* The reset was published: the batch moves to slot 0 and is registered. The
\* write is refused at once when the link went down meanwhile.
ResetPublished ==
    /\ pc = "resetting"
    /\ pendingResync' = FALSE
    /\ Register(0)
    /\ batchStart' = 0
    /\ nextIndex' = Len(batch)
    /\ rpc' = IF PromptGateway THEN <<>> ELSE rpc
    /\ pc' = IF connected THEN "writing" ELSE "refused"
    /\ UNCHANGED <<gwPtr, site, slotCmd, batch, batchTimer, connected, synced,
                   reported, callVars, sendQueue, answer, deinit>>

\* The batch was published.
WritePublished ==
    /\ pc = "writing"
    /\ rpc' = rpc \o [i \in 1 .. Len(batch) |->
                        [slot |-> batchStart + i - 1, cmd |-> batch[i]]]
    /\ gwPtr' = IF gwPtr = UnknownPtr THEN gwPtr
                ELSE (batchStart + Len(batch)) % QueueSize
    /\ Finish
    /\ UNCHANGED <<callVars, timerVars, linkVars, idVars, sendQueue, future,
                   answer, deinit>>

\* A publish of the reset or of the batch raised MqttError.
PublishFailed ==
    /\ \/ pc = "refused"
       \/ pc \in {"resetting", "writing"} /\ (~connected \/ RefusedPublish)
    /\ FailBatch(TRUE)
    /\ gwPtr' = UnknownPtr
    /\ Finish
    /\ UNCHANGED <<rpc, callVars, linkVars, sendQueue, answer, deinit>>

\* The response the sender waited for came; a cancelled one counts too.
SlotFree ==
    /\ pc = "slot" /\ ~Pending(slotCmd)
    /\ pc' = "get"
    /\ UNCHANGED <<site, slotCmd, batch, batchStart, nextIndex, batchTimer,
                   callVars, timerVars, linkVars, idVars, gwVars, sendQueue,
                   future, answer, deinit>>

-----------------------------------------------------------------------------
(* Replies, timers, reports and the broker link *)

\* The gateway answers the oldest command it holds and _handle_reply_message
\* looks the waiter up by the slot.
Reply ==
    /\ rpc # <<>> /\ connected
    /\ rpc' = Tail(rpc)
    /\ LET s == Head(rpc).slot
           w == waiting[s]
       IN  /\ waiting' = [waiting EXCEPT ![s].armed = FALSE]
           /\ IF Pending(w.cmd)
              THEN /\ future' = [future EXCEPT ![w.cmd] = "answered"]
                   /\ answer' = [answer EXCEPT ![w.cmd] = Head(rpc).cmd]
                   /\ notified' = notified \cup {w.id}
              ELSE UNCHANGED <<future, answer, notified>>
    /\ UNCHANGED <<orphans, gwPtr, itemIndex, callVars, senderVars, linkVars,
                   sendQueue, deinit>>

\* A command or its reply is lost on the way.
ReplyLost ==
    /\ rpc # <<>>
    /\ rpc' = Tail(rpc)
    /\ UNCHANGED <<gwPtr, callVars, senderVars, timerVars, linkVars, idVars,
                   sendQueue, future, answer, deinit>>

\* Commands on their way: being published, or held by the gateway.
InTransit ==
    {rpc[i].cmd : i \in 1 .. Len(rpc)} \cup (IF pc = "writing" THEN Rng(batch) ELSE {})

\* Seeded fault: no word to the bus traffic.
TimeoutNotTold(s) ==
    /\ future' = IF Pending(waiting[s].cmd)
                 THEN [future EXCEPT ![waiting[s].cmd] = "no_response"]
                 ELSE future
    /\ UNCHANGED notified

\* timeout_callback of slot s acts on whatever waiter the slot holds.
TimeoutCallback(s) ==
    IF Pending(waiting[s].cmd)
    THEN /\ future' = [future EXCEPT ![waiting[s].cmd] = "no_response"]
         /\ notified' = notified \cup {waiting[s].id}
    ELSE UNCHANGED <<future, notified>>

\* Seeded fault: the timer is shorter than the gateway's own wait.
TimeoutTooSoon(s) ==
    /\ waiting[s].armed
    /\ waiting' = [waiting EXCEPT ![s].armed = FALSE]
    /\ TimeoutCallback(s)
    /\ UNCHANGED <<orphans, itemIndex, callVars, senderVars, linkVars, gwVars,
                   sendQueue, answer, deinit>>

\* A timer runs longer than the gateway takes (PromptGateway), or it does not.
Timeout(s) ==
    /\ waiting[s].armed
    /\ PromptGateway => waiting[s].cmd \notin InTransit
    /\ waiting' = [waiting EXCEPT ![s].armed = FALSE]
    /\ TimeoutCallback(s)
    /\ UNCHANGED <<orphans, itemIndex, callVars, senderVars, linkVars, gwVars,
                   sendQueue, answer, deinit>>

OrphanTimeout(s) ==
    /\ orphans[s] > 0
    /\ orphans' = [orphans EXCEPT ![s] = @ - 1]
    /\ TimeoutCallback(s)
    /\ UNCHANGED <<waiting, itemIndex, callVars, senderVars, linkVars, gwVars,
                   sendQueue, answer, deinit>>

\* /meta/error with payload "r". A report that changes nothing is ignored.
ReportUnreachable ==
    /\ connected /\ ~reported /\ deinit # "done"
    /\ pc = "resetting" => ReportDuringReset
    /\ reported' = TRUE
    /\ DrainPending
    /\ rpc' = IF PromptGateway THEN <<>> ELSE rpc
    /\ UNCHANGED <<gwPtr, connected, synced, pendingResync, callVars,
                   senderVars, sendQueue, answer, deinit>>

\* Seeded fault: the gateway's return schedules no reset of its queue.
ReportReachableNoResync ==
    /\ connected /\ reported /\ deinit # "done"
    /\ reported' = FALSE
    /\ gwPtr' = UnknownPtr
    /\ UNCHANGED <<rpc, connected, synced, pendingResync, callVars, senderVars, timerVars,
                   idVars, sendQueue, future, answer, deinit>>

\* /meta/error withdrawn: the queue reset is left to the next batch.
ReportReachable ==
    /\ connected /\ reported /\ deinit # "done"
    /\ reported' = FALSE
    /\ pendingResync' = TRUE
    /\ gwPtr' = UnknownPtr
    /\ UNCHANGED <<rpc, connected, synced, callVars, senderVars, timerVars,
                   idVars, sendQueue, future, answer, deinit>>

ConnectionLost ==
    /\ LinkMayDrop /\ connected
    /\ connected' = FALSE
    /\ UNCHANGED <<synced, reported, pendingResync, callVars, senderVars,
                   timerVars, idVars, gwVars, sendQueue, future, answer, deinit>>

\* A new session: a report of the old one is stale, the driver is not synced.
ConnectionRestored ==
    /\ ~connected
    /\ connected' = TRUE
    /\ synced' = FALSE
    /\ reported' = FALSE
    /\ UNCHANGED <<pendingResync, callVars, senderVars, timerVars, idVars,
                   gwVars, sendQueue, future, answer, deinit>>

-----------------------------------------------------------------------------
(* deinitialize *)

\* Task.cancel() reaches the sender at its await. At get() it ends the task.
\* Inside _send_to_gateway it ends it too, except for the batch timeout site,
\* whose `continue` in a finally clause discards the exception. An await on a
\* waiter's future cancels that future, which the sender takes for the
\* caller's own cancellation; when the future is resolved already and the
\* sender has not run since, the task ends.
CancelAtGet ==
    /\ pc = "get"
    /\ pc' = "stopped"
    /\ UNCHANGED <<site, slotCmd, batch, batchStart, nextIndex, batchTimer, future>>

CancelInSend ==
    /\ pc \in {"cooldown", "resetting", "writing"}
    /\ batch' = <<>>
    /\ nextIndex' = IF nextIndex = QueueSize THEN 0 ELSE nextIndex
    /\ batchStart' = nextIndex'
    /\ batchTimer' = (batchTimer /\ site # "timer")
    /\ pc' = IF site = "timer" THEN "top" ELSE "stopped"
    /\ UNCHANGED <<site, slotCmd, future>>

CancelAtSlot ==
    /\ pc = "slot"
    /\ future' = IF Pending(slotCmd) THEN [future EXCEPT ![slotCmd] = "cancelled"]
                 ELSE future
    /\ pc' = IF future'[slotCmd] = "cancelled" THEN "get" ELSE "stopped"
    /\ UNCHANGED <<site, slotCmd, batch, batchStart, nextIndex, batchTimer>>

Deinitialize ==
    /\ MayDeinit /\ deinit = "no"
    /\ deinit' = "cancelling"
    /\ CancelAtGet \/ CancelInSend \/ CancelAtSlot
    /\ UNCHANGED <<callVars, timerVars, linkVars, idVars, gwVars, sendQueue, answer>>

\* The sender task ended: the registered waiters are resolved.
Deinitialized ==
    /\ deinit = "cancelling" /\ pc = "stopped"
    /\ deinit' = "done"
    /\ DrainTimers
    /\ future' = Resolve(PendingWaiters, "transmission_cancelled")
    /\ UNCHANGED <<callVars, senderVars, linkVars, idVars, gwVars, sendQueue, answer>>

-----------------------------------------------------------------------------

Caller(k) ==
    \/ CallUnavailable(k)
    \/ CallStart(k)
    \/ AcquireLock(k)
    \/ SequenceRefused(k)
    \/ SequenceBlocks(k)
    \/ Put(k)
    \/ Gathered(k)

Sender ==
    \/ SenderTop
    \/ SenderGet
    \/ SenderGetTimeout
    \/ SendUnavailable
    \/ SendReset
    \/ SendWrite
    \/ ResetPublished
    \/ WritePublished
    \/ PublishFailed
    \/ SlotFree

Environment ==
    \/ Reply
    \/ ReplyLost
    \/ ReportUnreachable
    \/ ReportReachable
    \/ ConnectionLost
    \/ ConnectionRestored

Next ==
    \/ \E k \in Call : Caller(k) \/ CancelCall(k)
    \/ Sender
    \/ \E s \in Slot : Timeout(s) \/ OrphanTimeout(s)
    \/ Environment
    \/ Deinitialize
    \/ Deinitialized

Spec == Init /\ [][Next]_vars

\* The event loop runs every ready callback: tasks that can go on, timers
\* that are due, publishes that end one way or the other.
Fairness ==
    /\ \A k \in Call : WF_vars(Caller(k))
    /\ WF_vars(Sender)
    /\ \A s \in Slot : WF_vars(Timeout(s)) /\ WF_vars(OrphanTimeout(s))
    /\ WF_vars(Reply \/ ReplyLost)
    /\ WF_vars(Deinitialized)

FairSpec == Spec /\ Fairness

-----------------------------------------------------------------------------
(* Properties *)

\* Every pending future is where something will resolve it: in the send
\* queue, in the batch the sender collects, or in a slot whose timer is armed.
\* (_queue_sender, _send_to_gateway: a waiter is never overwritten, a batch
\* never dropped, while its command is pending.)
NoLostCommand ==
    deinit = "no" =>
        \A c \in Cmd : Pending(c) =>
            \/ c \in Rng(sendQueue)
            \/ c \in Rng(batch)
            \/ \E s \in Slot : waiting[s].cmd = c /\ waiting[s].armed

\* A caller that got an answer got the one the gateway gave to its own command.
\* (_handle_reply_message finds the waiter by the slot alone.)
AnswersMatch ==
    \A c \in Cmd : future[c] = "answered" => answer[c] = c

\* A caller never gets the reply to a command that is still waited for: the
\* reply to another command comes to it only after that command was given up
\* (timed out, cancelled, failed with the link or the gateway), and the caller
\* of that one never gets it. (_queue_sender waits for the slot;
\* _handle_reply_message, late replies; timeout_callback, stale timers.)
WrongAnswerIsLate ==
    \A c \in Cmd : future[c] = "answered" /\ answer[c] # c =>
        /\ future[answer[c]] \notin {"new", "pending"}
        /\ answer[answer[c]] # answer[c]

\* A batch is handed to the client for the slot where the gateway's queue pointer stands, and never
\* while a reset of that pointer is owed. (_send_to_gateway, _pending_resync.)
WritesContinueQueue ==
    [][pc # "writing" /\ pc' = "writing" => batchStart' = gwPtr]_vars

\* On their way to the gateway the commands of one call stand next to each
\* other and in order. (_send_queue_lock; send_commands: "the batch is not
\* interleaved with other send/send_commands calls".)
NotInterleaved ==
    LET way == batch \o sendQueue
    IN  \A k \in Call : \A i, j \in 1 .. Len(way) :
            (i < j /\ way[i] \in Rng(CmdsOf[k]) /\ way[j] \in Rng(CmdsOf[k])) =>
                /\ \A m \in i .. j : way[m] \in Rng(CmdsOf[k])
                /\ \A p, q \in 1 .. Len(CmdsOf[k]) :
                      CmdsOf[k][p] = way[i] /\ CmdsOf[k][q] = way[j] => p < q

\* A resolved future keeps its result.
ResolvedOnce ==
    [][\A c \in Cmd : future[c] \in Responses \cup {"cancelled"} =>
          future'[c] = future[c]]_vars

\* Every call that starts ends: no caller waits for ever.
CallsEnd ==
    \A k \in Call : callPc[k] \in {"lock", "put", "blocked", "gather"} ~>
                    callPc[k] \in {"done", "cancelled"}

\* deinitialize, which awaits the cancelled sender task, returns. The code does
\* not keep this: README, section 3.
DeinitEnds == deinit = "cancelling" ~> deinit = "done"
=============================================================================

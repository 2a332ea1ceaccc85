-------------------------- MODULE DaliDriverProofs --------------------------
(***************************************************************************)
(* DaliDriver for any number of slots, commands and calls: the types, that *)
(* no future is resolved twice, that the commands of a call stay together, *)
(* that nobody gets the reply to a command somebody still waits for, and,  *)
(* while the driver runs, that no pending command is lost and batches are  *)
(* written where the gateway's queue pointer stands.                       *)
(***************************************************************************)
EXTENDS DaliDriver, SequenceTheorems, FiniteSetTheorems, TLAPS

\* The sender is inside _send_to_gateway.
InSend == pc \in {"cooldown", "resetting", "writing", "refused"}

\* The batch lies in the slots from batchStart to nextIndex; only a batch
\* that ends at the last slot is flushed with nextIndex past it.
IndexInv ==
    /\ pc # "stopped" => Len(batch) = nextIndex - batchStart
    /\ ~(InSend /\ site = "end") => nextIndex < QueueSize
    /\ pc = "slot" => batch = <<>>

\* A call has not touched the commands it still has to send.
Untouched(k) ==
    /\ callPos[k] \in 1 .. Len(CmdsOf[k])
    /\ callPc[k] \in {"idle", "lock", "put", "blocked"} =>
          \A i \in callPos[k] .. Len(CmdsOf[k]) : future[CmdsOf[k][i]] = "new"
    /\ callPc[k] = "gather" =>
          \A i \in callPos[k] + 1 .. Len(CmdsOf[k]) : future[CmdsOf[k][i]] = "new"
    /\ callPc[k] = "idle" => callPos[k] = 1

CallInv == \A k \in Call : Untouched(k)
-----------------------------------------------------------------------------
(* Sequences and numbers *)

\* A batch that starts where the next command goes is empty.
LEMMA SelfMinus == \A x \in Int : x - x = 0
  OBVIOUS

\* The batch and the send queue hold finitely many commands.
LEMMA RngFinite ==
  ASSUME NEW S, NEW q \in Seq(S)
  PROVE  IsFiniteSet(Rng(q))
<1>1. IsFiniteSet(1 .. Len(q))
  BY FS_Interval
<1>2. q \in Surjection(1 .. Len(q), Rng(q))
  BY DEF Rng, Surjection
<1> QED
  BY <1>1, <1>2, FS_Surjection

\* put(): the queue gains the command.
LEMMA RngAppend ==
  ASSUME NEW S, NEW q \in Seq(S), NEW x \in S
  PROVE  Append(q, x) \in Seq(S) /\ Rng(Append(q, x)) = Rng(q) \cup {x}
<1>1. /\ Append(q, x) \in Seq(S)
      /\ Len(Append(q, x)) = Len(q) + 1
      /\ \A i \in 1 .. Len(q) : Append(q, x)[i] = q[i]
      /\ Append(q, x)[Len(q) + 1] = x
  OBVIOUS
<1>2. Len(q) \in Nat
  OBVIOUS
<1>3. ASSUME NEW y \in Rng(Append(q, x)) PROVE y \in Rng(q) \cup {x}
  BY <1>1, <1>2, <1>3 DEF Rng
<1>4. ASSUME NEW y \in Rng(q) \cup {x} PROVE y \in Rng(Append(q, x))
  <2>1. CASE y \in Rng(q)
    <3>1. PICK i \in 1 .. Len(q) : y = q[i]
      BY <2>1 DEF Rng
    <3>2. i \in 1 .. Len(Append(q, x)) /\ y = Append(q, x)[i]
      BY <1>1, <1>2, <3>1
    <3> QED BY <3>2 DEF Rng
  <2>2. CASE y = x
    <3>1. Len(q) + 1 \in 1 .. Len(Append(q, x)) /\ y = Append(q, x)[Len(q) + 1]
      BY <1>1, <1>2, <2>2
    <3> QED BY <3>1 DEF Rng
  <2> QED BY <2>1, <2>2
<1> QED
  BY <1>1, <1>3, <1>4

\* get(): the queue loses its head and nothing else.
LEMMA RngTail ==
  ASSUME NEW S, NEW q \in Seq(S), q # <<>>
  PROVE  /\ Tail(q) \in Seq(S) /\ Head(q) \in S
         /\ Head(q) \in Rng(q)
         /\ Rng(Tail(q)) \subseteq Rng(q)
         /\ Rng(q) \subseteq Rng(Tail(q)) \cup {Head(q)}
<1>1. Len(q) \in Nat /\ Len(q) > 0
  BY EmptySeq
<1>2. /\ Tail(q) \in Seq(S) /\ Head(q) \in S /\ Head(q) = q[1]
      /\ Len(Tail(q)) = Len(q) - 1
      /\ \A i \in 1 .. Len(q) - 1 : Tail(q)[i] = q[i + 1]
  BY <1>1
<1>3. Head(q) \in Rng(q)
  <2>1. 1 \in 1 .. Len(q)
    BY <1>1
  <2> QED BY <2>1, <1>2 DEF Rng
<1>4. ASSUME NEW y \in Rng(Tail(q)) PROVE y \in Rng(q)
  <2>1. PICK i \in 1 .. Len(Tail(q)) : y = Tail(q)[i]
    BY <1>4 DEF Rng
  <2>2. i + 1 \in 1 .. Len(q) /\ y = q[i + 1]
    BY <1>1, <1>2, <2>1
  <2> QED BY <2>2 DEF Rng
<1>5. ASSUME NEW y \in Rng(q) PROVE y \in Rng(Tail(q)) \cup {Head(q)}
  <2>1. PICK i \in 1 .. Len(q) : y = q[i]
    BY <1>5 DEF Rng
  <2>2. CASE i = 1
    BY <2>1, <2>2, <1>2
  <2>3. CASE i > 1
    <3>1. i - 1 \in 1 .. Len(Tail(q)) /\ y = Tail(q)[i - 1]
      BY <1>1, <1>2, <2>1, <2>3
    <3> QED BY <3>1 DEF Rng
  <2> QED BY <2>1, <2>2, <2>3
<1> QED
  BY <1>2, <1>3, <1>4, <1>5

\* An empty batch holds no command.
LEMMA RngEmpty == Rng(<<>>) = {}
  BY DEF Rng

\* Members of a sequence over S are in S.
LEMMA RngType ==
  ASSUME NEW S, NEW q \in Seq(S)
  PROVE  Rng(q) \subseteq S
  BY DEF Rng
-----------------------------------------------------------------------------
(* Facts about single operators *)

\* The command a call sends next is a command.
LEMMA CurrentCmdType ==
  ASSUME CallInv, NEW k \in Call
  PROVE  CurrentCmd(k) \in Cmd /\ CurrentCmd(k) \in Rng(CmdsOf[k])
<1>1. CmdsOf[k] \in Seq(Cmd) /\ callPos[k] \in 1 .. Len(CmdsOf[k])
  BY DriverAssumption DEF CallInv, Untouched
<1> QED
  BY <1>1 DEF CurrentCmd, Rng

\* Giving a response to a set of commands keeps the type of the futures.
LEMMA ResolveType ==
  ASSUME TypeOK, NEW S, NEW r \in FutureStates
  PROVE  Resolve(S, r) \in [Cmd -> FutureStates]
  BY DEF Resolve, TypeOK

\* Pending waiters are commands and carry sequence ids.
LEMMA PendingType ==
  ASSUME TypeOK
  PROVE  PendingWaiters \subseteq Cmd /\ PendingIds \subseteq Nat
  BY DEF TypeOK, PendingWaiters, PendingIds, PendingSlots, Pending, Waiters

\* A free slot is a slot state.
LEMMA NoWaiterType == NoWaiter \in Waiters
  BY DEF NoWaiter, Waiters

\* A timer that fired or was cancelled leaves its waiter in place.
LEMMA DisarmType ==
  ASSUME NEW f \in [Slot -> Waiters], NEW s \in Slot
  PROVE  [f EXCEPT ![s].armed = FALSE] \in [Slot -> Waiters]
  BY DEF Waiters

\* _fail_batch_gateway_unavailable numbers finitely many commands.
LEMMA FailBatchType ==
  ASSUME TypeOK, NEW drain \in BOOLEAN, FailBatch(drain)
  PROVE  /\ waiting' \in [Slot -> Waiters] /\ orphans' \in [Slot -> Nat]
         /\ future' \in [Cmd -> FutureStates]
         /\ itemIndex' \in Nat /\ notified' \subseteq Nat
<1> DEFINE drained == IF drain THEN PendingWaiters ELSE {}
           failed  == {c \in Rng(batch) : future[c] = "pending"} \ drained
           count   == Cardinality(failed)
<1>1. IsFiniteSet(failed)
  <2>1. IsFiniteSet(Rng(batch))
    BY RngFinite DEF TypeOK
  <2>2. failed \in SUBSET Rng(batch)
    OBVIOUS
  <2> QED BY <2>1, <2>2, FS_Subset
<1>2. count \in Nat
  BY <1>1, FS_CardinalityType
<1>3. itemIndex' = itemIndex + count
  BY DEF FailBatch
<1>4. itemIndex' \in Nat
  BY <1>2, <1>3 DEF TypeOK
<1>5. notified' \subseteq Nat
  <2>1. notified' = notified \cup (IF drain THEN PendingIds ELSE {})
                             \cup itemIndex .. itemIndex + count - 1
    BY DEF FailBatch
  <2> HIDE DEF count
  <2>2. itemIndex .. itemIndex + count - 1 \subseteq Nat
    BY <1>2 DEF TypeOK
  <2> QED BY <2>1, <2>2, PendingType DEF TypeOK
<1>6. waiting' \in [Slot -> Waiters] /\ orphans' \in [Slot -> Nat]
  <2>1. CASE drain
    <3>1. DrainTimers
      BY <2>1 DEF FailBatch
    <3> QED BY <3>1, NoWaiterType DEF DrainTimers, TypeOK
  <2>2. CASE ~drain
    <3>1. UNCHANGED timerVars
      BY <2>2 DEF FailBatch
    <3> QED BY <3>1 DEF timerVars, TypeOK
  <2> QED BY <2>1, <2>2
<1>7. future' \in [Cmd -> FutureStates]
  <2>1. future' = Resolve(drained \cup failed, "unavailable")
    BY DEF FailBatch
  <2> QED BY <2>1, ResolveType DEF FutureStates, Responses
<1> QED
  BY <1>4, <1>5, <1>6, <1>7

\* _drain_pending_with_gateway_unavailable tells ids that were given out.
LEMMA DrainPendingType ==
  ASSUME TypeOK, DrainPending
  PROVE  /\ waiting' \in [Slot -> Waiters] /\ orphans' \in [Slot -> Nat]
         /\ future' \in [Cmd -> FutureStates]
         /\ itemIndex' \in Nat /\ notified' \subseteq Nat
<1>1. waiting' \in [Slot -> Waiters] /\ orphans' \in [Slot -> Nat]
  BY NoWaiterType DEF DrainPending, DrainTimers, TypeOK
<1>2. future' \in [Cmd -> FutureStates]
  BY ResolveType DEF DrainPending, FutureStates, Responses
<1>3. itemIndex' \in Nat /\ notified' \subseteq Nat
  BY PendingType DEF DrainPending, TypeOK
<1> QED BY <1>1, <1>2, <1>3

\* Refused commands take finitely many ids.
LEMMA RefuseType ==
  ASSUME TypeOK, NEW S, IsFiniteSet(S), Refuse(S)
  PROVE  /\ future' \in [Cmd -> FutureStates]
         /\ itemIndex' \in Nat /\ notified' \subseteq Nat
<1>1. Cardinality(S) \in Nat
  BY FS_CardinalityType
<1>2. itemIndex .. itemIndex + Cardinality(S) - 1 \subseteq Nat
  BY <1>1 DEF TypeOK
<1>3. future' \in [Cmd -> FutureStates]
  BY ResolveType DEF Refuse, FutureStates, Responses
<1>4. itemIndex' \in Nat
  BY <1>1 DEF Refuse, TypeOK
<1>5. notified' \subseteq Nat
  <2>1. notified' = notified \cup itemIndex .. itemIndex + Cardinality(S) - 1
    BY DEF Refuse
  <2> QED BY <2>1, <1>2 DEF TypeOK
<1> QED
  BY <1>3, <1>4, <1>5

\* A batch fits the slots it is registered in.
LEMMA RegisterType ==
  ASSUME TypeOK, NEW start \in Slot, start + Len(batch) <= QueueSize, Register(start)
  PROVE  /\ waiting' \in [Slot -> Waiters] /\ orphans' \in [Slot -> Nat]
         /\ itemIndex' \in Nat
<1>1. batch \in Seq(Cmd) /\ Len(batch) \in Nat /\ start \in Nat /\ itemIndex \in Nat
  BY DriverAssumption DEF TypeOK, Slot
<1>2. itemIndex' \in Nat
  BY <1>1 DEF Register
<1>3. ASSUME NEW s \in Slot PROVE waiting'[s] \in Waiters /\ orphans'[s] \in Nat
  <2>1. CASE s \in start .. start + Len(batch) - 1
    <3>1. s - start + 1 \in 1 .. Len(batch) /\ itemIndex + (s - start) \in Nat
      BY <1>1, <2>1
    <3>2. batch[s - start + 1] \in Cmd
      BY <3>1, <1>1
    <3>3. waiting'[s] = [cmd |-> batch[s - start + 1], id |-> itemIndex + (s - start),
                         armed |-> TRUE]
      BY <2>1 DEF Register
    <3>4. waiting'[s] \in Waiters
      BY <3>1, <3>2, <3>3 DEF Waiters
    <3>5. orphans[s] \in Nat /\ orphans'[s] \in {orphans[s], orphans[s] + 1}
      BY DEF Register, TypeOK
    <3> QED BY <3>4, <3>5
  <2>2. CASE s \notin start .. start + Len(batch) - 1
    BY <2>2 DEF Register, TypeOK
  <2> QED BY <2>1, <2>2
<1>4. /\ waiting' = [s \in Slot |-> waiting'[s]]
      /\ orphans' = [s \in Slot |-> orphans'[s]]
  BY DEF Register
<1> QED
  BY <1>2, <1>3, <1>4
-----------------------------------------------------------------------------
(* Types *)

CallTypes ==
    /\ callPc \in [Call -> {"idle", "lock", "put", "blocked", "gather", "done", "cancelled"}]
    /\ callPos \in [Call -> Nat \ {0}]
    /\ lock \in Call \cup {NoCall}

FutureTypes ==
    /\ sendQueue \in Seq(Cmd)
    /\ future \in [Cmd -> FutureStates]
    /\ answer \in [Cmd -> Cmd \cup {NoCmd}]

SlotTypes == waiting \in [Slot -> Waiters] /\ orphans \in [Slot -> Nat]

PlaceTypes ==
    /\ pc \in {"top", "get", "cooldown", "resetting", "writing", "refused", "slot", "stopped"}
    /\ site \in {"slot", "timer", "end"}
    /\ slotCmd \in Cmd \cup {NoCmd}
    /\ batchTimer \in BOOLEAN

BatchTypes == batch \in Seq(Cmd) /\ batchStart \in Slot /\ nextIndex \in 0 .. QueueSize

LinkTypes ==
    /\ connected \in BOOLEAN /\ synced \in BOOLEAN
    /\ reported \in BOOLEAN /\ pendingResync \in BOOLEAN

IdTypes == itemIndex \in Nat /\ notified \subseteq Nat

GwTypes == rpc \in Seq([slot : Slot, cmd : Cmd]) /\ gwPtr \in 0 .. QueueSize

Types ==
    /\ CallTypes /\ FutureTypes /\ SlotTypes /\ PlaceTypes /\ BatchTypes
    /\ LinkTypes /\ IdTypes /\ GwTypes
    /\ deinit \in {"no", "cancelling", "done"}

\* TypeOK, one group of variables at a time.
LEMMA TypeParts == TypeOK <=> Types
  BY DEF TypeOK, Types, CallTypes, FutureTypes, SlotTypes, PlaceTypes, BatchTypes,
         LinkTypes, IdTypes, GwTypes

\* A group that a step leaves alone keeps its types.
LEMMA Unchanged ==
  ASSUME Types
  PROVE  /\ UNCHANGED callVars => CallTypes'
         /\ UNCHANGED <<sendQueue, future, answer>> => FutureTypes'
         /\ UNCHANGED timerVars => SlotTypes'
         /\ UNCHANGED senderVars => PlaceTypes' /\ BatchTypes'
         /\ UNCHANGED linkVars => LinkTypes'
         /\ UNCHANGED idVars => IdTypes'
         /\ UNCHANGED gwVars => GwTypes'
         /\ UNCHANGED deinit => deinit' \in {"no", "cancelling", "done"}
<1>1. UNCHANGED callVars => CallTypes'
  BY DEF Types, CallTypes, callVars
<1>2. UNCHANGED <<sendQueue, future, answer>> => FutureTypes'
  BY DEF Types, FutureTypes
<1>3. UNCHANGED timerVars => SlotTypes'
  BY DEF Types, SlotTypes, timerVars
<1>4. UNCHANGED senderVars => PlaceTypes' /\ BatchTypes'
  BY DEF Types, PlaceTypes, BatchTypes, senderVars
<1>5. UNCHANGED linkVars => LinkTypes'
  BY DEF Types, LinkTypes, linkVars
<1>6. UNCHANGED idVars => IdTypes'
  BY DEF Types, IdTypes, idVars
<1>7. UNCHANGED gwVars => GwTypes'
  BY DEF Types, GwTypes, gwVars
<1>8. UNCHANGED deinit => deinit' \in {"no", "cancelling", "done"}
  BY DEF Types
<1> QED BY <1>1, <1>2, <1>3, <1>4, <1>5, <1>6, <1>7, <1>8

\* The gateway queue has a first slot.
LEMMA QueueSizeType == QueueSize \in Nat /\ QueueSize > 0 /\ Slot = 0 .. QueueSize - 1
  BY DriverAssumption DEF Slot

\* The driver starts with an empty batch at slot 0.
LEMMA InitTypes == Init => Types /\ IndexInv
<1> SUFFICES ASSUME Init PROVE Types /\ IndexInv
  OBVIOUS
<1>1. QueueSize \in Nat /\ QueueSize > 0 /\ 0 \in Slot
  BY QueueSizeType
<1>2. CallTypes /\ FutureTypes
  BY DEF Init, CallTypes, FutureTypes, FutureStates
<1>3. SlotTypes
  BY NoWaiterType DEF Init, SlotTypes
<1>4. PlaceTypes /\ BatchTypes
  <2>1. PlaceTypes
    BY DEF Init, PlaceTypes
  <2>2. BatchTypes
    BY <1>1 DEF Init, BatchTypes
  <2> QED BY <2>1, <2>2
<1>5. LinkTypes /\ IdTypes
  BY DEF Init, LinkTypes, IdTypes
<1>6. GwTypes
  BY <1>1 DEF Init, GwTypes, UnknownPtr
<1>7. IndexInv
  BY <1>1 DEF Init, IndexInv, InSend
<1> QED BY <1>2, <1>3, <1>4, <1>5, <1>6, <1>7 DEF Types, Init

\* The steps of the callers keep the types.
LEMMA CallerTypes ==
  ASSUME Types, CallInv, NEW k \in Call, Caller(k) \/ CancelCall(k)
  PROVE  Types'
<1>t. TypeOK
  BY TypeParts
<1>c. CallTypes'
  <2> USE DEF Types, CallTypes
  <2>1. CASE CallUnavailable(k)
    BY <2>1 DEF CallUnavailable
  <2>2. CASE CallStart(k)
    BY <2>2 DEF CallStart
  <2>3. CASE AcquireLock(k) \/ SequenceBlocks(k)
    BY <2>3 DEF AcquireLock, SequenceBlocks
  <2>4. CASE SequenceRefused(k)
    <3>1. CASE LastCmd(k)
      BY <2>4, <3>1 DEF SequenceRefused
    <3>2. CASE ~LastCmd(k)
      BY <2>4, <3>2 DEF SequenceRefused
    <3> QED BY <3>1, <3>2
  <2>5. CASE Put(k)
    <3>1. callPc' \in [Call -> {"idle", "lock", "put", "blocked", "gather", "done", "cancelled"}]
      BY <2>5 DEF Put
    <3>2. callPos' \in [Call -> Nat \ {0}]
      BY <2>5 DEF Put
    <3>3. lock' \in Call \cup {NoCall}
      BY <2>5 DEF Put
    <3> QED BY <3>1, <3>2, <3>3
  <2>6. CASE Gathered(k)
    <3>1. CASE k \in SequenceCall /\ ~LastCmd(k)
      BY <2>6, <3>1 DEF Gathered
    <3>2. CASE ~(k \in SequenceCall /\ ~LastCmd(k))
      BY <2>6, <3>2 DEF Gathered
    <3> QED BY <3>1, <3>2
  <2>7. CASE CancelCall(k)
    BY <2>7 DEF CancelCall
  <2> QED BY <2>1, <2>2, <2>3, <2>4, <2>5, <2>6, <2>7 DEF Caller
<1>f. FutureTypes' /\ IdTypes'
  <2>1. CASE CallUnavailable(k)
    <3>1. IsFiniteSet(Rng(CmdsOf[k]))
      BY RngFinite, DriverAssumption
    <3>2. future' \in [Cmd -> FutureStates] /\ itemIndex' \in Nat /\ notified' \subseteq Nat
      BY <2>1, <3>1, <1>t, RefuseType DEF CallUnavailable
    <3> QED BY <2>1, <3>2 DEF CallUnavailable, Types, FutureTypes, IdTypes
  <2>2. CASE SequenceRefused(k)
    <3>1. IsFiniteSet({CurrentCmd(k)})
      BY FS_Singleton
    <3>2. future' \in [Cmd -> FutureStates] /\ itemIndex' \in Nat /\ notified' \subseteq Nat
      BY <2>2, <3>1, <1>t, RefuseType DEF SequenceRefused
    <3> QED BY <2>2, <3>2 DEF SequenceRefused, Types, FutureTypes, IdTypes
  <2>3. CASE Put(k)
    <3>1. CurrentCmd(k) \in Cmd
      BY CurrentCmdType
    <3>2. sendQueue' \in Seq(Cmd)
      BY <2>3, <3>1, RngAppend DEF Put, Types, FutureTypes
    <3>3. future' \in [Cmd -> FutureStates]
      BY <2>3, <3>1 DEF Put, Types, FutureTypes, FutureStates
    <3> QED BY <2>3, <3>2, <3>3 DEF Put, Types, FutureTypes, IdTypes, idVars
  <2>4. CASE CancelCall(k)
    <3>1. future' \in [Cmd -> FutureStates]
      BY <2>4, <1>t, ResolveType DEF CancelCall, FutureStates, Types, FutureTypes
    <3> QED BY <2>4, <3>1 DEF CancelCall, Types, FutureTypes, IdTypes, idVars
  <2>5. CASE CallStart(k) \/ AcquireLock(k) \/ SequenceBlocks(k) \/ Gathered(k)
    BY <2>5, Unchanged DEF CallStart, AcquireLock, SequenceBlocks, Gathered
  <2> QED BY <2>1, <2>2, <2>3, <2>4, <2>5 DEF Caller
<1>r. /\ UNCHANGED timerVars /\ UNCHANGED senderVars /\ UNCHANGED linkVars
      /\ UNCHANGED gwVars /\ UNCHANGED deinit
  BY DEF Caller, CallUnavailable, CallStart, AcquireLock, SequenceRefused, SequenceBlocks, Put, Gathered,
         CancelCall
<1> QED
  BY <1>c, <1>f, <1>r, Unchanged DEF Types

\* After a flush the sender stands inside the ring of slots, batch empty.
LEMMA FinishTypes ==
  ASSUME Types, Finish
  PROVE  /\ PlaceTypes' /\ BatchTypes'
         /\ pc' \in {"top", "slot"} /\ site' = site
         /\ batch' = <<>> /\ nextIndex' = batchStart' /\ nextIndex' \in 0 .. QueueSize - 1
<1>1. QueueSize \in Nat /\ QueueSize > 0 /\ Slot = 0 .. QueueSize - 1
  BY QueueSizeType
<1>2. pc' \in {"top", "slot"} /\ site' = site /\ slotCmd' = slotCmd /\ batch' = <<>>
  BY DEF Finish
<1>3. batchTimer' \in BOOLEAN
  BY DEF Finish
<1>4. nextIndex' = batchStart' /\ nextIndex' \in 0 .. QueueSize - 1
  BY <1>1 DEF Finish, Types, BatchTypes
<1>5. PlaceTypes'
  BY <1>2, <1>3 DEF Types, PlaceTypes
<1>6. BatchTypes'
  BY <1>1, <1>2, <1>4 DEF BatchTypes
<1> QED BY <1>1, <1>2, <1>4, <1>5, <1>6

\* A flush leaves an empty batch at the slot that is taken next.
LEMMA FinishIndex ==
  ASSUME Types, Finish
  PROVE  IndexInv'
<1>1. /\ pc' \in {"top", "slot"} /\ batch' = <<>> /\ nextIndex' = batchStart'
      /\ nextIndex' \in 0 .. QueueSize - 1
  BY FinishTypes
<1>2. nextIndex' \in Int /\ nextIndex' < QueueSize
  BY <1>1, QueueSizeType
<1>3. nextIndex' - batchStart' = 0
  BY <1>1, <1>2, SelfMinus, Zenon
<1>4. Len(batch') = 0
  BY <1>1
<1> QED BY <1>1, <1>2, <1>3, <1>4 DEF IndexInv, InSend

\* The steps of the queue sender keep the types and the place of the batch.
LEMMA SenderTypes ==
  ASSUME Types, IndexInv, Sender
  PROVE  Types' /\ IndexInv'
<1>t. TypeOK
  BY TypeParts
<1>q. QueueSize \in Nat /\ QueueSize > 0 /\ Slot = 0 .. QueueSize - 1
  BY QueueSizeType
<1>b. /\ batch \in Seq(Cmd) /\ Len(batch) \in Nat
      /\ batchStart \in Slot /\ nextIndex \in 0 .. QueueSize
  BY DEF Types, BatchTypes
<1>1. CASE SenderTop
  <2>1. nextIndex \in Slot /\ Len(batch) = nextIndex - batchStart /\ nextIndex < QueueSize
    BY <1>1, <1>q, <1>b DEF SenderTop, IndexInv, InSend
  <2>2. slotCmd' \in Cmd \cup {NoCmd}
    BY <1>1, <2>1 DEF SenderTop, Waiters, Types, PlaceTypes, SlotTypes
  <2>3. pc' \in {"slot", "cooldown", "get"} /\ site' \in {"slot", site}
    BY <1>1 DEF SenderTop
  <2>4. PlaceTypes'
    BY <1>1, <2>2, <2>3 DEF SenderTop, Types, PlaceTypes
  <2>5. BatchTypes'
    BY <1>1, <1>b, <2>1 DEF SenderTop, BatchTypes
  <2>6. IndexInv'
    <3>1. CASE Pending(waiting[nextIndex].cmd) /\ batch = <<>>
      BY <1>1, <3>1, <1>q, <1>b, <2>1 DEF SenderTop, IndexInv, InSend
    <3>2. CASE ~(Pending(waiting[nextIndex].cmd) /\ batch = <<>>)
      BY <1>1, <3>2, <2>1 DEF SenderTop, IndexInv, InSend
    <3> QED BY <3>1, <3>2
  <2> QED BY <1>1, <2>4, <2>5, <2>6, Unchanged DEF SenderTop, Types
<1>2. CASE SenderGet
  <2>1. /\ sendQueue' \in Seq(Cmd) /\ Head(sendQueue) \in Cmd
    BY <1>2, RngTail DEF SenderGet, Types, FutureTypes
  <2>2. /\ Append(batch, Head(sendQueue)) \in Seq(Cmd)
        /\ Len(Append(batch, Head(sendQueue))) = Len(batch) + 1
    BY <2>1, <1>b
  <2>3. nextIndex < QueueSize /\ Len(batch) = nextIndex - batchStart
    BY <1>2 DEF SenderGet, IndexInv, InSend
  <2>4. /\ pc' \in {"top", "cooldown"} /\ site' \in {"end", site}
        /\ slotCmd' = slotCmd /\ batchTimer' = TRUE /\ batchStart' = batchStart
    BY <1>2 DEF SenderGet
  <2>5. \/ /\ pc' = "top" /\ batch' = batch /\ nextIndex' = nextIndex
        \/ /\ batch' = Append(batch, Head(sendQueue)) /\ nextIndex' = nextIndex + 1
           /\ nextIndex + 1 = QueueSize => pc' = "cooldown" /\ site' = "end"
           /\ nextIndex + 1 # QueueSize => pc' = "top"
    BY <1>2 DEF SenderGet
  <2>6. PlaceTypes'
    BY <2>4 DEF Types, PlaceTypes
  <2>7. BatchTypes'
    <3>1. nextIndex' \in 0 .. QueueSize
      BY <1>q, <1>b, <2>3, <2>5
    <3>2. batch' \in Seq(Cmd)
      BY <1>b, <2>2, <2>5
    <3> QED BY <1>b, <2>4, <3>1, <3>2 DEF BatchTypes
  <2>8. Len(batch') = nextIndex' - batchStart'
    BY <1>q, <1>b, <2>2, <2>3, <2>4, <2>5
  <2>9. IndexInv'
    BY <1>q, <1>b, <2>3, <2>4, <2>5, <2>8 DEF IndexInv, InSend
  <2>10. FutureTypes'
    BY <1>2, <2>1 DEF SenderGet, Types, FutureTypes
  <2> QED BY <1>2, <2>6, <2>7, <2>9, <2>10, Unchanged DEF SenderGet, Types
<1>3. CASE SenderGetTimeout
  <2>1. nextIndex < QueueSize /\ Len(batch) = nextIndex - batchStart
    BY <1>3 DEF SenderGetTimeout, IndexInv, InSend
  <2>2. PlaceTypes'
    BY <1>3 DEF SenderGetTimeout, Types, PlaceTypes
  <2>3. BatchTypes'
    <3>1. batchStart' \in {batchStart, nextIndex} /\ UNCHANGED <<batch, nextIndex>>
      BY <1>3 DEF SenderGetTimeout
    <3>2. nextIndex \in Slot
      BY <1>q, <1>b, <2>1
    <3> QED BY <1>b, <3>1, <3>2 DEF BatchTypes
  <2>4. IndexInv'
    <3>1. CASE batch = <<>>
      BY <1>3, <3>1, <1>q, <1>b, <2>1 DEF SenderGetTimeout, IndexInv, InSend
    <3>2. CASE batch # <<>>
      BY <1>3, <3>2, <2>1 DEF SenderGetTimeout, IndexInv, InSend
    <3> QED BY <3>1, <3>2
  <2> QED BY <1>3, <2>2, <2>3, <2>4, Unchanged DEF SenderGetTimeout, Types
<1>4. CASE SendUnavailable
  <2>1. FailBatch(~synced) /\ (~synced) \in BOOLEAN /\ Finish
    BY <1>4 DEF SendUnavailable
  <2>2. /\ waiting' \in [Slot -> Waiters] /\ orphans' \in [Slot -> Nat]
        /\ future' \in [Cmd -> FutureStates]
        /\ itemIndex' \in Nat /\ notified' \subseteq Nat
    BY <2>1, <1>t, FailBatchType
  <2>3. FutureTypes' /\ SlotTypes' /\ IdTypes'
    BY <1>4, <2>2 DEF SendUnavailable, Types, FutureTypes, SlotTypes, IdTypes
  <2>4. LinkTypes'
    BY <1>4 DEF SendUnavailable, Types, LinkTypes
  <2> QED BY <1>4, <2>1, <2>3, <2>4, FinishTypes, FinishIndex, Unchanged DEF SendUnavailable, Types
<1>5. CASE SendReset
  <2>1. UNCHANGED <<timerVars, future, idVars>> \/ DrainPending
    BY <1>5 DEF SendReset
  <2>2. /\ waiting' \in [Slot -> Waiters] /\ orphans' \in [Slot -> Nat]
        /\ future' \in [Cmd -> FutureStates]
        /\ itemIndex' \in Nat /\ notified' \subseteq Nat
    BY <2>1, <1>t, DrainPendingType
       DEF Types, SlotTypes, FutureTypes, IdTypes, timerVars, idVars
  <2>3. FutureTypes' /\ SlotTypes' /\ IdTypes'
    BY <1>5, <2>2 DEF SendReset, Types, FutureTypes, SlotTypes, IdTypes
  <2>4. LinkTypes' /\ PlaceTypes' /\ BatchTypes'
    BY <1>5 DEF SendReset, Types, LinkTypes, PlaceTypes, BatchTypes
  <2>5. GwTypes'
    BY <1>5, <1>q DEF SendReset, Types, GwTypes
  <2>6. IndexInv'
    BY <1>5 DEF SendReset, IndexInv, InSend
  <2> QED BY <1>5, <2>3, <2>4, <2>5, <2>6, Unchanged DEF SendReset, Types
<1>6. CASE SendWrite
  <2>1. batchStart + Len(batch) <= QueueSize
    BY <1>6, <1>q, <1>b DEF SendWrite, IndexInv
  <2>2. waiting' \in [Slot -> Waiters] /\ orphans' \in [Slot -> Nat] /\ itemIndex' \in Nat
    BY <1>6, <1>b, <2>1, <1>t, RegisterType DEF SendWrite
  <2>3. FutureTypes' /\ SlotTypes' /\ IdTypes'
    BY <1>6, <2>2 DEF SendWrite, Register, Types, FutureTypes, SlotTypes, IdTypes
  <2>4. PlaceTypes' /\ BatchTypes'
    BY <1>6 DEF SendWrite, Types, PlaceTypes, BatchTypes
  <2>5. IndexInv'
    BY <1>6 DEF SendWrite, IndexInv, InSend
  <2> QED BY <1>6, <2>3, <2>4, <2>5, Unchanged DEF SendWrite, Types
<1>7. CASE ResetPublished
  <2>1. /\ 0 \in Slot /\ 0 + Len(batch) <= QueueSize /\ Len(batch) <= nextIndex
        /\ Len(batch) \in 0 .. QueueSize
    BY <1>7, <1>q, <1>b DEF ResetPublished, IndexInv
  <2>2. waiting' \in [Slot -> Waiters] /\ orphans' \in [Slot -> Nat] /\ itemIndex' \in Nat
    BY <1>7, <1>t, <2>1, RegisterType DEF ResetPublished
  <2>3. FutureTypes' /\ SlotTypes' /\ IdTypes'
    BY <1>7, <2>2 DEF ResetPublished, Register, Types, FutureTypes, SlotTypes, IdTypes
  <2>4. PlaceTypes' /\ LinkTypes'
    BY <1>7 DEF ResetPublished, Types, PlaceTypes, LinkTypes
  <2>5. BatchTypes'
    BY <1>7, <1>b, <2>1 DEF ResetPublished, BatchTypes
  <2>6. GwTypes'
    BY <1>7 DEF ResetPublished, Types, GwTypes
  <2>7. IndexInv'
    <3>1. Len(batch') = nextIndex' - batchStart'
      BY <1>7, <1>b DEF ResetPublished
    <3>2. nextIndex' <= nextIndex /\ site' = site /\ pc' \in {"writing", "refused"}
      BY <1>7, <2>1 DEF ResetPublished
    <3>3. ~(site = "end") => nextIndex' < QueueSize
      BY <1>7, <1>q, <1>b, <2>1 DEF ResetPublished, IndexInv, InSend
    <3> QED BY <3>1, <3>2, <3>3 DEF IndexInv, InSend
  <2> QED BY <1>7, <2>3, <2>4, <2>5, <2>6, <2>7, Unchanged DEF ResetPublished, Types
<1>8. CASE WritePublished
  <2> DEFINE sent == [i \in 1 .. Len(batch) |-> [slot |-> batchStart + i - 1, cmd |-> batch[i]]]
  <2>1. Len(batch) = nextIndex - batchStart /\ Finish
    BY <1>8 DEF WritePublished, IndexInv
  <2>2. ASSUME NEW i \in 1 .. Len(batch)
        PROVE  batchStart + i - 1 \in Slot /\ batch[i] \in Cmd
    BY <2>1, <1>q, <1>b
  <2>3. sent \in Seq([slot : Slot, cmd : Cmd])
    BY <2>2, <1>b
  <2>4. rpc' \in Seq([slot : Slot, cmd : Cmd])
    BY <1>8, <2>3 DEF WritePublished, Types, GwTypes
  <2>5. gwPtr' \in 0 .. QueueSize
    <3>1. (batchStart + Len(batch)) % QueueSize \in 0 .. QueueSize - 1
      BY <1>q, <1>b
    <3> QED BY <1>8, <3>1, <1>q DEF WritePublished, Types, GwTypes
  <2>6. GwTypes'
    BY <2>4, <2>5 DEF GwTypes
  <2> QED BY <1>8, <2>1, <2>6, FinishTypes, FinishIndex, Unchanged DEF WritePublished, Types
<1>9. CASE PublishFailed
  <2>1. FailBatch(TRUE) /\ Finish
    BY <1>9 DEF PublishFailed
  <2>2. /\ waiting' \in [Slot -> Waiters] /\ orphans' \in [Slot -> Nat]
        /\ future' \in [Cmd -> FutureStates]
        /\ itemIndex' \in Nat /\ notified' \subseteq Nat
    BY <2>1, <1>t, FailBatchType
  <2>3. FutureTypes' /\ SlotTypes' /\ IdTypes'
    BY <1>9, <2>2 DEF PublishFailed, Types, FutureTypes, SlotTypes, IdTypes
  <2>4. GwTypes'
    BY <1>9, <1>q DEF PublishFailed, Types, GwTypes, UnknownPtr
  <2> QED BY <1>9, <2>1, <2>3, <2>4, FinishTypes, FinishIndex, Unchanged DEF PublishFailed, Types
<1>10. CASE SlotFree
  <2>1. PlaceTypes' /\ BatchTypes'
    BY <1>10 DEF SlotFree, Types, PlaceTypes, BatchTypes
  <2>2. IndexInv'
    BY <1>10 DEF SlotFree, IndexInv, InSend
  <2> QED BY <1>10, <2>1, <2>2, Unchanged DEF SlotFree, Types
<1> QED
  BY <1>1, <1>2, <1>3, <1>4, <1>5, <1>6, <1>7, <1>8, <1>9, <1>10 DEF Sender

\* timeout_callback keeps the types.
LEMMA TimeoutCallbackTypes ==
  ASSUME Types, NEW s \in Slot, TimeoutCallback(s)
  PROVE  future' \in [Cmd -> FutureStates] /\ notified' \subseteq Nat
<1>1. waiting[s].cmd \in Cmd \cup {NoCmd} /\ waiting[s].id \in Nat
  BY DEF Types, SlotTypes, Waiters
<1>2. CASE Pending(waiting[s].cmd)
  BY <1>1, <1>2 DEF TimeoutCallback, Pending, Types, FutureTypes, IdTypes, FutureStates, Responses
<1>3. CASE ~Pending(waiting[s].cmd)
  BY <1>3 DEF TimeoutCallback, Types, FutureTypes, IdTypes
<1> QED BY <1>2, <1>3

\* Timers keep the types.
LEMMA TimerTypes ==
  ASSUME Types, NEW s \in Slot, Timeout(s) \/ OrphanTimeout(s)
  PROVE  Types'
<1>1. TimeoutCallback(s)
  BY DEF Timeout, OrphanTimeout
<1>2. FutureTypes' /\ IdTypes'
  BY <1>1, TimeoutCallbackTypes DEF Timeout, OrphanTimeout, Types, FutureTypes, IdTypes
<1>3. SlotTypes'
  <2>1. CASE Timeout(s)
    BY <2>1, DisarmType DEF Timeout, Types, SlotTypes
  <2>2. CASE OrphanTimeout(s)
    BY <2>2 DEF OrphanTimeout, Types, SlotTypes
  <2> QED BY <2>1, <2>2
<1> QED BY <1>2, <1>3, Unchanged DEF Timeout, OrphanTimeout, Types

\* Replies, reports and the broker link keep the types.
LEMMA EnvironmentTypes ==
  ASSUME Types, Environment
  PROVE  Types'
<1>t. TypeOK
  BY TypeParts
<1>1. CASE Reply
  <2> DEFINE s == Head(rpc).slot
             w == waiting[s]
  <2>1. rpc' \in Seq([slot : Slot, cmd : Cmd]) /\ Head(rpc) \in [slot : Slot, cmd : Cmd]
    BY <1>1, RngTail DEF Reply, Types, GwTypes
  <2>2. s \in Slot /\ Head(rpc).cmd \in Cmd
    BY <2>1
  <2>3. w \in Waiters
    BY <2>2 DEF Types, SlotTypes
  <2>4. SlotTypes'
    BY <1>1, <2>2, DisarmType DEF Reply, Types, SlotTypes
  <2>5. FutureTypes' /\ IdTypes'
    <3>1. CASE Pending(w.cmd)
      <4>1. w.cmd \in Cmd /\ w.id \in Nat
        BY <2>3, <3>1 DEF Waiters, Pending
      <4>2. /\ future' = [future EXCEPT ![w.cmd] = "answered"]
            /\ answer' = [answer EXCEPT ![w.cmd] = Head(rpc).cmd]
            /\ notified' = notified \cup {w.id}
            /\ UNCHANGED <<itemIndex, sendQueue>>
        BY <1>1, <3>1 DEF Reply
      <4> HIDE DEF w
      <4> QED BY <4>1, <4>2, <2>2 DEF Types, FutureTypes, IdTypes, FutureStates, Responses
    <3>2. CASE ~Pending(w.cmd)
      BY <1>1, <3>2 DEF Reply, Types, FutureTypes, IdTypes
    <3> QED BY <3>1, <3>2
  <2>6. GwTypes'
    BY <1>1, <2>1 DEF Reply, Types, GwTypes
  <2> QED BY <1>1, <2>4, <2>5, <2>6, Unchanged DEF Reply, Types
<1>2. CASE ReplyLost
  <2>1. rpc' \in Seq([slot : Slot, cmd : Cmd])
    BY <1>2, RngTail DEF ReplyLost, Types, GwTypes
  <2>2. GwTypes'
    BY <1>2, <2>1 DEF ReplyLost, Types, GwTypes
  <2> QED BY <1>2, <2>2, Unchanged DEF ReplyLost, Types
<1>3. CASE ReportUnreachable
  <2>1. /\ waiting' \in [Slot -> Waiters] /\ orphans' \in [Slot -> Nat]
        /\ future' \in [Cmd -> FutureStates]
        /\ itemIndex' \in Nat /\ notified' \subseteq Nat
    BY <1>3, <1>t, DrainPendingType DEF ReportUnreachable
  <2>2. FutureTypes' /\ SlotTypes' /\ IdTypes'
    BY <1>3, <2>1 DEF ReportUnreachable, Types, FutureTypes, SlotTypes, IdTypes
  <2>3. GwTypes'
    BY <1>3 DEF ReportUnreachable, Types, GwTypes
  <2>4. LinkTypes'
    BY <1>3 DEF ReportUnreachable, Types, LinkTypes
  <2> QED BY <1>3, <2>2, <2>3, <2>4, Unchanged DEF ReportUnreachable, Types
<1>4. CASE ReportReachable
  <2>1. GwTypes'
    BY <1>4, QueueSizeType DEF ReportReachable, Types, GwTypes, UnknownPtr
  <2>2. LinkTypes'
    BY <1>4 DEF ReportReachable, Types, LinkTypes
  <2> QED BY <1>4, <2>1, <2>2, Unchanged DEF ReportReachable, Types
<1>5. CASE ConnectionLost
  <2>1. LinkTypes'
    BY <1>5 DEF ConnectionLost, Types, LinkTypes
  <2> QED BY <1>5, <2>1, Unchanged DEF ConnectionLost, Types
<1>6. CASE ConnectionRestored
  <2>1. LinkTypes'
    BY <1>6 DEF ConnectionRestored, Types, LinkTypes
  <2> QED BY <1>6, <2>1, Unchanged DEF ConnectionRestored, Types
<1> QED BY <1>1, <1>2, <1>3, <1>4, <1>5, <1>6 DEF Environment

\* deinitialize keeps the types and the place of the batch.
LEMMA DeinitTypes ==
  ASSUME Types, IndexInv, Deinitialize \/ Deinitialized
  PROVE  Types' /\ IndexInv'
<1>t. TypeOK
  BY TypeParts
<1>q. QueueSize \in Nat /\ QueueSize > 0 /\ Slot = 0 .. QueueSize - 1
  BY QueueSizeType
<1>b. /\ batch \in Seq(Cmd) /\ Len(batch) \in Nat
      /\ batchStart \in Slot /\ nextIndex \in 0 .. QueueSize
  BY DEF Types, BatchTypes
<1>1. CASE Deinitialize
  <2>1. CASE CancelAtGet
    <3>1. PlaceTypes' /\ BatchTypes' /\ IndexInv'
      BY <2>1 DEF CancelAtGet, Types, PlaceTypes, BatchTypes, IndexInv, InSend
    <3>2. FutureTypes'
      BY <1>1, <2>1 DEF Deinitialize, CancelAtGet, Types, FutureTypes
    <3> QED BY <1>1, <3>1, <3>2, Unchanged DEF Deinitialize, Types
  <2>2. CASE CancelInSend
    <3>1. /\ nextIndex' = batchStart' /\ nextIndex' \in 0 .. QueueSize - 1
          /\ batch' = <<>> /\ pc' \in {"top", "stopped"}
      BY <2>2, <1>q, <1>b DEF CancelInSend
    <3>2. PlaceTypes'
      BY <2>2 DEF CancelInSend, Types, PlaceTypes
    <3>3. BatchTypes'
      BY <1>q, <3>1 DEF BatchTypes
    <3>4. nextIndex' \in Int /\ nextIndex' < QueueSize
      BY <1>q, <3>1
    <3>5. IndexInv'
      <4>1. nextIndex' - batchStart' = 0
        BY <3>1, <3>4, SelfMinus, Zenon
      <4> QED BY <3>1, <3>4, <4>1 DEF IndexInv, InSend
    <3>6. FutureTypes'
      BY <1>1, <2>2 DEF Deinitialize, CancelInSend, Types, FutureTypes
    <3> QED BY <1>1, <3>2, <3>3, <3>5, <3>6, Unchanged DEF Deinitialize, Types
  <2>3. CASE CancelAtSlot
    <3>1. PlaceTypes' /\ BatchTypes' /\ IndexInv'
      BY <2>3 DEF CancelAtSlot, Types, PlaceTypes, BatchTypes, IndexInv, InSend
    <3>2. FutureTypes'
      BY <1>1, <2>3 DEF Deinitialize, CancelAtSlot, Types, FutureTypes, FutureStates
    <3> QED BY <1>1, <3>1, <3>2, Unchanged DEF Deinitialize, Types
  <2> QED BY <1>1, <2>1, <2>2, <2>3 DEF Deinitialize
<1>2. CASE Deinitialized
  <2>1. FutureTypes'
    BY <1>2, <1>t, ResolveType DEF Deinitialized, Types, FutureTypes, FutureStates, Responses
  <2>2. SlotTypes'
    BY <1>2, NoWaiterType DEF Deinitialized, DrainTimers, Types, SlotTypes
  <2>3. IndexInv'
    BY <1>2 DEF Deinitialized, senderVars, IndexInv, InSend
  <2> QED BY <1>2, <2>1, <2>2, <2>3, Unchanged DEF Deinitialized, Types
<1> QED BY <1>1, <1>2

\* What is under way when the sender keeps its place keeps its place too.
LEMMA IndexUnchanged ==
  ASSUME IndexInv, UNCHANGED senderVars
  PROVE  IndexInv'
  BY DEF IndexInv, InSend, senderVars

\* Every step keeps the types and the place of the batch.
LEMMA TypesStep ==
  ASSUME Types, IndexInv, CallInv, [Next]_vars
  PROVE  Types' /\ IndexInv'
<1>1. CASE UNCHANGED vars
  <2>1. /\ UNCHANGED callVars /\ UNCHANGED <<sendQueue, future, answer>>
        /\ UNCHANGED timerVars /\ UNCHANGED senderVars /\ UNCHANGED linkVars
        /\ UNCHANGED idVars /\ UNCHANGED gwVars /\ UNCHANGED deinit
    BY <1>1 DEF vars
  <2> QED BY <2>1, Unchanged, IndexUnchanged DEF Types
<1>2. ASSUME NEW k \in Call, Caller(k) \/ CancelCall(k) PROVE Types' /\ IndexInv'
  <2>1. UNCHANGED senderVars
    BY <1>2 DEF Caller, CallUnavailable, CallStart, AcquireLock, SequenceRefused, SequenceBlocks, Put,
                Gathered, CancelCall
  <2> QED BY <1>2, <2>1, CallerTypes, IndexUnchanged
<1>3. CASE Sender
  BY <1>3, SenderTypes
<1>4. ASSUME NEW s \in Slot, Timeout(s) \/ OrphanTimeout(s) PROVE Types' /\ IndexInv'
  <2>1. UNCHANGED senderVars
    BY <1>4 DEF Timeout, OrphanTimeout
  <2> QED BY <1>4, <2>1, TimerTypes, IndexUnchanged
<1>5. CASE Environment
  <2>1. UNCHANGED senderVars
    BY <1>5 DEF Environment, Reply, ReplyLost, ReportUnreachable, ReportReachable,
                ConnectionLost, ConnectionRestored
  <2> QED BY <1>5, <2>1, EnvironmentTypes, IndexUnchanged
<1>6. CASE Deinitialize \/ Deinitialized
  BY <1>6, DeinitTypes
<1> QED
  BY <1>1, <1>2, <1>3, <1>4, <1>5, <1>6 DEF Next
-----------------------------------------------------------------------------
(* Futures change once, and only the call of a command touches a new one *)

\* No future goes back: only a pending one changes, and to a resolved state.
OnlyResolves ==
    \A c \in Cmd : \/ future'[c] = future[c]
                   \/ future[c] = "pending" /\ future'[c] \in Responses \cup {"cancelled"}

\* The steps of the sender only resolve futures.
LEMMA SenderResolves ==
  ASSUME Types, Sender
  PROVE  OnlyResolves
<1>1. CASE SendUnavailable
  <2>1. PICK S : /\ future' = Resolve(S, "unavailable")
                 /\ \A c \in S : future[c] = "pending"
    BY <1>1 DEF SendUnavailable, FailBatch, PendingWaiters, PendingSlots, Pending
  <2> QED BY <2>1 DEF OnlyResolves, Resolve, Responses
<1>2. CASE SendReset
  BY <1>2 DEF SendReset, DrainPending, PendingWaiters, PendingSlots, Pending, OnlyResolves,
              Resolve, Responses, Types, FutureTypes
<1>3. CASE PublishFailed
  <2>1. PICK S : /\ future' = Resolve(S, "unavailable")
                 /\ \A c \in S : future[c] = "pending"
    BY <1>3 DEF PublishFailed, FailBatch, PendingWaiters, PendingSlots, Pending
  <2> QED BY <2>1 DEF OnlyResolves, Resolve, Responses
<1>4. CASE ~(SendUnavailable \/ SendReset \/ PublishFailed)
  <2>1. UNCHANGED future
    BY <1>4 DEF Sender, SenderTop, SenderGet, SenderGetTimeout, SendWrite, Register,
                ResetPublished, WritePublished, SlotFree
  <2> QED BY <2>1 DEF OnlyResolves
<1> QED BY <1>1, <1>2, <1>3, <1>4

\* So do timers, replies, reports, the link and deinitialize.
LEMMA OthersResolve ==
  ASSUME Types,
         \/ \E s \in Slot : Timeout(s) \/ OrphanTimeout(s)
         \/ Environment \/ Deinitialize \/ Deinitialized
  PROVE  OnlyResolves
<1>1. ASSUME NEW s \in Slot, Timeout(s) \/ OrphanTimeout(s) PROVE OnlyResolves
  BY <1>1 DEF Timeout, OrphanTimeout, TimeoutCallback, Pending, OnlyResolves, Responses, Types,
              FutureTypes
<1>2. CASE Environment
  <2>1. CASE Reply
    BY <2>1 DEF Reply, Pending, OnlyResolves, Responses, Types, FutureTypes
  <2>2. CASE ReportUnreachable
    BY <2>2 DEF ReportUnreachable, DrainPending, PendingWaiters, PendingSlots, Pending,
                OnlyResolves, Resolve, Responses, Types, FutureTypes
  <2>3. CASE ReplyLost \/ ReportReachable \/ ConnectionLost \/ ConnectionRestored
    BY <2>3 DEF ReplyLost, ReportReachable, ConnectionLost, ConnectionRestored, OnlyResolves
  <2> QED BY <1>2, <2>1, <2>2, <2>3 DEF Environment
<1>3. CASE Deinitialize
  BY <1>3 DEF Deinitialize, CancelAtGet, CancelInSend, CancelAtSlot, Pending, OnlyResolves,
              Responses, Types, FutureTypes
<1>4. CASE Deinitialized
  BY <1>4 DEF Deinitialized, PendingWaiters, PendingSlots, Pending, OnlyResolves, Resolve,
              Responses, Types, FutureTypes
<1> QED BY <1>1, <1>2, <1>3, <1>4

\* Two calls, or two positions of one call, hold different commands.
LEMMA Distinct ==
  ASSUME NEW k \in Call, NEW m \in Call,
         NEW i \in 1 .. Len(CmdsOf[k]), NEW j \in 1 .. Len(CmdsOf[m]),
         CmdsOf[k][i] = CmdsOf[m][j]
  PROVE  k = m /\ i = j
<1>1. k = m
  <2>1. SUFFICES ASSUME k # m PROVE FALSE
    OBVIOUS
  <2>2. CmdsOf[k][i] \in Rng(CmdsOf[k]) /\ CmdsOf[k][i] \in Rng(CmdsOf[m])
    BY DEF Rng
  <2> QED BY <2>1, <2>2, DistinctCommands
<1> QED BY <1>1, DistinctCommands

\* The commands of a call are commands.
LEMMA CmdsType ==
  ASSUME NEW k \in Call
  PROVE  Len(CmdsOf[k]) \in Nat /\ \A i \in 1 .. Len(CmdsOf[k]) : CmdsOf[k][i] \in Cmd
<1>1. CmdsOf[k] \in Seq(Cmd)
  BY DriverAssumption
<1> QED BY <1>1

\* A step that leaves the calls alone keeps their commands untouched.
LEMMA CallInvUnchanged ==
  ASSUME CallInv, UNCHANGED callVars, OnlyResolves
  PROVE  CallInv'
<1> SUFFICES ASSUME NEW k \in Call PROVE Untouched(k)'
  BY DEF CallInv
<1>1. callPc' = callPc /\ callPos' = callPos
  BY DEF callVars
<1>2. callPos[k] \in 1 .. Len(CmdsOf[k])
  BY DEF CallInv, Untouched
<1>3. ASSUME NEW i \in callPos[k] .. Len(CmdsOf[k]), future[CmdsOf[k][i]] = "new"
      PROVE  future'[CmdsOf[k][i]] = "new"
  <2>1. CmdsOf[k][i] \in Cmd
    BY <1>2, CmdsType
  <2> QED BY <1>3, <2>1 DEF OnlyResolves
<1>4. \A i \in callPos[k] + 1 .. Len(CmdsOf[k]) : i \in callPos[k] .. Len(CmdsOf[k])
  BY <1>2, CmdsType
<1> QED BY <1>1, <1>2, <1>3, <1>4 DEF CallInv, Untouched

\* A call that touches its own commands only leaves the others' untouched.
LEMMA OtherCalls ==
  ASSUME CallInv, NEW k \in Call, Untouched(k)',
         \A m \in Call : m # k => callPc'[m] = callPc[m] /\ callPos'[m] = callPos[m],
         \A c \in Cmd : c \notin Rng(CmdsOf[k]) => future'[c] = future[c]
  PROVE  CallInv'
<1> SUFFICES ASSUME NEW m \in Call, m # k PROVE Untouched(m)'
  BY DEF CallInv
<1>1. Untouched(m) /\ callPc'[m] = callPc[m] /\ callPos'[m] = callPos[m]
  BY DEF CallInv
<1>2. ASSUME NEW i \in 1 .. Len(CmdsOf[m])
      PROVE  future'[CmdsOf[m][i]] = future[CmdsOf[m][i]]
  <2>1. CmdsOf[m][i] \in Cmd /\ CmdsOf[m][i] \in Rng(CmdsOf[m])
    BY CmdsType DEF Rng
  <2> QED BY <2>1, DistinctCommands
<1>3. callPos[m] \in 1 .. Len(CmdsOf[m]) /\ Len(CmdsOf[m]) \in Nat
  BY <1>1, CmdsType DEF Untouched
<1>4. /\ \A i \in callPos[m] .. Len(CmdsOf[m]) : i \in 1 .. Len(CmdsOf[m])
      /\ \A i \in callPos[m] + 1 .. Len(CmdsOf[m]) : i \in 1 .. Len(CmdsOf[m])
  BY <1>3
<1> QED BY <1>1, <1>2, <1>4 DEF Untouched

\* The steps of the callers keep the commands ahead untouched.
LEMMA CallerCallInv ==
  ASSUME Types, CallInv, NEW k \in Call, Caller(k) \/ CancelCall(k)
  PROVE  CallInv'
<1>u. Untouched(k) /\ callPos[k] \in 1 .. Len(CmdsOf[k]) /\ Len(CmdsOf[k]) \in Nat
  BY CmdsType DEF CallInv, Untouched
<1>c. CurrentCmd(k) \in Cmd /\ CurrentCmd(k) \in Rng(CmdsOf[k])
  BY CurrentCmdType
<1>f. future \in [Cmd -> FutureStates] /\ callPc \in [Call -> {"idle", "lock", "put", "blocked", "gather", "done", "cancelled"}]
      /\ callPos \in [Call -> Nat \ {0}]
  BY DEF Types, FutureTypes, CallTypes
<1>o. \A m \in Call : m # k => callPc'[m] = callPc[m] /\ callPos'[m] = callPos[m]
  BY <1>f DEF Caller, CallUnavailable, CallStart, AcquireLock, SequenceRefused, SequenceBlocks, Put, Gathered,
              CancelCall
<1>n. ASSUME NEW i \in callPos[k] + 1 .. Len(CmdsOf[k])
      PROVE  /\ CmdsOf[k][i] # CurrentCmd(k) /\ CmdsOf[k][i] \in Cmd
             /\ i \in callPos[k] .. Len(CmdsOf[k])
  <2>1. i \in 1 .. Len(CmdsOf[k]) /\ i # callPos[k]
    BY <1>u
  <2> QED BY <1>u, <2>1, CmdsType, Distinct DEF CurrentCmd
<1>1. CASE CallUnavailable(k)
  <2>1. \A c \in Cmd : c \notin Rng(CmdsOf[k]) => future'[c] = future[c]
    BY <1>1 DEF CallUnavailable, Refuse, Resolve
  <2>2. callPc'[k] = "done" /\ callPos'[k] = callPos[k]
    BY <1>1, <1>f DEF CallUnavailable
  <2>3. Untouched(k)'
    BY <2>2, <1>u DEF Untouched
  <2> QED BY <1>o, <2>1, <2>3, OtherCalls
<1>2. CASE CallStart(k) \/ AcquireLock(k) \/ SequenceBlocks(k)
  <2>1. /\ UNCHANGED <<future, callPos>> /\ callPc'[k] \in {"lock", "put", "blocked"}
        /\ callPc[k] \in {"idle", "lock", "put"}
    BY <1>2, <1>f DEF CallStart, AcquireLock, SequenceBlocks
  <2>2. Untouched(k)'
    BY <2>1, <1>u DEF Untouched
  <2> QED BY <1>o, <2>1, <2>2, OtherCalls
<1>4. CASE SequenceRefused(k)
  <2>1. /\ \A c \in Cmd : c # CurrentCmd(k) => future'[c] = future[c]
        /\ callPc[k] = "put"
    BY <1>4 DEF SequenceRefused, Refuse, Resolve
  <2>2. CASE LastCmd(k)
    <3>1. callPc'[k] = "done" /\ callPos'[k] = callPos[k]
      BY <1>4, <1>f, <2>2 DEF SequenceRefused
    <3>2. Untouched(k)'
      BY <3>1, <1>u DEF Untouched
    <3> QED BY <1>o, <1>c, <2>1, <3>2, OtherCalls
  <2>3. CASE ~LastCmd(k)
    <3>1. callPc'[k] = "put" /\ callPos'[k] = callPos[k] + 1
      BY <1>4, <1>f, <2>1, <2>3 DEF SequenceRefused
    <3>2. callPos[k] + 1 \in 1 .. Len(CmdsOf[k])
      BY <1>u, <2>3 DEF LastCmd
    <3>3. ASSUME NEW i \in callPos[k] + 1 .. Len(CmdsOf[k]) PROVE future'[CmdsOf[k][i]] = "new"
      BY <1>n, <1>u, <2>1 DEF Untouched
    <3>4. Untouched(k)'
      BY <3>1, <3>2, <3>3 DEF Untouched
    <3> QED BY <1>o, <1>c, <2>1, <3>4, OtherCalls
  <2> QED BY <2>2, <2>3
<1>5. CASE Put(k)
  <2>1. /\ \A c \in Cmd : c # CurrentCmd(k) => future'[c] = future[c]
        /\ callPc[k] \in {"put", "blocked"}
    BY <1>5, <1>f DEF Put
  <2>2. ASSUME NEW i \in callPos[k] + 1 .. Len(CmdsOf[k]) PROVE future'[CmdsOf[k][i]] = "new"
    BY <1>n, <1>u, <2>1 DEF Untouched
  <2>3. CASE k \in SequenceCall \/ LastCmd(k)
    <3>1. callPc'[k] = "gather" /\ callPos'[k] = callPos[k]
      BY <1>5, <1>f, <2>3 DEF Put
    <3>2. Untouched(k)'
      BY <3>1, <1>u, <2>2 DEF Untouched
    <3> QED BY <1>o, <1>c, <2>1, <3>2, OtherCalls
  <2>4. CASE ~(k \in SequenceCall \/ LastCmd(k))
    <3>1. callPc'[k] \in {"put", "blocked"} /\ callPos'[k] = callPos[k] + 1
      BY <1>5, <1>f, <2>1, <2>4 DEF Put
    <3>2. callPos[k] + 1 \in 1 .. Len(CmdsOf[k])
      BY <1>u, <2>4 DEF LastCmd
    <3>3. Untouched(k)'
      BY <3>1, <3>2, <2>2 DEF Untouched
    <3> QED BY <1>o, <1>c, <2>1, <3>3, OtherCalls
  <2> QED BY <2>3, <2>4
<1>6. CASE Gathered(k)
  <2>1. UNCHANGED future /\ callPc[k] = "gather"
    BY <1>6 DEF Gathered
  <2>2. CASE k \in SequenceCall /\ ~LastCmd(k)
    <3>1. callPc'[k] = "put" /\ callPos'[k] = callPos[k] + 1
      BY <1>6, <1>f, <2>2 DEF Gathered
    <3>2. callPos[k] + 1 \in 1 .. Len(CmdsOf[k])
      BY <1>u, <2>2 DEF LastCmd
    <3>3. Untouched(k)'
      BY <3>1, <3>2, <2>1, <1>u DEF Untouched
    <3> QED BY <1>o, <2>1, <3>3, OtherCalls
  <2>3. CASE ~(k \in SequenceCall /\ ~LastCmd(k))
    <3>1. callPc'[k] = "done" /\ callPos'[k] = callPos[k]
      BY <1>6, <1>f, <2>3 DEF Gathered
    <3>2. Untouched(k)'
      BY <3>1, <1>u DEF Untouched
    <3> QED BY <1>o, <2>1, <3>2, OtherCalls
  <2> QED BY <2>2, <2>3
<1>7. CASE CancelCall(k)
  <2>1. \A c \in Cmd : c \notin Rng(CmdsOf[k]) => future'[c] = future[c]
    BY <1>7, <1>c DEF CancelCall, Resolve, Awaited
  <2>2. callPc'[k] = "cancelled" /\ callPos'[k] = callPos[k]
    BY <1>7, <1>f DEF CancelCall
  <2>3. Untouched(k)'
    BY <2>2, <1>u DEF Untouched
  <2> QED BY <1>o, <2>1, <2>3, OtherCalls
<1> QED BY <1>1, <1>2, <1>4, <1>5, <1>6, <1>7 DEF Caller

\* A call that starts or stands at put() has its next command untouched.
LEMMA CurrentIsNew ==
  ASSUME CallInv, NEW k \in Call, callPc[k] \in {"put", "blocked"}
  PROVE  future[CurrentCmd(k)] = "new"
<1>1. Untouched(k) /\ Len(CmdsOf[k]) \in Nat
  BY CmdsType DEF CallInv
<1>2. callPos[k] \in callPos[k] .. Len(CmdsOf[k])
  BY <1>1 DEF Untouched
<1> QED BY <1>1, <1>2 DEF Untouched, CurrentCmd

\* So has a call that has not begun all of them.
LEMMA AllAreNew ==
  ASSUME CallInv, NEW k \in Call, callPc[k] = "idle"
  PROVE  \A c \in Rng(CmdsOf[k]) : future[c] = "new"
  BY DEF CallInv, Untouched, Rng

\* The caller of a new command changes it; every other change resolves.
LEMMA CallerFutures ==
  ASSUME Types, CallInv, NEW k \in Call, Caller(k) \/ CancelCall(k)
  PROVE  \/ OnlyResolves
         \/ \A c \in Cmd : future'[c] # future[c] => future[c] = "new" /\ future'[c] # "new"
<1>1. CASE CallUnavailable(k)
  <2>1. \A c \in Cmd : future'[c] # future[c] => future[c] = "new" /\ future'[c] # "new"
    BY <1>1, AllAreNew DEF CallUnavailable, Refuse, Resolve
  <2> QED BY <2>1
<1>2. CASE SequenceRefused(k)
  <2>1. \A c \in Cmd : future'[c] # future[c] => future[c] = "new" /\ future'[c] # "new"
    BY <1>2, CurrentIsNew DEF SequenceRefused, Refuse, Resolve
  <2> QED BY <2>1
<1>3. CASE Put(k)
  <2>1. \A c \in Cmd : future'[c] # future[c] => future[c] = "new" /\ future'[c] # "new"
    BY <1>3, CurrentIsNew DEF Put, Types, FutureTypes
  <2> QED BY <2>1
<1>4. CASE CancelCall(k)
  <2>1. OnlyResolves
    BY <1>4 DEF CancelCall, Resolve, Pending, OnlyResolves, Types, FutureTypes
  <2> QED BY <2>1
<1>5. CASE CallStart(k) \/ AcquireLock(k) \/ SequenceBlocks(k) \/ Gathered(k)
  <2>1. OnlyResolves
    BY <1>5 DEF CallStart, AcquireLock, SequenceBlocks, Gathered, OnlyResolves
  <2> QED BY <2>1
<1> QED BY <1>1, <1>2, <1>3, <1>4, <1>5 DEF Caller

\* Every step keeps the commands ahead untouched.
LEMMA CallInvStep ==
  ASSUME Types, CallInv, [Next]_vars
  PROVE  CallInv'
<1>1. CASE UNCHANGED vars
  <2>1. UNCHANGED callVars /\ OnlyResolves
    BY <1>1 DEF vars, OnlyResolves
  <2> QED BY <2>1, CallInvUnchanged
<1>2. ASSUME NEW k \in Call, Caller(k) \/ CancelCall(k) PROVE CallInv'
  BY <1>2, CallerCallInv
<1>3. CASE Sender
  <2>1. UNCHANGED callVars
    BY <1>3 DEF Sender, SenderTop, SenderGet, SenderGetTimeout, SendUnavailable, SendReset,
                SendWrite, ResetPublished, WritePublished, PublishFailed, SlotFree
  <2> QED BY <1>3, <2>1, SenderResolves, CallInvUnchanged
<1>4. CASE \/ \E s \in Slot : Timeout(s) \/ OrphanTimeout(s)
           \/ Environment \/ Deinitialize \/ Deinitialized
  <2>1. UNCHANGED callVars
    BY <1>4 DEF Timeout, OrphanTimeout, Environment, Reply, ReplyLost, ReportUnreachable,
                ReportReachable, ConnectionLost, ConnectionRestored, Deinitialize, Deinitialized
  <2> QED BY <1>4, <2>1, OthersResolve, CallInvUnchanged
<1> QED BY <1>1, <1>2, <1>3, <1>4 DEF Next

\* Nobody has touched a command at initialize.
LEMMA InitCalls == Init => CallInv
<1> SUFFICES ASSUME Init, NEW k \in Call PROVE Untouched(k)
  BY DEF CallInv
<1>1. Len(CmdsOf[k]) \in Nat /\ Len(CmdsOf[k]) > 0
  BY CmdsType, DriverAssumption
<1>2. callPos[k] = 1 /\ callPc[k] = "idle"
  BY DEF Init
<1>3. \A i \in 1 .. Len(CmdsOf[k]) : future[CmdsOf[k][i]] = "new"
  BY CmdsType DEF Init
<1> QED BY <1>1, <1>2, <1>3 DEF Untouched

TInv == Types /\ IndexInv /\ CallInv

\* What the types rest on is inductive.
LEMMA TInvAlways == Spec => []TInv
<1>1. Init => TInv
  BY InitTypes, InitCalls DEF TInv
<1>2. TInv /\ [Next]_vars => TInv'
  <2> SUFFICES ASSUME TInv, [Next]_vars PROVE TInv'
    OBVIOUS
  <2> QED BY TypesStep, CallInvStep DEF TInv
<1> QED BY <1>1, <1>2, PTL DEF Spec

\* The variables of WBDALIDriver keep their types, whatever the number of
\* slots, calls and commands: in particular a batch never reaches past the
\* last slot and a call never sends past its last command.
THEOREM DriverTypeOK == Spec => []TypeOK
<1>1. TInv => TypeOK
  BY TypeParts DEF TInv
<1> QED BY <1>1, TInvAlways, PTL

\* A future that holds a response, or was cancelled, is never set again:
\* whatever order replies, timers, reports, cancellations and deinitialize
\* come in, no set_result hits a future that is done.
THEOREM DriverResolvedOnce == Spec => ResolvedOnce
<1> DEFINE Kept == \A c \in Cmd : future[c] \in Responses \cup {"cancelled"} =>
                      future'[c] = future[c]
<1>1. TInv /\ [Next]_vars => Kept
  <2> SUFFICES ASSUME TInv, [Next]_vars PROVE Kept
    OBVIOUS
  <2>1. ASSUME OnlyResolves PROVE Kept
    BY <2>1 DEF OnlyResolves, Responses
  <2>2. ASSUME NEW k \in Call, Caller(k) \/ CancelCall(k) PROVE Kept
    BY <2>1, <2>2, CallerFutures DEF Responses, TInv
  <2>3. CASE UNCHANGED vars
    BY <2>3 DEF vars
  <2>4. CASE Sender
    BY <2>1, <2>4, SenderResolves DEF TInv
  <2>5. CASE \/ \E s \in Slot : Timeout(s) \/ OrphanTimeout(s)
             \/ Environment \/ Deinitialize \/ Deinitialized
    BY <2>1, <2>5, OthersResolve DEF TInv
  <2> QED BY <2>2, <2>3, <2>4, <2>5 DEF Next
<1>2. TInv /\ [Next]_vars => [Kept]_vars
  BY <1>1
<1> QED BY <1>2, TInvAlways, PTL DEF Spec, ResolvedOnce
-----------------------------------------------------------------------------
(* The commands of a call stay together *)

\* What is on its way to the gateway.
Way == batch \o sendQueue

\* Who puts commands holds the lock; nobody waits for it half way.
LockInv ==
    \A k \in Call :
        /\ callPc[k] = "lock" => callPos[k] = 1
        /\ callPc[k] \in {"put", "blocked"} \/ (callPc[k] = "gather" /\ k \in SequenceCall) => lock = k

Sent(w) == \A i \in 1 .. Len(w) : future[w[i]] # "new"

\* Behind the first command of call k only commands of call k follow.
AtEnd(w, k) ==
    \A i \in 1 .. Len(w) : w[i] \in Rng(CmdsOf[k]) =>
        \A m \in i .. Len(w) : w[m] \in Rng(CmdsOf[k])

\* What the holder of the lock has put so far is last.
HolderLast(w) == \A k \in Call : lock = k => AtEnd(w, k)

\* The commands of one call stand next to each other and in order.
InOneRow(w, k) ==
    \A i, j \in 1 .. Len(w) :
        (i < j /\ w[i] \in Rng(CmdsOf[k]) /\ w[j] \in Rng(CmdsOf[k])) =>
            /\ \A m \in i .. j : w[m] \in Rng(CmdsOf[k])
            /\ \A p, q \in 1 .. Len(CmdsOf[k]) :
                  CmdsOf[k][p] = w[i] /\ CmdsOf[k][q] = w[j] => p < q

WayInv == Sent(Way) /\ HolderLast(Way) /\ \A k \in Call : InOneRow(Way, k)

\* v has some of the members of w, in their order; f tells where they stand.
Picked(f, v, w) ==
    /\ f \in [1 .. Len(v) -> 1 .. Len(w)]
    /\ \A i, j \in 1 .. Len(v) : i < j => f[i] < f[j]
    /\ \A i \in 1 .. Len(v) : v[i] = w[f[i]]

\* Two lists in a row.
LEMMA ConcatAt ==
  ASSUME NEW S, NEW a \in Seq(S), NEW b \in Seq(S)
  PROVE  /\ a \o b \in Seq(S)
         /\ Len(a \o b) = Len(a) + Len(b)
         /\ \A i \in 1 .. Len(a) : (a \o b)[i] = a[i]
         /\ \A i \in 1 .. Len(b) : (a \o b)[Len(a) + i] = b[i]
<1>1. Len(a) \in Nat /\ Len(b) \in Nat
  OBVIOUS
<1>2. ASSUME NEW i \in 1 .. Len(a) PROVE (a \o b)[i] = a[i]
  BY <1>1, ConcatProperties
<1>3. ASSUME NEW i \in 1 .. Len(b) PROVE (a \o b)[Len(a) + i] = b[i]
  <2>1. Len(a) + i \in 1 .. Len(a) + Len(b) /\ ~(Len(a) + i <= Len(a)) /\ Len(a) + i - Len(a) = i
    BY <1>1
  <2> QED BY <2>1, ConcatProperties
<1> QED BY <1>2, <1>3, ConcatProperties

\* get() drops a cancelled command: the others keep their order.
LEMMA PickedDrop ==
  ASSUME NEW S, NEW b \in Seq(S), NEW q \in Seq(S), q # <<>>
  PROVE  \E f : Picked(f, b \o Tail(q), b \o q)
<1> DEFINE v == b \o Tail(q)
           w == b \o q
           f == [i \in 1 .. Len(v) |-> IF i <= Len(b) THEN i ELSE i + 1]
<1>1. /\ Len(b) \in Nat /\ Len(q) \in Nat /\ Len(q) > 0
      /\ Tail(q) \in Seq(S) /\ Len(Tail(q)) = Len(q) - 1
      /\ \A i \in 1 .. Len(q) - 1 : Tail(q)[i] = q[i + 1]
  BY EmptySeq
<1>2. /\ Len(w) = Len(b) + Len(q)
      /\ \A i \in 1 .. Len(b) : w[i] = b[i]
      /\ \A i \in 1 .. Len(q) : w[Len(b) + i] = q[i]
  BY ConcatAt
<1>3. /\ Len(v) = Len(b) + Len(q) - 1
      /\ \A i \in 1 .. Len(b) : v[i] = b[i]
      /\ \A i \in 1 .. Len(q) - 1 : v[Len(b) + i] = q[i + 1]
  <2> DEFINE t == Tail(q)
  <2>1. t \in Seq(S) /\ v = b \o t
    BY <1>1
  <2> HIDE DEF t, v
  <2>2. /\ Len(b \o t) = Len(b) + Len(t)
        /\ \A i \in 1 .. Len(b) : (b \o t)[i] = b[i]
        /\ \A i \in 1 .. Len(t) : (b \o t)[Len(b) + i] = t[i]
    BY <2>1, ConcatAt
  <2>3. Len(t) = Len(q) - 1 /\ \A i \in 1 .. Len(q) - 1 : t[i] = q[i + 1]
    BY <1>1 DEF t
  <2> QED BY <1>1, <2>1, <2>2, <2>3
<1> HIDE DEF v, w
<1>4. ASSUME NEW i \in 1 .. Len(v) PROVE f[i] \in 1 .. Len(w) /\ v[i] = w[f[i]]
  <2>1. CASE i <= Len(b)
    <3>1. i \in 1 .. Len(b) /\ f[i] = i
      BY <1>1, <2>1
    <3> QED BY <1>1, <1>2, <1>3, <3>1
  <2>2. CASE ~(i <= Len(b))
    <3>0. i - Len(b) \in 1 .. Len(q) - 1
      BY <1>1, <1>3, <2>2
    <3>1. PICK x \in 1 .. Len(q) - 1 : x = i - Len(b)
      BY <3>0, Zenon
    <3>2. x + 1 \in 1 .. Len(q) /\ Len(b) + (x + 1) = i + 1 /\ Len(b) + x = i /\ f[i] = i + 1
      BY <1>1, <2>2, <3>1
    <3>3. v[Len(b) + x] = q[x + 1]
      BY <1>3, Zenon
    <3>4. w[Len(b) + (x + 1)] = q[x + 1]
      BY <1>2, <3>2, Zenon
    <3> QED BY <1>1, <1>2, <1>3, <3>2, <3>3, <3>4
  <2> QED BY <2>1, <2>2
<1>5. f \in [1 .. Len(v) -> 1 .. Len(w)]
  BY <1>4
<1>6. \A i, j \in 1 .. Len(v) : i < j => f[i] < f[j]
  BY <1>1, <1>3
<1>7. Picked(f, v, w)
  <2> HIDE DEF f
  <2> QED BY <1>4, <1>5, <1>6 DEF Picked
<1> QED BY <1>7 DEF v, w

\* get() moves a command from the queue to the batch: nothing else moves.
LEMMA PickedMove ==
  ASSUME NEW S, NEW b \in Seq(S), NEW q \in Seq(S), q # <<>>
  PROVE  \E f : Picked(f, Append(b, Head(q)) \o Tail(q), b \o q)
<1> DEFINE a == Append(b, Head(q))
           t == Tail(q)
           v == a \o t
           w == b \o q
           f == [i \in 1 .. Len(v) |-> i]
<1>1. /\ Len(b) \in Nat /\ Len(q) \in Nat /\ Len(q) > 0
      /\ t \in Seq(S) /\ Len(t) = Len(q) - 1
      /\ \A i \in 1 .. Len(q) - 1 : t[i] = q[i + 1]
      /\ a \in Seq(S) /\ Len(a) = Len(b) + 1 /\ a[Len(b) + 1] = q[1]
      /\ \A i \in 1 .. Len(b) : a[i] = b[i]
  BY EmptySeq
<1>2. /\ Len(w) = Len(b) + Len(q)
      /\ \A i \in 1 .. Len(b) : w[i] = b[i]
      /\ \A i \in 1 .. Len(q) : w[Len(b) + i] = q[i]
  BY ConcatAt
<1> HIDE DEF a, t
<1>3. /\ Len(v) = Len(a) + Len(t)
      /\ \A i \in 1 .. Len(a) : v[i] = a[i]
      /\ \A i \in 1 .. Len(t) : v[Len(a) + i] = t[i]
  <2>1. a \in Seq(S) /\ t \in Seq(S)
    BY <1>1
  <2> QED BY ONLY <2>1, ConcatAt, SMT DEF v
<1> HIDE DEF v, w
<1>4. ASSUME NEW i \in 1 .. Len(v) PROVE i \in 1 .. Len(w) /\ v[i] = w[i]
  <2>0. Len(v) = Len(w)
    BY <1>1, <1>2, <1>3
  <2>1. CASE i \in 1 .. Len(b)
    BY <1>1, <1>2, <1>3, <2>0, <2>1
  <2>2. CASE i = Len(b) + 1
    <3>1. 1 \in 1 .. Len(q) /\ i \in 1 .. Len(a)
      BY <1>1, <2>2
    <3>2. v[i] = a[i] /\ w[Len(b) + 1] = q[1]
      BY <1>2, <1>3, <3>1, Zenon
    <3> QED BY <1>1, <2>0, <2>2, <3>2
  <2>3. CASE i > Len(b) + 1
    <3>0. i - Len(a) \in 1 .. Len(t)
      BY <1>1, <1>3, <2>3
    <3>1. PICK x \in 1 .. Len(t) : x = i - Len(a)
      BY <3>0, Zenon
    <3>2. x + 1 \in 1 .. Len(q) /\ Len(b) + (x + 1) = i /\ Len(a) + x = i /\ x \in 1 .. Len(q) - 1
      BY <1>1, <2>3, <3>1
    <3>3. v[Len(a) + x] = t[x]
      BY <1>3, Zenon
    <3>4. t[x] = q[x + 1]
      BY <1>1, <3>2, Zenon
    <3>5. w[Len(b) + (x + 1)] = q[x + 1]
      BY <1>2, <3>2, Zenon
    <3> QED BY <2>0, <3>2, <3>3, <3>4, <3>5
  <2> QED BY <1>1, <2>1, <2>2, <2>3
<1>5. Picked(f, v, w)
  BY <1>4 DEF Picked
<1> QED BY <1>5 DEF v, w, a, t

\* The batch is given up or handed over: the queue is left.
LEMMA PickedQueue ==
  ASSUME NEW S, NEW b \in Seq(S), NEW q \in Seq(S)
  PROVE  \E f : Picked(f, <<>> \o q, b \o q)
<1> DEFINE w == b \o q
           f == [i \in 1 .. Len(q) |-> Len(b) + i]
<1>1. /\ Len(w) = Len(b) + Len(q)
      /\ \A i \in 1 .. Len(q) : w[Len(b) + i] = q[i]
  BY ConcatAt
<1>2. Len(b) \in Nat /\ Len(q) \in Nat
  OBVIOUS
<1> HIDE DEF w
<1>3. Picked(f, q, w)
  <2>1. f \in [1 .. Len(q) -> 1 .. Len(w)]
    BY <1>1, <1>2
  <2>2. \A i, j \in 1 .. Len(q) : i < j => f[i] < f[j]
    BY <1>2
  <2>3. \A i \in 1 .. Len(q) : q[i] = w[f[i]]
    BY <1>1
  <2> HIDE DEF f
  <2> QED BY <2>1, <2>2, <2>3 DEF Picked
<1>4. <<>> \o q = q
  OBVIOUS
<1> QED BY <1>3, <1>4 DEF w

\* Nothing moves.
LEMMA PickedSame ==
  ASSUME NEW S, NEW w \in Seq(S)
  PROVE  \E f : Picked(f, w, w)
<1>1. Picked([i \in 1 .. Len(w) |-> i], w, w)
  BY DEF Picked
<1> QED BY <1>1

\* What only loses members, wakes no command and gives the lock to nobody with
\* commands on their way stays in order.
LEMMA WayShrinks ==
  ASSUME Types, WayInv, NEW f, Picked(f, Way', Way),
         \A c \in Cmd : future'[c] = "new" => future[c] = "new",
         \A k \in Call : lock' = k =>
            lock = k \/ \A i \in 1 .. Len(Way) : Way[i] \notin Rng(CmdsOf[k])
  PROVE  WayInv'
<1> DEFINE v == Way'
           w == Way
<1>0. w \in Seq(Cmd) /\ Len(w) \in Nat /\ \A i \in 1 .. Len(w) : w[i] \in Cmd
  BY ConcatAt DEF Types, FutureTypes, BatchTypes, Way
<1>1. /\ f \in [1 .. Len(v) -> 1 .. Len(w)]
      /\ \A i, j \in 1 .. Len(v) : i < j => f[i] < f[j]
      /\ \A i \in 1 .. Len(v) : v[i] = w[f[i]]
  BY DEF Picked
<1>2. /\ \A i \in 1 .. Len(w) : future[w[i]] # "new"
      /\ HolderLast(w) /\ \A k \in Call : InOneRow(w, k)
  BY DEF WayInv, Sent
<1> HIDE DEF v, w
<1>3. ASSUME NEW i \in 1 .. Len(v), NEW j \in 1 .. Len(v), i <= j PROVE f[i] <= f[j] /\ f[j] <= Len(w)
  <2>1. f[i] \in Nat /\ f[j] \in 1 .. Len(w)
    BY <1>0, <1>1
  <2> QED BY <1>0, <1>1, <1>3, <2>1
<1>4. ASSUME NEW i \in 1 .. Len(v) PROVE future'[v[i]] # "new"
  <2>1. f[i] \in 1 .. Len(w) /\ v[i] = w[f[i]]
    BY <1>1
  <2> QED BY <1>0, <1>2, <2>1
<1>5. ASSUME NEW k \in Call, lock' = k, NEW i \in 1 .. Len(v), v[i] \in Rng(CmdsOf[k]),
             NEW m \in i .. Len(v)
      PROVE  v[m] \in Rng(CmdsOf[k])
  <2>0. m \in 1 .. Len(v) /\ i <= m
    OBVIOUS
  <2>1. f[i] \in 1 .. Len(w) /\ v[i] = w[f[i]] /\ v[m] = w[f[m]] /\ f[m] \in 1 .. Len(w)
    BY <1>1, <2>0
  <2>2. f[m] \in f[i] .. Len(w)
    BY <1>0, <1>3, <2>0, <2>1
  <2>3. lock = k
    BY <1>5, <2>1 DEF w
  <2> QED BY <1>2, <1>5, <2>1, <2>2, <2>3 DEF HolderLast, AtEnd
<1>6. ASSUME NEW k \in Call PROVE InOneRow(v, k)
  <2> SUFFICES ASSUME NEW i \in 1 .. Len(v), NEW j \in 1 .. Len(v), i < j,
                      v[i] \in Rng(CmdsOf[k]), v[j] \in Rng(CmdsOf[k])
               PROVE  /\ \A m \in i .. j : v[m] \in Rng(CmdsOf[k])
                      /\ \A p, q \in 1 .. Len(CmdsOf[k]) :
                            CmdsOf[k][p] = v[i] /\ CmdsOf[k][q] = v[j] => p < q
    BY DEF InOneRow
  <2>1. /\ f[i] \in 1 .. Len(w) /\ v[i] = w[f[i]]
        /\ f[j] \in 1 .. Len(w) /\ v[j] = w[f[j]] /\ f[i] < f[j]
    BY <1>1
  <2>2. /\ \A m \in f[i] .. f[j] : w[m] \in Rng(CmdsOf[k])
        /\ \A p, q \in 1 .. Len(CmdsOf[k]) :
              CmdsOf[k][p] = w[f[i]] /\ CmdsOf[k][q] = w[f[j]] => p < q
    BY <1>2, <2>1 DEF InOneRow
  <2>3. ASSUME NEW m \in i .. j PROVE v[m] \in Rng(CmdsOf[k])
    <3>1. m \in 1 .. Len(v) /\ i <= m /\ m <= j
      OBVIOUS
    <3>2. f[i] <= f[m] /\ f[m] <= f[j] /\ f[m] \in 1 .. Len(w) /\ v[m] = w[f[m]]
      BY <1>1, <1>3, <3>1
    <3>3. f[m] \in f[i] .. f[j]
      BY <1>0, <2>1, <3>2
    <3> QED BY <2>2, <3>2, <3>3
  <2> QED BY <2>1, <2>2, <2>3
<1>7. Sent(Way)' /\ HolderLast(Way)' /\ \A k \in Call : InOneRow(Way, k)'
  BY <1>4, <1>5, <1>6 DEF v, Sent, HolderLast, AtEnd, InOneRow
<1> QED BY <1>7 DEF WayInv

\* put(): the holder of the lock adds its next command behind its others.
LEMMA WayGrows ==
  ASSUME Types, Types', CallInv, LockInv, WayInv, NEW k \in Call, Put(k)
  PROVE  WayInv'
<1> DEFINE w == Way
           n == Len(Way)
           v == Way'
           c == CurrentCmd(k)
<1>0. w \in Seq(Cmd) /\ n \in Nat /\ \A i \in 1 .. n : w[i] \in Cmd
  BY ConcatAt DEF Types, FutureTypes, BatchTypes, Way
<1>1. /\ callPc[k] \in {"put", "blocked"} /\ lock = k /\ lock' \in {k, NoCall}
      /\ callPos[k] \in 1 .. Len(CmdsOf[k])
      /\ \A i \in callPos[k] .. Len(CmdsOf[k]) : future[CmdsOf[k][i]] = "new"
      /\ future' = [future EXCEPT ![c] = "pending"]
  BY DEF Put, LockInv, CallInv, Untouched
<1>2. c \in Cmd /\ c \in Rng(CmdsOf[k]) /\ c = CmdsOf[k][callPos[k]]
  BY CurrentCmdType DEF CurrentCmd
<1>3. v = Append(w, c)
  <2>1. batch' = batch /\ sendQueue' = Append(sendQueue, c)
    BY DEF Put, senderVars
  <2>2. batch \in Seq(Cmd) /\ sendQueue \in Seq(Cmd)
    BY DEF Types, FutureTypes, BatchTypes
  <2>3. batch \o Append(sendQueue, c) = Append(batch \o sendQueue, c)
    BY <1>2, <2>2
  <2> QED BY <2>1, <2>3 DEF Way
<1> HIDE DEF w, v, c
<1>4. n = Len(w)
  BY DEF w
<1> HIDE DEF n
<1>5. Len(v) = n + 1 /\ v[n + 1] = c /\ \A i \in 1 .. n : v[i] = w[i]
  BY <1>0, <1>2, <1>3, <1>4
<1>6. /\ \A i \in 1 .. n : future[w[i]] # "new"
      /\ \A i \in 1 .. n : w[i] \in Rng(CmdsOf[k]) => \A m \in i .. n : w[m] \in Rng(CmdsOf[k])
      /\ \A m \in Call : InOneRow(w, m)
  BY <1>1, <1>4 DEF WayInv, Sent, HolderLast, AtEnd, w
<1>7. ASSUME NEW i \in 1 .. n + 1 PROVE i = n + 1 \/ (i \in 1 .. n /\ v[i] = w[i])
  BY <1>0, <1>5
<1>8. ASSUME NEW i \in 1 .. n + 1 PROVE future'[v[i]] # "new"
  <2>1. future \in [Cmd -> FutureStates]
    BY DEF Types, FutureTypes
  <2> QED BY <1>0, <1>1, <1>2, <1>5, <1>6, <1>7, <2>1
<1>9. ASSUME NEW i \in 1 .. n + 1, v[i] \in Rng(CmdsOf[k]), NEW m \in i .. n + 1
      PROVE  v[m] \in Rng(CmdsOf[k])
  <2>1. m \in 1 .. n + 1
    BY <1>0
  <2>2. CASE m = n + 1
    BY <1>2, <1>5, <2>2
  <2>3. CASE m # n + 1
    <3>1. i \in 1 .. n /\ m \in i .. n /\ m \in 1 .. n
      BY <1>0, <2>3
    <3>2. v[i] = w[i] /\ v[m] = w[m]
      BY <1>5, <3>1
    <3> QED BY <1>6, <1>9, <3>1, <3>2
  <2> QED BY <2>2, <2>3
<1>10. ASSUME NEW m \in Call PROVE InOneRow(v, m)
  <2> SUFFICES ASSUME NEW i \in 1 .. n + 1, NEW j \in 1 .. n + 1, i < j,
                      v[i] \in Rng(CmdsOf[m]), v[j] \in Rng(CmdsOf[m])
               PROVE  /\ \A x \in i .. j : v[x] \in Rng(CmdsOf[m])
                      /\ \A p, q \in 1 .. Len(CmdsOf[m]) :
                            CmdsOf[m][p] = v[i] /\ CmdsOf[m][q] = v[j] => p < q
    BY <1>5 DEF InOneRow
  <2>0. i \in 1 .. n /\ v[i] = w[i]
    BY <1>0, <1>5
  <2>1. CASE j = n + 1
    <3>1. m = k
      <4>1. c \in Rng(CmdsOf[m]) \cap Rng(CmdsOf[k])
        BY <1>2, <1>5, <2>1
      <4> QED BY <4>1, DistinctCommands
    <3>2. ASSUME NEW x \in i .. j PROVE v[x] \in Rng(CmdsOf[m])
      BY <1>9, <2>1, <3>1
    <3>3. ASSUME NEW p \in 1 .. Len(CmdsOf[m]), NEW q \in 1 .. Len(CmdsOf[m]),
                 CmdsOf[m][p] = v[i], CmdsOf[m][q] = v[j]
          PROVE  p < q
      <4>1. q = callPos[k]
        BY <1>1, <1>2, <1>5, <2>1, <3>1, <3>3, Distinct
      <4>2. future[CmdsOf[k][p]] # "new"
        BY <1>6, <2>0, <3>1, <3>3
      <4>3. ~(p \in callPos[k] .. Len(CmdsOf[k]))
        BY <1>1, <4>2
      <4>4. Len(CmdsOf[k]) \in Nat
        BY CmdsType
      <4> QED BY <1>1, <3>1, <4>1, <4>3, <4>4
    <3> QED BY <3>2, <3>3
  <2>2. CASE j # n + 1
    <3>1. j \in 1 .. n /\ v[j] = w[j]
      BY <1>7, <2>2
    <3>2. /\ \A x \in i .. j : w[x] \in Rng(CmdsOf[m])
          /\ \A p, q \in 1 .. Len(CmdsOf[m]) :
                CmdsOf[m][p] = w[i] /\ CmdsOf[m][q] = w[j] => p < q
      BY <1>4, <1>6, <2>0, <3>1 DEF InOneRow
    <3>3. ASSUME NEW x \in i .. j PROVE v[x] = w[x]
      <4>1. x \in 1 .. n
        BY <1>0, <2>0, <3>1
      <4> QED BY <1>5, <4>1
    <3> QED BY <2>0, <3>1, <3>2, <3>3
  <2> QED BY <2>1, <2>2
<1>11. HolderLast(Way)'
  <2>1. AtEnd(v, k)
    BY <1>5, <1>9 DEF AtEnd
  <2>2. \A m \in Call : lock' = m => m = k
    BY <1>1, DriverAssumption
  <2> QED BY <2>1, <2>2 DEF HolderLast, v, AtEnd
<1>12. Sent(Way)' /\ \A m \in Call : InOneRow(Way, m)'
  BY <1>5, <1>8, <1>10 DEF Sent, v, InOneRow
<1> QED BY <1>11, <1>12 DEF WayInv

\* Only callers touch the lock and their own places.
LEMMA LockStep ==
  ASSUME Types, CallInv, LockInv, [Next]_vars
  PROVE  LockInv'
<1>1. CASE UNCHANGED callVars
  BY <1>1 DEF callVars, LockInv
<1>2. ASSUME NEW k \in Call, Caller(k) \/ CancelCall(k) PROVE LockInv'
  <2>0. /\ callPc \in [Call -> {"idle", "lock", "put", "blocked", "gather", "done", "cancelled"}]
        /\ callPos \in [Call -> Nat \ {0}] /\ NoCall \notin Call
    BY DriverAssumption DEF Types, CallTypes
  <2>1. callPc[k] = "idle" => callPos[k] = 1
    BY DEF CallInv, Untouched
  <2>2. CASE CallUnavailable(k) \/ CallStart(k)
    BY <2>0, <2>1, <2>2 DEF CallUnavailable, CallStart, LockInv
  <2>3. CASE AcquireLock(k) \/ SequenceBlocks(k)
    BY <2>0, <2>3 DEF AcquireLock, SequenceBlocks, LockInv
  <2>4. CASE SequenceRefused(k)
    BY <2>0, <2>4 DEF SequenceRefused, LockInv
  <2>5. CASE Put(k)
    BY <2>0, <2>5 DEF Put, LockInv
  <2>6. CASE Gathered(k)
    BY <2>0, <2>6 DEF Gathered, LockInv
  <2>7. CASE CancelCall(k)
    BY <2>0, <2>7 DEF CancelCall, LockInv
  <2> QED BY <1>2, <2>2, <2>3, <2>4, <2>5, <2>6, <2>7 DEF Caller
<1>3. CASE UNCHANGED vars
  BY <1>1, <1>3 DEF vars
<1>4. CASE Sender
  BY <1>1, <1>4 DEF Sender, SenderTop, SenderGet, SenderGetTimeout, SendUnavailable, SendReset,
                    SendWrite, ResetPublished, WritePublished, PublishFailed, SlotFree
<1>5. CASE \/ \E s \in Slot : Timeout(s) \/ OrphanTimeout(s)
           \/ Environment \/ Deinitialize \/ Deinitialized
  BY <1>1, <1>5 DEF Timeout, OrphanTimeout, Environment, Reply, ReplyLost, ReportUnreachable,
                    ReportReachable, ConnectionLost, ConnectionRestored, Deinitialize, Deinitialized
<1> QED BY <1>2, <1>3, <1>4, <1>5 DEF Next

\* Only put() adds to what is on its way.
LEMMA OnlyPutAdds ==
  ASSUME Types, [Next]_vars, \A k \in Call : ~Put(k)
  PROVE  \E f : Picked(f, Way', Way)
<1>t. batch \in Seq(Cmd) /\ sendQueue \in Seq(Cmd) /\ Way \in Seq(Cmd)
  BY ConcatAt DEF Types, FutureTypes, BatchTypes, Way
<1>s. ASSUME UNCHANGED <<batch, sendQueue>> PROVE \E f : Picked(f, Way', Way)
  <2>1. Way' = Way
    BY <1>s DEF Way
  <2> QED BY <1>t, <2>1, PickedSame
<1>e. ASSUME batch' = <<>>, UNCHANGED sendQueue PROVE \E f : Picked(f, Way', Way)
  <2>1. Way' = <<>> \o sendQueue
    BY <1>e DEF Way
  <2> QED BY <1>t, <2>1, PickedQueue DEF Way
<1>1. CASE UNCHANGED vars
  BY <1>1, <1>s DEF vars, senderVars
<1>2. CASE Sender
  <2>1. CASE SenderGet
    <3>1. sendQueue # <<>> /\ sendQueue' = Tail(sendQueue)
      BY <2>1 DEF SenderGet
    <3>2. CASE future[Head(sendQueue)] = "cancelled"
      <4>1. Way' = batch \o Tail(sendQueue)
        BY <2>1, <3>1, <3>2 DEF SenderGet, Way
      <4> QED BY <1>t, <3>1, <4>1, PickedDrop DEF Way
    <3>3. CASE future[Head(sendQueue)] # "cancelled"
      <4>1. Way' = Append(batch, Head(sendQueue)) \o Tail(sendQueue)
        BY <2>1, <3>1, <3>3 DEF SenderGet, Way
      <4> QED BY <1>t, <3>1, <4>1, PickedMove DEF Way
    <3> QED BY <3>2, <3>3
  <2>2. CASE ~SenderGet
    <3>1. UNCHANGED sendQueue /\ (batch' = <<>> \/ batch' = batch)
      BY <1>2, <2>2 DEF Sender, SenderTop, SenderGetTimeout, SendUnavailable, SendReset, SendWrite,
                        ResetPublished, WritePublished, PublishFailed, SlotFree, Finish
    <3> QED BY <1>e, <1>s, <3>1
  <2> QED BY <2>1, <2>2
<1>3. CASE \/ \E s \in Slot : Timeout(s) \/ OrphanTimeout(s)
           \/ Environment \/ Deinitialize \/ Deinitialized
  <2>1. UNCHANGED sendQueue /\ (batch' = <<>> \/ batch' = batch)
    BY <1>3 DEF Timeout, OrphanTimeout, Environment, Reply, ReplyLost, ReportUnreachable,
                ReportReachable, ConnectionLost, ConnectionRestored, Deinitialize, Deinitialized,
                CancelAtGet, CancelInSend, CancelAtSlot, senderVars
  <2> QED BY <1>e, <1>s, <2>1
<1>4. ASSUME NEW k \in Call, Caller(k) \/ CancelCall(k) PROVE UNCHANGED <<batch, sendQueue>>
  BY <1>4 DEF Caller, CallUnavailable, CallStart, AcquireLock, SequenceRefused, SequenceBlocks, Gathered,
              CancelCall, senderVars
<1> QED BY <1>1, <1>2, <1>3, <1>4, <1>s DEF Next

\* A step that puts no command takes nothing out of order.
LEMMA WayStep ==
  ASSUME Types, Types', CallInv, LockInv, WayInv, [Next]_vars
  PROVE  WayInv'
<1>1. ASSUME NEW k \in Call, Put(k) PROVE WayInv'
  BY <1>1, WayGrows
<1>2. CASE \A k \in Call : ~Put(k)
  <2>1. PICK f : Picked(f, Way', Way)
    BY <1>2, OnlyPutAdds
  <2>2. CASE OnlyResolves /\ UNCHANGED callVars
    <3>1. \A c \in Cmd : future'[c] = "new" => future[c] = "new"
      BY <2>2 DEF OnlyResolves, Responses
    <3>2. lock' = lock
      BY <2>2 DEF callVars
    <3> QED BY <2>1, <3>1, <3>2, WayShrinks
  <2>3. ASSUME NEW k \in Call, Caller(k) \/ CancelCall(k) PROVE WayInv'
    <3>1. \A c \in Cmd : future'[c] = "new" => future[c] = "new"
      BY <1>2, <2>3 DEF Caller, CallUnavailable, CallStart, AcquireLock, SequenceRefused, SequenceBlocks,
                        Gathered, CancelCall, Refuse, Resolve
    <3>2. CASE AcquireLock(k)
      <4>1. callPos[k] = 1 /\ lock' = k /\ \A i \in callPos[k] .. Len(CmdsOf[k]) : future[CmdsOf[k][i]] = "new"
        BY <3>2 DEF AcquireLock, LockInv, CallInv, Untouched
      <4>2. \A i \in 1 .. Len(Way) : Way[i] \notin Rng(CmdsOf[k])
        BY <4>1 DEF WayInv, Sent, Rng
      <4> QED BY <2>1, <3>1, <4>1, <4>2, WayShrinks
    <3>3. CASE ~AcquireLock(k)
      <4>1. lock' = lock \/ lock' = NoCall
        BY <1>2, <2>3, <3>3 DEF Caller, CallUnavailable, CallStart, SequenceRefused, SequenceBlocks, Gathered,
                          CancelCall
      <4>2. \A m \in Call : lock' = m => lock = m
        BY <4>1, DriverAssumption
      <4> QED BY <2>1, <3>1, <4>2, WayShrinks
    <3> QED BY <3>2, <3>3
  <2>4. CASE UNCHANGED vars
    BY <2>2, <2>4 DEF vars, OnlyResolves
  <2>5. CASE Sender
    BY <2>2, <2>5, SenderResolves DEF Sender, SenderTop, SenderGet, SenderGetTimeout,
            SendUnavailable, SendReset, SendWrite, ResetPublished, WritePublished, PublishFailed,
            SlotFree
  <2>6. CASE \/ \E s \in Slot : Timeout(s) \/ OrphanTimeout(s)
             \/ Environment \/ Deinitialize \/ Deinitialized
    <3>1. UNCHANGED callVars
      BY <2>6 DEF Timeout, OrphanTimeout, Environment, Reply, ReplyLost, ReportUnreachable,
                  ReportReachable, ConnectionLost, ConnectionRestored, Deinitialize, Deinitialized
    <3> QED BY <2>2, <2>6, <3>1, OthersResolve
  <2> QED BY <2>3, <2>4, <2>5, <2>6 DEF Next
<1> QED BY <1>1, <1>2

OrderInv == TInv /\ LockInv /\ WayInv

\* On their way to the gateway the commands of one call stand next to each
\* other and in order, for any number of callers, whatever is refused,
\* cancelled or dropped meanwhile: _send_queue_lock does what send_commands
\* promises, also for a sequence whose command timed out before its batch was
\* written.
THEOREM DriverNotInterleaved == Spec => []NotInterleaved
<1>1. Init => OrderInv
  <2> SUFFICES ASSUME Init PROVE OrderInv
    OBVIOUS
  <2>1. Way = <<>> /\ Len(Way) = 0
    BY DEF Init, Way
  <2>2. LockInv
    BY DEF Init, LockInv
  <2>3. WayInv
    BY <2>1 DEF WayInv, Sent, HolderLast, AtEnd, InOneRow
  <2> QED BY <2>2, <2>3, InitTypes, InitCalls DEF OrderInv, TInv
<1>2. OrderInv /\ [Next]_vars => OrderInv'
  <2> SUFFICES ASSUME OrderInv, [Next]_vars PROVE OrderInv'
    OBVIOUS
  <2>1. TInv'
    BY TypesStep, CallInvStep DEF OrderInv, TInv
  <2>2. LockInv' /\ WayInv'
    BY <2>1, LockStep, WayStep DEF OrderInv, TInv
  <2> QED BY <2>1, <2>2 DEF OrderInv
<1>3. OrderInv => NotInterleaved
  BY DEF OrderInv, WayInv, InOneRow, Way, NotInterleaved
<1> QED BY <1>1, <1>2, <1>3, PTL DEF Spec

-----------------------------------------------------------------------------
(* Commands and their slots *)

\* A command nobody sent yet is nowhere.
NewInv ==
    \A c \in Cmd : future[c] = "new" =>
        /\ c \notin Rng(sendQueue)
        /\ c \notin Rng(batch)
        /\ \A s \in Slot : waiting[s].cmd # c

\* Nobody waits for a response while the gateway is reported unreachable or a
\* reset is owed: what the reset renumbers is empty.
ResyncInv ==
    /\ reported \/ pendingResync => PendingSlots = {}
    /\ pc = "resetting" => ~reported /\ pendingResync

\* The slots the batch will take await no response; the slot the sender takes
\* next awaits none at get(), and at most slotCmd's while it waits for it.
SlotInv ==
    /\ pc \in {"top", "get", "cooldown"} =>
          \A s \in batchStart .. nextIndex - 1 : ~Pending(waiting[s].cmd)
    /\ pc = "get" => ~Pending(waiting[nextIndex].cmd)
    /\ pc = "slot" \/ (InSend /\ site = "slot") =>
          (Pending(waiting[nextIndex].cmd) => waiting[nextIndex].cmd = slotCmd)

\* Where a pending command is, once the write of its batch is under way.
OwnedInv ==
    \A c \in Cmd : Pending(c) =>
        \/ c \in Rng(sendQueue)
        \/ c \in Rng(batch) /\ pc \notin {"writing", "refused"}
        \/ \E s \in Slot : waiting[s].cmd = c /\ waiting[s].armed

RunInv == SlotInv /\ (deinit = "no" => OwnedInv)

IInv == TInv /\ NewInv /\ ResyncInv /\ RunInv
-----------------------------------------------------------------------------
(* What most steps have in common *)

\* Nothing becomes pending except a command nobody sent before.
NothingWoken ==
    \A c \in Cmd : /\ future'[c] = "new" => future[c] = "new"
                   /\ future'[c] = "pending" => future[c] \in {"new", "pending"}

\* A slot keeps its command or is cleared.
SlotsKept ==
    \A s \in Slot : waiting'[s].cmd = waiting[s].cmd \/ waiting'[s].cmd = NoCmd

\* Steps that only resolve futures wake nothing.
LEMMA ResolvesWakeNothing ==
  ASSUME OnlyResolves
  PROVE  NothingWoken /\ \A c \in Cmd : future'[c] = "pending" => future[c] = "pending"
  BY DEF OnlyResolves, NothingWoken, Responses

\* A command nobody sent, and that nothing newly refers to, stays nowhere.
LEMMA NewInvKept ==
  ASSUME NewInv, NothingWoken,
         \A c \in Cmd : c \in Rng(sendQueue') => c \in Rng(sendQueue) \/ future'[c] # "new",
         \A c \in Cmd : c \in Rng(batch') => c \in Rng(batch) \/ c \in Rng(sendQueue),
         \A c \in Cmd : \A s \in Slot : waiting'[s].cmd = c =>
             waiting[s].cmd = c \/ c \in Rng(batch)
  PROVE  NewInv'
<1> SUFFICES ASSUME NEW c \in Cmd, future'[c] = "new"
             PROVE  /\ c \notin Rng(sendQueue') /\ c \notin Rng(batch')
                    /\ \A s \in Slot : waiting'[s].cmd # c
  BY DEF NewInv, Rng
<1>1. future[c] = "new"
  BY DEF NothingWoken
<1>2. /\ c \notin Rng(sendQueue) /\ c \notin Rng(batch)
      /\ \A s \in Slot : waiting[s].cmd # c
  BY <1>1 DEF NewInv
<1> QED BY <1>2

\* A slot that awaits a response after such a step awaited it before.
LEMMA SlotsShrink ==
  ASSUME Types, NewInv, NothingWoken, SlotsKept, NEW s \in Slot, Pending(waiting[s].cmd)'
  PROVE  waiting'[s].cmd = waiting[s].cmd /\ Pending(waiting[s].cmd)
<1>1. waiting[s].cmd \in Cmd \cup {NoCmd}
  BY DEF Types, SlotTypes, Waiters
<1>2. waiting'[s].cmd = waiting[s].cmd /\ waiting[s].cmd # NoCmd
  BY DEF SlotsKept, Pending
<1>3. future[waiting[s].cmd] # "new"
  BY <1>1, <1>2 DEF NewInv
<1> QED BY <1>1, <1>2, <1>3 DEF NothingWoken, Pending

\* Where nobody waits, such a step makes nobody wait.
LEMMA NoneShrink ==
  ASSUME Types, NewInv, NothingWoken, SlotsKept, PendingSlots = {}
  PROVE  PendingSlots' = {}
<1>1. ASSUME NEW s \in Slot PROVE ~Pending(waiting[s].cmd)'
  BY SlotsShrink DEF PendingSlots
<1> QED BY <1>1 DEF PendingSlots

\* A step that leaves sender and link alone keeps the debt of a reset empty.
LEMMA QuietResync ==
  ASSUME Types, NewInv, ResyncInv, NothingWoken, SlotsKept,
         UNCHANGED <<reported, pendingResync, pc>>
  PROVE  ResyncInv'
<1>1. reported \/ pendingResync => PendingSlots' = {}
  BY NoneShrink DEF ResyncInv
<1> QED BY <1>1 DEF ResyncInv

\* The slots SlotInv talks about are slots.
LEMMA SlotRange ==
  ASSUME Types, IndexInv
  PROVE  /\ batchStart .. nextIndex - 1 \subseteq Slot
         /\ ~(InSend /\ site = "end") => nextIndex \in Slot
<1>1. QueueSize \in Nat /\ Slot = 0 .. QueueSize - 1
  BY QueueSizeType
<1>2. batchStart \in Slot /\ nextIndex \in 0 .. QueueSize
  BY DEF Types, BatchTypes
<1> QED BY <1>1, <1>2 DEF IndexInv

\* A step that leaves the sender alone keeps the slots of its batch free.
LEMMA QuietSlots ==
  ASSUME Types, IndexInv, NewInv, SlotInv, NothingWoken, SlotsKept, UNCHANGED senderVars
  PROVE  SlotInv'
<1>1. UNCHANGED <<pc, site, slotCmd, batchStart, nextIndex>> /\ (InSend' <=> InSend)
  BY DEF senderVars, InSend
<1>2. pc \in {"top", "get", "cooldown"} =>
        \A s \in batchStart .. nextIndex - 1 : ~Pending(waiting[s].cmd)'
  BY SlotRange, SlotsShrink DEF SlotInv
<1>3. pc = "get" => ~Pending(waiting[nextIndex].cmd)'
  BY <1>1, SlotRange, SlotsShrink DEF SlotInv, InSend, Pending
<1>4. pc = "slot" \/ (InSend /\ site = "slot") =>
        (Pending(waiting[nextIndex].cmd)' => waiting'[nextIndex].cmd = slotCmd)
  BY <1>1, SlotRange, SlotsShrink DEF SlotInv, InSend, Pending
<1> QED BY <1>1, <1>2, <1>3, <1>4 DEF SlotInv, Pending

\* The steps of the callers lose no command.
LEMMA CallerLoss ==
  ASSUME IInv, NEW k \in Call, Caller(k) \/ CancelCall(k)
  PROVE  NewInv' /\ ResyncInv' /\ RunInv'
<1>t. Types /\ IndexInv /\ CallInv /\ NewInv /\ ResyncInv
  BY DEF IInv, TInv
<1>w. NothingWoken
  <2>1. CASE OnlyResolves
    BY <2>1, ResolvesWakeNothing
  <2>2. CASE \A c \in Cmd : future'[c] # future[c] => future[c] = "new" /\ future'[c] # "new"
    BY <2>2 DEF NothingWoken
  <2> QED BY <1>t, <2>1, <2>2, CallerFutures
<1>r. /\ UNCHANGED timerVars /\ UNCHANGED senderVars /\ UNCHANGED linkVars
      /\ UNCHANGED deinit
  BY DEF Caller, CallUnavailable, CallStart, AcquireLock, SequenceRefused, SequenceBlocks, Put, Gathered,
         CancelCall
<1>k. SlotsKept /\ waiting' = waiting
  BY <1>r DEF timerVars, SlotsKept
<1>c. CurrentCmd(k) \in Cmd
  BY <1>t, CurrentCmdType
<1>q. \/ sendQueue' = sendQueue
        /\ \A c \in Cmd : future'[c] = "pending" => future[c] = "pending"
      \/ /\ Rng(sendQueue') = Rng(sendQueue) \cup {CurrentCmd(k)}
         /\ future'[CurrentCmd(k)] = "pending"
         /\ \A c \in Cmd : c # CurrentCmd(k) => future'[c] = future[c]
  <2>1. CASE Put(k)
    <3>1. Rng(sendQueue') = Rng(sendQueue) \cup {CurrentCmd(k)}
      <4>1. sendQueue' = Append(sendQueue, CurrentCmd(k)) /\ sendQueue \in Seq(Cmd)
        BY <1>t, <2>1 DEF Put, Types, FutureTypes
      <4> QED BY <1>c, <4>1, RngAppend
    <3>2. /\ future'[CurrentCmd(k)] = "pending"
          /\ \A c \in Cmd : c # CurrentCmd(k) => future'[c] = future[c]
      BY <1>t, <1>c, <2>1 DEF Put, Types, FutureTypes
    <3> QED BY <3>1, <3>2
  <2>2. CASE CallUnavailable(k) \/ SequenceRefused(k) \/ CancelCall(k)
    <3>1. sendQueue' = sendQueue
      BY <2>2 DEF CallUnavailable, SequenceRefused, CancelCall
    <3>2. \A c \in Cmd : future'[c] = "pending" => future[c] = "pending"
      BY <2>2 DEF CallUnavailable, SequenceRefused, CancelCall, Refuse, Resolve
    <3> QED BY <3>1, <3>2
  <2>3. CASE CallStart(k) \/ AcquireLock(k) \/ SequenceBlocks(k) \/ Gathered(k)
    BY <2>3 DEF CallStart, AcquireLock, SequenceBlocks, Gathered
  <2> QED BY <2>1, <2>2, <2>3 DEF Caller
<1>1. NewInv'
  <2>1. \A c \in Cmd : c \in Rng(sendQueue') => c \in Rng(sendQueue) \/ future'[c] # "new"
    BY <1>q
  <2>2. \A c \in Cmd : c \in Rng(batch') => c \in Rng(batch) \/ c \in Rng(sendQueue)
    BY <1>r DEF senderVars
  <2> QED BY <1>t, <1>w, <1>k, <2>1, <2>2, NewInvKept
<1>2. ResyncInv'
  BY <1>t, <1>w, <1>r, <1>k, QuietResync DEF senderVars, linkVars
<1>3. SlotInv'
  BY <1>t, <1>w, <1>r, <1>k, QuietSlots DEF IInv, RunInv
<1>4. deinit = "no" => OwnedInv'
  <2> SUFFICES ASSUME deinit = "no", OwnedInv, NEW c \in Cmd, Pending(c)'
               PROVE  \/ c \in Rng(sendQueue')
                      \/ c \in Rng(batch) /\ pc \notin {"writing", "refused"}
                      \/ \E s \in Slot : waiting[s].cmd = c /\ waiting[s].armed
    BY <1>r, <1>k DEF OwnedInv, IInv, RunInv, senderVars, Rng
  <2>1. Pending(c) => \/ c \in Rng(sendQueue)
                      \/ c \in Rng(batch) /\ pc \notin {"writing", "refused"}
                      \/ \E s \in Slot : waiting[s].cmd = c /\ waiting[s].armed
    BY DEF OwnedInv
  <2>2. c # NoCmd /\ future'[c] = "pending"
    BY DEF Pending
  <2> QED BY <1>q, <2>1, <2>2 DEF Pending
<1> QED BY <1>r, <1>1, <1>2, <1>3, <1>4 DEF RunInv

\* A waiter that answers, times out or is drained was pending in its slot: a
\* step that keeps queue and batch, and after which every command that is
\* still pending keeps its slot and timer, loses no command.
LEMMA QuietOwned ==
  ASSUME OwnedInv, UNCHANGED <<sendQueue, batch, pc>>, OnlyResolves,
         \A s \in Slot : waiting[s].cmd \in Cmd /\ future'[waiting[s].cmd] = "pending" =>
             waiting'[s] = waiting[s]
  PROVE  OwnedInv'
<1> SUFFICES ASSUME NEW c \in Cmd, Pending(c)'
             PROVE  \/ c \in Rng(sendQueue)
                    \/ c \in Rng(batch) /\ pc \notin {"writing", "refused"}
                    \/ \E s \in Slot : waiting'[s].cmd = c /\ waiting'[s].armed
  BY DEF OwnedInv, Rng
<1>1. Pending(c) /\ future'[c] = "pending"
  BY DEF OnlyResolves, Pending, Responses
<1> QED BY <1>1 DEF OwnedInv

\* A sender that goes on after Task.cancel() stands where its slots are free.
LEMMA CancelSlots ==
  ASSUME Types, IndexInv, SlotInv, Deinitialize
  PROVE  SlotInv'
<1>q. /\ QueueSize \in Nat /\ QueueSize > 0 /\ Slot = 0 .. QueueSize - 1
      /\ batchStart \in Slot /\ nextIndex \in 0 .. QueueSize
  BY QueueSizeType DEF Types, BatchTypes
<1>0. waiting' = waiting
  BY DEF Deinitialize, timerVars
<1>1. CASE CancelAtGet
  BY <1>1 DEF CancelAtGet, SlotInv, InSend
<1>2. CASE CancelInSend
  <2>1. /\ pc' \in {"top", "stopped"} /\ nextIndex' = batchStart'
        /\ batchStart' \in 0 .. QueueSize - 1
    BY <1>2, <1>q DEF CancelInSend
  <2>2. batchStart' .. nextIndex' - 1 = {}
    <3>1. \A x \in Int : x .. x - 1 = {}
      OBVIOUS
    <3>2. batchStart' \in Int
      BY <1>q, <2>1
    <3> QED BY <2>1, <3>1, <3>2, Zenon
  <2> QED BY <2>1, <2>2 DEF SlotInv, InSend
<1>3. CASE CancelAtSlot
  <2>1. /\ pc = "slot" /\ pc' \in {"get", "stopped"} /\ UNCHANGED <<batch, batchStart, nextIndex, slotCmd>>
        /\ slotCmd \in Cmd \cup {NoCmd} /\ future \in [Cmd -> FutureStates]
    BY <1>3 DEF CancelAtSlot, Types, PlaceTypes, FutureTypes
  <2>2. batchStart .. nextIndex - 1 = {}
    <3>1. nextIndex - batchStart = 0
      <4>1. Len(batch) = 0
        BY <2>1 DEF IndexInv
      <4> QED BY <2>1, <4>1 DEF IndexInv
    <3> QED BY <1>q, <3>1
  <2>3. ~Pending(slotCmd)'
    BY <1>3, <2>1 DEF CancelAtSlot, Pending
  <2>4. \A c \in Cmd : (Pending(c))' => Pending(c)
    BY <1>3, <2>1 DEF CancelAtSlot, Pending
  <2>5. nextIndex \in Slot
    BY <2>1, SlotRange DEF InSend
  <2>6. Pending(waiting[nextIndex].cmd)' => Pending(waiting[nextIndex].cmd)
    <3>1. waiting[nextIndex].cmd \in Cmd \cup {NoCmd}
      BY <2>5 DEF Types, SlotTypes, Waiters
    <3>2. (waiting[nextIndex])' = waiting[nextIndex]
      BY <1>0, <2>1
    <3> QED BY <2>4, <3>1, <3>2 DEF Pending
  <2>7. ~Pending(waiting[nextIndex].cmd)'
    <3>1. (waiting[nextIndex])' = waiting[nextIndex]
      BY <1>0, <2>1
    <3> QED BY <2>1, <2>3, <2>6, <3>1 DEF SlotInv, Pending
  <2> QED BY <2>1, <2>2, <2>7 DEF SlotInv, InSend
<1> QED BY <1>1, <1>2, <1>3 DEF Deinitialize

\* Timers, replies, reports, the link and deinitialize lose no command.
LEMMA OthersLoss ==
  ASSUME IInv, ~ReportDuringReset,
         \/ \E s \in Slot : Timeout(s) \/ OrphanTimeout(s)
         \/ Environment \/ Deinitialize \/ Deinitialized
  PROVE  NewInv' /\ ResyncInv' /\ RunInv'
<1>t. Types /\ IndexInv /\ NewInv /\ ResyncInv
  BY DEF IInv, TInv
<1>f. /\ future \in [Cmd -> FutureStates] /\ waiting \in [Slot -> Waiters]
      /\ rpc \in Seq([slot : Slot, cmd : Cmd])
  BY <1>t DEF Types, FutureTypes, SlotTypes, GwTypes
<1>o. OnlyResolves /\ NothingWoken
  BY <1>t, OthersResolve, ResolvesWakeNothing
<1>h. rpc # <<>> => Head(rpc).slot \in Slot
  <2>1. rpc # <<>> => Head(rpc) \in [slot : Slot, cmd : Cmd]
    BY <1>f, RngTail
  <2> QED BY <2>1
<1>k. /\ SlotsKept
      /\ \A s \in Slot : waiting[s].cmd \in Cmd /\ future'[waiting[s].cmd] = "pending" =>
             waiting'[s] = waiting[s]
  <2>a. ASSUME NEW s \in Slot, waiting' = [waiting EXCEPT ![s].armed = FALSE],
               Pending(waiting[s].cmd) => future'[waiting[s].cmd] # "pending"
        PROVE  <1>k!1 /\ <1>k!2
    <3>1. ASSUME NEW r \in Slot
          PROVE  waiting'[r].cmd = waiting[r].cmd /\ (r # s => waiting'[r] = waiting[r])
      BY <1>f, <2>a DEF Waiters
    <3>2. ASSUME waiting[s].cmd \in Cmd, future'[waiting[s].cmd] = "pending" PROVE FALSE
      BY <1>o, <2>a, <3>2, DriverAssumption DEF OnlyResolves, Pending, Responses
    <3> QED BY <3>1, <3>2 DEF SlotsKept
  <2>1. ASSUME NEW s \in Slot, Timeout(s) PROVE <1>k!1 /\ <1>k!2
    <3>1. waiting' = [waiting EXCEPT ![s].armed = FALSE] /\ TimeoutCallback(s)
      BY <2>1 DEF Timeout
    <3>2. Pending(waiting[s].cmd) => future'[waiting[s].cmd] # "pending"
      BY <1>f, <3>1 DEF TimeoutCallback, Pending, Waiters
    <3> QED BY <2>a, <3>1, <3>2
  <2>2. CASE \/ \E s \in Slot : OrphanTimeout(s)
             \/ ReplyLost \/ ReportReachable \/ ConnectionLost \/ ConnectionRestored
             \/ Deinitialize
    <3>1. waiting' = waiting
      BY <2>2 DEF OrphanTimeout, ReplyLost, ReportReachable, ConnectionLost,
                  ConnectionRestored, Deinitialize, timerVars
    <3> QED BY <3>1 DEF SlotsKept
  <2>3. CASE Reply
    <3> DEFINE s == Head(rpc).slot
    <3>1. s \in Slot /\ waiting' = [waiting EXCEPT ![s].armed = FALSE]
      BY <1>h, <2>3 DEF Reply
    <3>2. Pending(waiting[s].cmd) => future' = [future EXCEPT ![waiting[s].cmd] = "answered"]
      BY <2>3 DEF Reply
    <3> HIDE DEF s
    <3>3. Pending(waiting[s].cmd) => future'[waiting[s].cmd] # "pending"
      BY <1>f, <3>1, <3>2 DEF Pending, Waiters
    <3> QED BY <2>a, <3>1, <3>3
  <2>4. CASE ReportUnreachable \/ Deinitialized
    <3>1. waiting' = [s \in Slot |-> NoWaiter]
      BY <2>4 DEF ReportUnreachable, Deinitialized, DrainPending, DrainTimers
    <3>2. PICK r \in Responses : future' = Resolve(PendingWaiters, r)
      BY <2>4 DEF ReportUnreachable, Deinitialized, DrainPending, Responses
    <3>3. SlotsKept
      BY <3>1 DEF SlotsKept, NoWaiter
    <3>4. ASSUME NEW s \in Slot, waiting[s].cmd \in Cmd,
                 future'[waiting[s].cmd] = "pending"
          PROVE  FALSE
      <4>1. waiting[s].cmd \notin PendingWaiters /\ future[waiting[s].cmd] = "pending"
        BY <3>2, <3>4 DEF Resolve, Responses
      <4> QED BY <3>4, <4>1, DriverAssumption DEF PendingWaiters, PendingSlots, Pending
    <3> QED BY <3>3, <3>4
  <2> QED BY <2>1, <2>2, <2>3, <2>4 DEF Environment
<1>d. deinit' = "no" => /\ UNCHANGED senderVars /\ UNCHANGED sendQueue /\ deinit = "no"
                       /\ ~Deinitialize /\ ~Deinitialized
  BY DEF Timeout, OrphanTimeout, Environment, Reply, ReplyLost, ReportUnreachable,
         ReportReachable, ConnectionLost, ConnectionRestored, Deinitialize, Deinitialized
<1>1. NewInv'
  <2>1. sendQueue' = sendQueue
    BY DEF Timeout, OrphanTimeout, Environment, Reply, ReplyLost, ReportUnreachable,
           ReportReachable, ConnectionLost, ConnectionRestored, Deinitialize, Deinitialized
  <2>2. batch' = batch \/ batch' = <<>>
    BY DEF Timeout, OrphanTimeout, Environment, Reply, ReplyLost, ReportUnreachable,
           ReportReachable, ConnectionLost, ConnectionRestored, Deinitialize, Deinitialized,
           CancelAtGet, CancelInSend, CancelAtSlot, senderVars
  <2>3. \A c \in Cmd : c \in Rng(batch') => c \in Rng(batch)
    BY <2>2, RngEmpty
  <2>4. \A c \in Cmd : \A s \in Slot : waiting'[s].cmd = c => waiting[s].cmd = c
    BY <1>k, DriverAssumption DEF SlotsKept
  <2> QED BY <1>t, <1>o, <2>1, <2>3, <2>4, NewInvKept
<1>2. ResyncInv'
  <2>1. CASE \/ \E s \in Slot : Timeout(s) \/ OrphanTimeout(s)
             \/ Reply \/ ReplyLost \/ ConnectionLost \/ Deinitialized
    <3>1. UNCHANGED <<reported, pendingResync, pc>>
      BY <2>1 DEF Timeout, OrphanTimeout, Reply, ReplyLost, ConnectionLost, Deinitialized,
                  senderVars, linkVars
    <3> QED BY <1>t, <1>o, <1>k, <3>1, QuietResync
  <2>2. CASE ReportUnreachable
    <3>1. PendingSlots' = {}
      BY <2>2 DEF ReportUnreachable, DrainPending, DrainTimers, PendingSlots, Pending, NoWaiter
    <3>2. pc' # "resetting"
      BY <2>2 DEF ReportUnreachable, senderVars
    <3> QED BY <3>1, <3>2 DEF ResyncInv
  <2>3. CASE ReportReachable
    <3>1. PendingSlots' = {}
      BY <1>t, <1>o, <1>k, <2>3, NoneShrink DEF ReportReachable, ResyncInv
    <3>2. pc' # "resetting"
      BY <1>t, <2>3 DEF ReportReachable, senderVars, ResyncInv
    <3> QED BY <3>1, <3>2 DEF ResyncInv
  <2>4. CASE ConnectionRestored
    <3>1. pendingResync => PendingSlots' = {}
      BY <1>t, <1>o, <1>k, NoneShrink DEF ResyncInv
    <3> QED BY <1>t, <2>4, <3>1 DEF ConnectionRestored, senderVars, ResyncInv
  <2>5. CASE Deinitialize
    <3>1. reported \/ pendingResync => PendingSlots' = {}
      BY <1>t, <1>o, <1>k, NoneShrink DEF ResyncInv
    <3>2. UNCHANGED <<reported, pendingResync>> /\ pc' # "resetting"
      BY <2>5 DEF Deinitialize, CancelAtGet, CancelInSend, CancelAtSlot, linkVars
    <3> QED BY <3>1, <3>2 DEF ResyncInv
  <2> QED BY <2>1, <2>2, <2>3, <2>4, <2>5 DEF Environment
<1>3. SlotInv'
  <2>1. CASE ~Deinitialize
    <3>1. UNCHANGED senderVars
      BY <2>1 DEF Timeout, OrphanTimeout, Environment, Reply, ReplyLost, ReportUnreachable,
                  ReportReachable, ConnectionLost, ConnectionRestored, Deinitialized
    <3> QED BY <1>t, <1>o, <1>k, <3>1, QuietSlots DEF IInv, RunInv
  <2>2. CASE Deinitialize
    BY <1>t, <2>2, CancelSlots DEF IInv, RunInv
  <2> QED BY <2>1, <2>2
<1>4. deinit' = "no" => OwnedInv'
  BY <1>o, <1>k, <1>d, QuietOwned DEF IInv, RunInv, senderVars
<1> QED BY <1>1, <1>2, <1>3, <1>4 DEF RunInv
-----------------------------------------------------------------------------
(* The queue sender *)

\* After a flush with every response of the batch given or registered, the
\* sender stands at the top of its loop or at the slot it waits for.
LEMMA FlushSlots ==
  ASSUME Types, IndexInv, NewInv, SlotInv, InSend, Finish, NothingWoken, SlotsKept
  PROVE  SlotInv'
<1>1. QueueSize \in Nat /\ Slot = 0 .. QueueSize - 1
  BY QueueSizeType
<1>2. /\ pc' \in {"top", "slot"} /\ nextIndex' = batchStart'
      /\ nextIndex' \in 0 .. QueueSize - 1 /\ slotCmd' = slotCmd
  BY FinishTypes DEF Finish
<1>3. batchStart' .. nextIndex' - 1 = {}
  <2>1. \A x \in Int : x .. x - 1 = {}
    OBVIOUS
  <2>2. batchStart' \in Int
    BY <1>1, <1>2
  <2> QED BY <1>2, <2>1, <2>2, Zenon
<1>4. ~InSend' /\ pc' # "get"
  BY <1>2 DEF InSend
<1>5. CASE pc' = "slot"
  <2>1. site = "slot" /\ nextIndex \in Slot /\ nextIndex' = nextIndex
    BY <1>1, <1>5, SlotRange DEF Finish
  <2>2. Pending(waiting[nextIndex].cmd)' => waiting'[nextIndex].cmd = slotCmd
    BY <2>1, SlotsShrink DEF SlotInv, Pending
  <2> QED BY <1>2, <1>3, <1>4, <2>1, <2>2 DEF SlotInv
<1>6. CASE pc' = "top"
  BY <1>3, <1>4, <1>6 DEF SlotInv
<1> QED BY <1>2, <1>5, <1>6

\* The sender drains the waiters of an old session before it fails a batch:
\* no command of the batch, and no drained waiter, stays pending.
LEMMA FailBatchLoss ==
  ASSUME Types, NEW drain \in BOOLEAN, FailBatch(drain), UNCHANGED sendQueue
  PROVE  SlotsKept /\ (OwnedInv => OwnedInv') /\ (drain => PendingSlots' = {})
<1> DEFINE drained == IF drain THEN PendingWaiters ELSE {}
           failed  == {c \in Rng(batch) : future[c] = "pending"} \ drained
<1>1. future' = Resolve(drained \cup failed, "unavailable")
  BY DEF FailBatch
<1>2. drain => waiting' = [s \in Slot |-> NoWaiter]
  BY DEF FailBatch, DrainTimers
<1>3. ~drain => waiting' = waiting
  BY DEF FailBatch, timerVars
<1>4. SlotsKept
  BY <1>2, <1>3 DEF SlotsKept, NoWaiter
<1>5. drain => PendingSlots' = {}
  BY <1>2 DEF PendingSlots, Pending, NoWaiter
<1>6. ASSUME OwnedInv, NEW c \in Cmd, Pending(c)'
      PROVE  \/ c \in Rng(sendQueue)
             \/ \E s \in Slot : waiting'[s].cmd = c /\ waiting'[s].armed
  <2>1. future[c] = "pending" /\ c \notin drained /\ c \notin failed
    BY <1>1, <1>6 DEF Resolve, Pending
  <2>2. Pending(c) /\ c \notin Rng(batch)
    BY <1>6, <2>1 DEF Pending
  <2>3. CASE drain
    <3>1. ASSUME NEW s \in Slot, waiting[s].cmd = c PROVE FALSE
      BY <2>1, <2>2, <2>3, <3>1 DEF PendingWaiters, PendingSlots
    <3> QED BY <1>6, <2>2, <3>1 DEF OwnedInv
  <2>4. CASE ~drain
    BY <1>3, <1>6, <2>2, <2>4 DEF OwnedInv
  <2> QED BY <2>3, <2>4
<1>7. OwnedInv => OwnedInv'
  BY <1>6 DEF OwnedInv, Rng
<1> QED BY <1>4, <1>5, <1>7

\* Registering a batch gives each of its commands a slot of its own.
LEMMA RegisterSlots ==
  ASSUME Types, NEW start \in Slot, start + Len(batch) <= QueueSize, Register(start)
  PROVE  /\ \A c \in Rng(batch) : \E s \in Slot : waiting'[s].cmd = c /\ waiting'[s].armed
         /\ \A s \in Slot : s \notin start .. start + Len(batch) - 1 => waiting'[s] = waiting[s]
         /\ \A c \in Cmd : \A s \in Slot : waiting'[s].cmd = c =>
                waiting[s].cmd = c \/ c \in Rng(batch)
<1>1. /\ batch \in Seq(Cmd) /\ Len(batch) \in Nat
      /\ QueueSize \in Nat /\ Slot = 0 .. QueueSize - 1
  BY QueueSizeType DEF Types, BatchTypes
<1>2. ASSUME NEW c \in Rng(batch) PROVE \E s \in Slot : waiting'[s].cmd = c /\ waiting'[s].armed
  <2>1. PICK i \in 1 .. Len(batch) : c = batch[i]
    BY DEF Rng
  <2> DEFINE s == start + i - 1
  <2>2. s \in Slot /\ s \in start .. start + Len(batch) - 1 /\ s - start + 1 = i
    BY <1>1, <2>1
  <2> HIDE DEF s
  <2>3. waiting'[s] = [cmd |-> batch[s - start + 1], id |-> itemIndex + (s - start),
                       armed |-> TRUE]
    BY <2>2 DEF Register
  <2> QED BY <2>1, <2>2, <2>3
<1>3. ASSUME NEW s \in Slot, s \notin start .. start + Len(batch) - 1
      PROVE  waiting'[s] = waiting[s]
  BY <1>3 DEF Register
<1>4. ASSUME NEW s \in Slot, s \in start .. start + Len(batch) - 1
      PROVE  waiting'[s].cmd \in Rng(batch)
  <2>1. waiting'[s].cmd = batch[s - start + 1]
    BY <1>4 DEF Register
  <2>2. s - start + 1 \in 1 .. Len(batch)
    BY <1>1, <1>4
  <2> QED BY <2>1, <2>2 DEF Rng
<1> QED BY <1>2, <1>3, <1>4

\* A batch registered in slots nobody waits for replaces no pending waiter.
LEMMA RegisterOwned ==
  ASSUME Types, OwnedInv, NEW start \in Slot, start + Len(batch) <= QueueSize, Register(start),
         \A s \in Slot : s \in start .. start + Len(batch) - 1 => ~Pending(waiting[s].cmd),
         UNCHANGED <<sendQueue, batch>>
  PROVE  OwnedInv'
<1>1. future' = future
  BY DEF Register
<1>2. ASSUME NEW c \in Cmd, Pending(c)
      PROVE  \/ c \in Rng(sendQueue)
             \/ \E s \in Slot : waiting'[s].cmd = c /\ waiting'[s].armed
  <2>1. CASE c \in Rng(batch)
    BY <2>1, RegisterSlots
  <2>2. ASSUME NEW s \in Slot, waiting[s].cmd = c, waiting[s].armed
        PROVE  waiting'[s].cmd = c /\ waiting'[s].armed
    BY <1>2, <2>2, RegisterSlots
  <2> QED BY <1>2, <2>1, <2>2 DEF OwnedInv
<1> QED BY <1>1, <1>2 DEF OwnedInv, Rng, Pending

\* The steps of the sender keep unsent commands nowhere.
LEMMA SenderNew ==
  ASSUME Types, IndexInv, NewInv, Sender
  PROVE  NewInv'
<1>o. NothingWoken
  BY SenderResolves, ResolvesWakeNothing
<1>q. QueueSize \in Nat /\ Slot = 0 .. QueueSize - 1
  BY QueueSizeType
<1>b. /\ batch \in Seq(Cmd) /\ Len(batch) \in Nat
      /\ batchStart \in Slot /\ nextIndex \in 0 .. QueueSize
  BY DEF Types, BatchTypes
<1>s. /\ \A c \in Cmd : c \in Rng(sendQueue') => c \in Rng(sendQueue)
      /\ \A c \in Cmd : c \in Rng(batch') => c \in Rng(batch) \/ c \in Rng(sendQueue)
  <2>1. CASE SenderGet
    <3>1. /\ sendQueue \in Seq(Cmd) /\ sendQueue # <<>> /\ sendQueue' = Tail(sendQueue)
          /\ batch' = batch \/ batch' = Append(batch, Head(sendQueue))
      BY <2>1 DEF SenderGet, Types, FutureTypes
    <3>2. Head(sendQueue) \in Cmd /\ Head(sendQueue) \in Rng(sendQueue)
          /\ Rng(Tail(sendQueue)) \subseteq Rng(sendQueue)
      BY <3>1, RngTail
    <3>3. Rng(Append(batch, Head(sendQueue))) = Rng(batch) \cup {Head(sendQueue)}
      BY <1>b, <3>2, RngAppend
    <3> QED BY <3>1, <3>2, <3>3
  <2>2. CASE ~SenderGet
    <3>1. sendQueue' = sendQueue /\ (batch' = batch \/ batch' = <<>>)
      BY <2>2 DEF Sender, SenderTop, SenderGetTimeout, SendUnavailable, SendReset,
                  SendWrite, ResetPublished, WritePublished, PublishFailed, SlotFree, Finish
    <3> QED BY <3>1, RngEmpty
  <2> QED BY <2>1, <2>2
<1>w. \A c \in Cmd : \A s \in Slot : waiting'[s].cmd = c => waiting[s].cmd = c \/ c \in Rng(batch)
  <2>1. CASE SendUnavailable
    BY <2>1, FailBatchLoss, DriverAssumption DEF SendUnavailable, SlotsKept
  <2>2. CASE PublishFailed
    BY <2>2, FailBatchLoss, DriverAssumption DEF PublishFailed, SlotsKept
  <2>3. CASE SendReset
    BY <2>3, DriverAssumption DEF SendReset, DrainPending, DrainTimers, timerVars, NoWaiter
  <2>4. CASE SendWrite
    <3>1. batchStart + Len(batch) <= QueueSize
      BY <2>4, <1>q, <1>b DEF SendWrite, IndexInv
    <3> QED BY <1>b, <2>4, <3>1, RegisterSlots DEF SendWrite
  <2>5. CASE ResetPublished
    <3>1. 0 \in Slot /\ 0 + Len(batch) <= QueueSize
      BY <2>5, <1>q, <1>b DEF ResetPublished, IndexInv
    <3> QED BY <2>5, <3>1, RegisterSlots DEF ResetPublished
  <2>6. CASE \/ SenderTop \/ SenderGet \/ SenderGetTimeout \/ WritePublished \/ SlotFree
    BY <2>6 DEF SenderTop, SenderGet, SenderGetTimeout, WritePublished, SlotFree, timerVars
  <2> QED BY <2>1, <2>2, <2>3, <2>4, <2>5, <2>6 DEF Sender
<1> QED BY <1>o, <1>s, <1>w, NewInvKept

\* The steps of the sender keep the debt of a reset empty.
LEMMA SenderResync ==
  ASSUME Types, NewInv, ResyncInv, Sender
  PROVE  ResyncInv'
<1>o. NothingWoken
  BY SenderResolves, ResolvesWakeNothing
<1>1. CASE SendUnavailable
  <2>1. /\ FailBatch(~synced) /\ (~synced) \in BOOLEAN /\ UNCHANGED sendQueue
        /\ pendingResync' = (pendingResync \/ ~synced) /\ reported' = reported
        /\ pc' # "resetting"
    BY <1>1 DEF SendUnavailable, Finish
  <2>2. SlotsKept /\ (~synced => PendingSlots' = {})
    BY <2>1, FailBatchLoss
  <2>3. reported \/ pendingResync => PendingSlots' = {}
    BY <1>o, <2>2, NoneShrink DEF ResyncInv
  <2> QED BY <2>1, <2>2, <2>3 DEF ResyncInv
<1>2. CASE SendReset
  <2>1. reported' = reported /\ ~reported /\ pendingResync' = TRUE
    BY <1>2 DEF SendReset, GatewayUnavailable
  <2>2. CASE synced
    <3>1. waiting' = waiting /\ pendingResync
      BY <1>2, <2>2 DEF SendReset, timerVars
    <3>2. SlotsKept /\ PendingSlots = {}
      BY <3>1 DEF SlotsKept, ResyncInv
    <3> QED BY <1>o, <2>1, <3>2, NoneShrink DEF ResyncInv
  <2>3. CASE ~synced
    <3>1. PendingSlots' = {}
      BY <1>2, <2>3 DEF SendReset, DrainPending, DrainTimers, PendingSlots, Pending, NoWaiter
    <3> QED BY <2>1, <3>1 DEF ResyncInv
  <2> QED BY <2>2, <2>3
<1>3. CASE SendWrite
  BY <1>3 DEF SendWrite, GatewayUnavailable, linkVars, ResyncInv
<1>4. CASE ResetPublished
  BY <1>4 DEF ResetPublished, ResyncInv
<1>5. CASE PublishFailed
  <2>1. FailBatch(TRUE) /\ UNCHANGED sendQueue /\ pc' # "resetting"
    BY <1>5 DEF PublishFailed, Finish
  <2>2. PendingSlots' = {}
    BY <2>1, FailBatchLoss
  <2> QED BY <2>1, <2>2 DEF ResyncInv
<1>6. CASE SenderTop \/ SenderGet \/ SenderGetTimeout \/ WritePublished \/ SlotFree
  <2>1. /\ waiting' = waiting /\ UNCHANGED <<reported, pendingResync>> /\ pc' # "resetting"
    BY <1>6 DEF SenderTop, SenderGet, SenderGetTimeout, WritePublished, SlotFree, Finish,
                timerVars, linkVars
  <2>2. SlotsKept
    BY <2>1 DEF SlotsKept
  <2>3. reported \/ pendingResync => PendingSlots' = {}
    BY <1>o, <2>2, NoneShrink DEF ResyncInv
  <2> QED BY <2>1, <2>3 DEF ResyncInv
<1> QED BY <1>1, <1>2, <1>3, <1>4, <1>5, <1>6 DEF Sender

\* The steps of the sender lose no command: the slots a batch takes are free
\* when it takes them.
LEMMA SenderRun ==
  ASSUME Types, IndexInv, NewInv, ResyncInv, SlotInv, Sender
  PROVE  SlotInv' /\ (OwnedInv => OwnedInv')
<1>o. NothingWoken /\ \A c \in Cmd : future'[c] = "pending" => future[c] = "pending"
  BY SenderResolves, ResolvesWakeNothing
<1>q. QueueSize \in Nat /\ QueueSize > 0 /\ Slot = 0 .. QueueSize - 1
  BY QueueSizeType
<1>b. /\ batch \in Seq(Cmd) /\ Len(batch) \in Nat
      /\ batchStart \in Slot /\ nextIndex \in 0 .. QueueSize
  BY DEF Types, BatchTypes
<1>n. ~(InSend /\ site = "end") => nextIndex \in Slot
  BY SlotRange
<1>1. CASE SenderTop
  <2>1. UNCHANGED <<waiting, future, sendQueue, batch, nextIndex>> /\ pc = "top"
    BY <1>1 DEF SenderTop, timerVars
  <2>2. OwnedInv => OwnedInv'
    BY <1>1, <2>1 DEF SenderTop, OwnedInv, Rng, Pending
  <2>3. SlotInv'
    <3>1. CASE Pending(waiting[nextIndex].cmd)
      BY <1>1, <2>1, <3>1 DEF SenderTop, SlotInv, InSend, Pending
    <3>2. CASE ~Pending(waiting[nextIndex].cmd)
      BY <1>1, <2>1, <3>2 DEF SenderTop, SlotInv, InSend, Pending
    <3> QED BY <3>1, <3>2
  <2> QED BY <2>2, <2>3
<1>2. CASE SenderGet
  <2>1. /\ UNCHANGED <<waiting, future, batchStart, slotCmd>> /\ pc = "get"
        /\ sendQueue # <<>> /\ sendQueue' = Tail(sendQueue) /\ pc' \in {"top", "cooldown"}
    BY <1>2 DEF SenderGet, timerVars
  <2>2. /\ Head(sendQueue) \in Cmd
        /\ Rng(sendQueue) \subseteq Rng(Tail(sendQueue)) \cup {Head(sendQueue)}
    BY <2>1, RngTail DEF Types, FutureTypes
  <2>3. CASE future[Head(sendQueue)] = "cancelled"
    <3>1. UNCHANGED <<batch, nextIndex, site>> /\ pc' = "top"
      BY <1>2, <2>3 DEF SenderGet
    <3>2. OwnedInv => OwnedInv'
      <4> SUFFICES ASSUME OwnedInv, NEW c \in Cmd, Pending(c)
                   PROVE  \/ c \in Rng(Tail(sendQueue)) \/ c \in Rng(batch)
                          \/ \E s \in Slot : waiting[s].cmd = c /\ waiting[s].armed
        BY <2>1, <3>1 DEF OwnedInv, Rng, Pending
      <4> QED BY <2>2, <2>3 DEF OwnedInv, Pending
    <3>3. SlotInv'
      BY <2>1, <3>1 DEF SlotInv, InSend, Pending
    <3> QED BY <3>2, <3>3
  <2>4. CASE future[Head(sendQueue)] # "cancelled"
    <3>1. /\ batch' = Append(batch, Head(sendQueue)) /\ nextIndex' = nextIndex + 1
          /\ pc' = "cooldown" => site' = "end"
      BY <1>2, <2>4 DEF SenderGet
    <3>2. Rng(Append(batch, Head(sendQueue))) = Rng(batch) \cup {Head(sendQueue)}
      BY <1>b, <2>2, RngAppend
    <3>3. OwnedInv => OwnedInv'
      <4> SUFFICES ASSUME OwnedInv, NEW c \in Cmd, Pending(c)
                   PROVE  \/ c \in Rng(Tail(sendQueue))
                          \/ c \in Rng(Append(batch, Head(sendQueue)))
                          \/ \E s \in Slot : waiting[s].cmd = c /\ waiting[s].armed
        BY <2>1, <3>1 DEF OwnedInv, Rng, Pending
      <4> QED BY <2>2, <3>2 DEF OwnedInv
    <3>4. ASSUME NEW s \in batchStart .. nextIndex PROVE ~Pending(waiting[s].cmd)
      <4>1. s \in batchStart .. nextIndex - 1 \/ s = nextIndex
        BY <1>q, <1>b
      <4> QED BY <2>1, <4>1 DEF SlotInv
    <3>5. batchStart' .. nextIndex' - 1 = batchStart .. nextIndex
      <4>1. \A x \in Int : \A y : y = x + 1 => y - 1 = x
        OBVIOUS
      <4>2. nextIndex \in Int
        BY <1>q, <1>b
      <4>3. nextIndex' - 1 = nextIndex
        BY <3>1, <4>1, <4>2, Zenon
      <4> QED BY <2>1, <4>3, Zenon
    <3>6. SlotInv'
      BY <2>1, <3>1, <3>4, <3>5 DEF SlotInv, InSend, Pending
    <3> QED BY <3>3, <3>6
  <2> QED BY <2>3, <2>4
<1>3. CASE SenderGetTimeout
  <2>1. /\ UNCHANGED <<waiting, future, sendQueue, batch, nextIndex>> /\ pc = "get"
        /\ pc' \in {"top", "cooldown"}
    BY <1>3 DEF SenderGetTimeout, timerVars
  <2>2. OwnedInv => OwnedInv'
    BY <2>1 DEF OwnedInv, Rng, Pending
  <2>3. SlotInv'
    <3>1. CASE batch = <<>>
      <4>1. pc' = "top" /\ batchStart' = nextIndex
        BY <1>3, <3>1 DEF SenderGetTimeout
      <4>2. nextIndex .. nextIndex - 1 = {}
        BY <1>b, <1>q
      <4> QED BY <2>1, <4>1, <4>2 DEF SlotInv, InSend
    <3>2. CASE batch # <<>>
      BY <1>3, <2>1, <3>2 DEF SenderGetTimeout, SlotInv, InSend, Pending
    <3> QED BY <3>1, <3>2
  <2> QED BY <2>2, <2>3
<1>4. CASE SendUnavailable
  <2>1. /\ FailBatch(~synced) /\ (~synced) \in BOOLEAN /\ UNCHANGED sendQueue /\ Finish /\ InSend
    BY <1>4 DEF SendUnavailable, InSend
  <2> QED BY <1>o, <2>1, FailBatchLoss, FlushSlots
<1>5. CASE SendReset
  <2>1. UNCHANGED <<sendQueue, batch, batchStart, nextIndex, site, slotCmd>>
        /\ pc = "cooldown" /\ pc' = "resetting"
    BY <1>5 DEF SendReset
  <2>2. \/ UNCHANGED <<waiting, future>>
        \/ waiting' = [s \in Slot |-> NoWaiter] /\ future' = Resolve(PendingWaiters, "unavailable")
    BY <1>5 DEF SendReset, DrainPending, DrainTimers, timerVars
  <2>3. SlotsKept
    BY <2>2 DEF SlotsKept, NoWaiter
  <2>4. SlotInv'
    <3>1. site = "slot" => (Pending(waiting[nextIndex].cmd)' => waiting'[nextIndex].cmd = slotCmd)
      BY <1>n, <1>o, <2>1, <2>3, SlotsShrink DEF SlotInv, InSend, Pending
    <3> QED BY <2>1, <3>1 DEF SlotInv
  <2>5. OwnedInv => OwnedInv'
    <3> SUFFICES ASSUME OwnedInv, NEW c \in Cmd, Pending(c)'
                 PROVE  \/ c \in Rng(sendQueue) \/ c \in Rng(batch)
                        \/ \E s \in Slot : waiting'[s].cmd = c /\ waiting'[s].armed
      BY <2>1 DEF OwnedInv, Rng
    <3>1. CASE UNCHANGED <<waiting, future>>
      BY <3>1 DEF OwnedInv, Pending
    <3>2. CASE future' = Resolve(PendingWaiters, "unavailable")
      <4>1. Pending(c) /\ c \notin PendingWaiters
        BY <3>2 DEF Resolve, Pending
      <4>2. \A s \in Slot : waiting[s].cmd # c
        BY <4>1 DEF PendingWaiters, PendingSlots
      <4> QED BY <4>1, <4>2 DEF OwnedInv
    <3> QED BY <2>2, <3>1, <3>2
  <2> QED BY <2>4, <2>5
<1>6. CASE SendWrite
  <2>1. /\ UNCHANGED <<future, sendQueue, batch, batchStart, nextIndex, site, slotCmd>>
        /\ pc = "cooldown" /\ pc' = "writing" /\ Register(batchStart)
    BY <1>6 DEF SendWrite, Register
  <2>2. batchStart + Len(batch) <= QueueSize /\ batchStart + Len(batch) = nextIndex
    BY <2>1, <1>q, <1>b DEF IndexInv
  <2>3. \A s \in Slot : s \in batchStart .. batchStart + Len(batch) - 1 => ~Pending(waiting[s].cmd)
    <3>1. \A s \in batchStart .. batchStart + Len(batch) - 1 : s \in batchStart .. nextIndex - 1
      BY <1>q, <1>b, <2>2
    <3> QED BY <2>1, <3>1 DEF SlotInv
  <2>4. OwnedInv => OwnedInv'
    BY <1>b, <2>1, <2>2, <2>3, RegisterOwned
  <2>5. SlotInv'
    <3>1. site = "slot" => waiting'[nextIndex] = waiting[nextIndex]
      <4>1. nextIndex \notin batchStart .. batchStart + Len(batch) - 1
        BY <1>q, <1>b, <2>2
      <4> QED BY <1>b, <1>n, <2>1, <2>2, <4>1, RegisterSlots DEF InSend
    <3> QED BY <2>1, <3>1 DEF SlotInv, InSend, Pending
  <2> QED BY <2>4, <2>5
<1>7. CASE ResetPublished
  <2>1. /\ UNCHANGED <<future, sendQueue, batch, site, slotCmd>> /\ nextIndex' = Len(batch)
        /\ pc = "resetting" /\ pc' \in {"writing", "refused"} /\ Register(0)
    BY <1>7 DEF ResetPublished, Register
  <2>2. 0 \in Slot /\ 0 + Len(batch) <= QueueSize /\ Len(batch) <= nextIndex
    BY <2>1, <1>q, <1>b DEF IndexInv
  <2>3. \A s \in Slot : ~Pending(waiting[s].cmd)
    BY <2>1 DEF ResyncInv, PendingSlots
  <2>4. OwnedInv => OwnedInv'
    BY <2>1, <2>2, <2>3, RegisterOwned
  <2>5. SlotInv'
    <3>1. site = "slot" => ~Pending(waiting[Len(batch)].cmd)'
      <4>1. Len(batch) \notin 0 .. 0 + Len(batch) - 1
        BY <1>b
      <4>2. site = "slot" => Len(batch) \in Slot
        BY <1>n, <1>q, <1>b, <2>2
      <4>3. site = "slot" => waiting'[Len(batch)] = waiting[Len(batch)]
        BY <2>1, <2>2, <4>1, <4>2, RegisterSlots
      <4> QED BY <2>1, <2>3, <4>2, <4>3 DEF Pending
    <3> QED BY <2>1, <3>1 DEF SlotInv, Pending
  <2> QED BY <2>4, <2>5
<1>8. CASE WritePublished
  <2>1. UNCHANGED <<waiting, future, sendQueue>> /\ pc = "writing" /\ Finish /\ InSend
    BY <1>8 DEF WritePublished, timerVars, InSend
  <2>2. OwnedInv => OwnedInv'
    BY <2>1 DEF OwnedInv, Rng, Pending
  <2>3. SlotsKept
    BY <2>1 DEF SlotsKept
  <2> QED BY <1>o, <2>1, <2>2, <2>3, FlushSlots
<1>9. CASE PublishFailed
  <2>1. FailBatch(TRUE) /\ UNCHANGED sendQueue /\ Finish /\ InSend
    BY <1>9 DEF PublishFailed, InSend
  <2> QED BY <1>o, <2>1, FailBatchLoss, FlushSlots
<1>10. CASE SlotFree
  <2>1. /\ UNCHANGED <<waiting, future, sendQueue, batch, batchStart, nextIndex, slotCmd>>
        /\ pc = "slot" /\ pc' = "get" /\ ~Pending(slotCmd)
    BY <1>10 DEF SlotFree, timerVars
  <2>2. OwnedInv => OwnedInv'
    BY <2>1 DEF OwnedInv, Rng, Pending
  <2>3. batchStart .. nextIndex - 1 = {}
    <3>1. Len(batch) = 0
      BY <2>1 DEF IndexInv
    <3>2. nextIndex - batchStart = 0
      BY <2>1, <3>1 DEF IndexInv
    <3> QED BY <1>q, <1>b, <3>2
  <2>4. SlotInv'
    BY <2>1, <2>3 DEF SlotInv, InSend, Pending
  <2> QED BY <2>2, <2>4
<1> QED
  BY <1>1, <1>2, <1>3, <1>4, <1>5, <1>6, <1>7, <1>8, <1>9, <1>10 DEF Sender
-----------------------------------------------------------------------------

\* The invariant holds at initialize.
LEMMA InitLoss == Init => IInv
<1> SUFFICES ASSUME Init PROVE IInv
  OBVIOUS
<1>1. TInv
  BY InitTypes, InitCalls DEF TInv
<1>2. NewInv
  BY RngEmpty, DriverAssumption DEF Init, NewInv, NoWaiter
<1>3. ResyncInv
  BY DEF Init, ResyncInv, PendingSlots, Pending, NoWaiter
<1>4. \A c \in Cmd : ~Pending(c)
  BY DEF Init, Pending
<1>5. OwnedInv
  BY <1>4 DEF OwnedInv
<1>6. SlotInv
  <2>1. 0 .. 0 - 1 = {}
    OBVIOUS
  <2> QED BY <2>1 DEF Init, SlotInv, InSend
<1> QED BY <1>1, <1>2, <1>3, <1>5, <1>6 DEF IInv, RunInv

\* Every step keeps the invariant, if reports are not handled within a reset.
LEMMA StepLoss ==
  ASSUME IInv, ~ReportDuringReset, [Next]_vars
  PROVE  IInv'
<1>t. TInv'
  BY TypesStep, CallInvStep DEF IInv, TInv
<1>1. CASE UNCHANGED vars
  <2>1. /\ UNCHANGED <<pc, site, slotCmd, batch, batchStart, nextIndex, waiting, future,
                       sendQueue, reported, pendingResync, deinit>>
    BY <1>1 DEF vars, senderVars, timerVars, linkVars
  <2>2. NewInv' /\ ResyncInv' /\ RunInv'
    BY <2>1 DEF IInv, NewInv, ResyncInv, RunInv, SlotInv, OwnedInv, InSend, Rng, PendingSlots,
                Pending
  <2> QED BY <1>t, <2>2 DEF IInv
<1>2. ASSUME NEW k \in Call, Caller(k) \/ CancelCall(k) PROVE IInv'
  BY <1>t, <1>2, CallerLoss DEF IInv
<1>3. CASE Sender
  <2>1. deinit' = deinit
    BY <1>3 DEF Sender, SenderTop, SenderGet, SenderGetTimeout, SendUnavailable, SendReset,
                SendWrite, ResetPublished, WritePublished, PublishFailed, SlotFree
  <2>2. NewInv' /\ ResyncInv'
    BY <1>3, SenderNew, SenderResync DEF IInv, TInv
  <2>3. SlotInv' /\ (OwnedInv => OwnedInv')
    BY <1>3, SenderRun DEF IInv, TInv, RunInv
  <2> QED BY <1>t, <2>1, <2>2, <2>3 DEF IInv, RunInv
<1>4. CASE \/ \E s \in Slot : Timeout(s) \/ OrphanTimeout(s)
           \/ Environment \/ Deinitialize \/ Deinitialized
  BY <1>t, <1>4, OthersLoss DEF IInv
<1> QED BY <1>1, <1>2, <1>3, <1>4 DEF Next

\* While the driver runs, every pending command is in the send queue, in the
\* batch or in a slot with an armed timer, whatever replies, timers, refused
\* publishes, reports, link losses and cancelled callers do, provided no
\* report is handled while a queue reset is being published (the README describes
\* what happens otherwise).
THEOREM DriverNoLostCommand ==
  ASSUME ~ReportDuringReset
  PROVE  Spec => []NoLostCommand
<1>1. Init => IInv
  BY InitLoss
<1>2. IInv /\ [Next]_vars => IInv'
  BY StepLoss
<1>3. IInv => NoLostCommand
  BY DEF IInv, RunInv, OwnedInv, NoLostCommand
<1> QED BY <1>1, <1>2, <1>3, PTL DEF Spec
-----------------------------------------------------------------------------
(* The slot a batch is written to *)

\* Nothing tells the driver that the gateway's queue pointer may have moved.
InStep == synced /\ connected /\ ~reported /\ ~pendingResync

\* The batch starts where the gateway's pointer stands.
PtrInv ==
    /\ InStep /\ pc \notin {"resetting", "stopped"} => gwPtr = batchStart
    /\ pc = "resetting" => gwPtr = 0
    /\ pc = "refused" => ~connected \/ ~synced

\* The pointer moves past the batch that is written.
LEMMA PtrAfterWrite ==
  ASSUME Types, IndexInv, pc = "writing", gwPtr = batchStart, WritePublished
  PROVE  gwPtr' = batchStart'
<1>1. /\ nextIndex \in 0 .. QueueSize /\ batchStart \in 0 .. QueueSize - 1
      /\ Len(batch) = nextIndex - batchStart /\ QueueSize \in Nat /\ QueueSize > 0
  BY QueueSizeType DEF Types, BatchTypes, IndexInv
<1>2. gwPtr' = (batchStart + Len(batch)) % QueueSize
  BY <1>1 DEF WritePublished, UnknownPtr
<1>3. batchStart + Len(batch) = nextIndex
  BY <1>1
<1>4. batchStart' = IF nextIndex = QueueSize THEN 0 ELSE nextIndex
  BY DEF WritePublished, Finish
<1>5. QueueSize % QueueSize = 0 /\ \A x \in 0 .. QueueSize - 1 : x % QueueSize = x
  BY <1>1
<1> QED BY <1>1, <1>2, <1>3, <1>4, <1>5

\* Every step keeps the two together, or makes the driver owe a reset.
LEMMA PtrStep ==
  ASSUME Types, IndexInv, ResyncInv, PtrInv, ~RefusedPublish, ~MayDeinit, ~ReportDuringReset,
         deinit = "no", [Next]_vars
  PROVE  PtrInv' /\ (pc # "writing" /\ pc' = "writing" => batchStart' = gwPtr) /\ deinit' = "no"
<1>0. /\ connected \in BOOLEAN /\ synced \in BOOLEAN /\ reported \in BOOLEAN
      /\ pendingResync \in BOOLEAN /\ batch \in Seq(Cmd)
  BY DEF Types, LinkTypes, BatchTypes
<1> DEFINE Goal == PtrInv' /\ (pc # "writing" /\ pc' = "writing" => batchStart' = gwPtr)
                   /\ deinit' = "no"
<1> USE DEF PtrInv, InStep
<1>1. CASE UNCHANGED vars
  BY <1>1 DEF vars, senderVars, linkVars, gwVars
<1>2. ASSUME NEW k \in Call, Caller(k) \/ CancelCall(k) PROVE Goal
  <2>1. UNCHANGED <<senderVars, linkVars, gwVars, deinit>>
    BY <1>2 DEF Caller, CallUnavailable, CallStart, AcquireLock, SequenceRefused, SequenceBlocks, Put, Gathered,
                CancelCall
  <2> QED BY <2>1 DEF senderVars, linkVars, gwVars
<1>3. CASE \E s \in Slot : Timeout(s) \/ OrphanTimeout(s)
  <2>1. UNCHANGED <<senderVars, linkVars, gwVars, deinit>>
    BY <1>3 DEF Timeout, OrphanTimeout
  <2> QED BY <2>1 DEF senderVars, linkVars, gwVars
<1>4. CASE Environment
  <2>1. UNCHANGED senderVars /\ UNCHANGED deinit
    BY <1>4 DEF Environment, Reply, ReplyLost, ReportUnreachable, ReportReachable,
                ConnectionLost, ConnectionRestored
  <2>2. CASE Reply \/ ReplyLost
    BY <2>1, <2>2 DEF Reply, ReplyLost, senderVars, linkVars
  <2>3. CASE ReportUnreachable
    BY <2>1, <2>3 DEF ReportUnreachable, senderVars
  <2>4. CASE ReportReachable
    BY <2>1, <2>4 DEF ReportReachable, senderVars, ResyncInv
  <2>5. CASE ConnectionLost
    BY <2>1, <2>5 DEF ConnectionLost, senderVars, gwVars
  <2>6. CASE ConnectionRestored
    BY <2>1, <2>6 DEF ConnectionRestored, senderVars, gwVars
  <2> QED BY <1>4, <2>2, <2>3, <2>4, <2>5, <2>6 DEF Environment
<1>5. CASE Deinitialize \/ Deinitialized
  BY <1>5 DEF Deinitialize, Deinitialized
<1>6. CASE Sender
  <2>1. CASE SenderTop
    <3>1. batch = <<>> => batchStart = nextIndex
      <4>1. Len(<<>>) = 0
        OBVIOUS
      <4> QED BY <2>1, <4>1, QueueSizeType DEF SenderTop, IndexInv, Types, BatchTypes
    <3> QED BY <2>1, <3>1 DEF SenderTop, linkVars, gwVars
  <2>2. CASE SenderGet
    BY <2>2 DEF SenderGet, linkVars, gwVars
  <2>3. CASE SenderGetTimeout
    <3>1. batch = <<>> => batchStart = nextIndex
      <4>1. Len(<<>>) = 0
        OBVIOUS
      <4> QED BY <2>3, <4>1, QueueSizeType DEF SenderGetTimeout, IndexInv, Types, BatchTypes
    <3> QED BY <2>3, <3>1 DEF SenderGetTimeout, linkVars, gwVars
  <2>4. CASE SendUnavailable
    BY <1>0, <2>4 DEF SendUnavailable, Finish, GatewayUnavailable, gwVars
  <2>5. CASE SendReset
    BY <2>5 DEF SendReset
  <2>6. CASE SendWrite
    BY <1>0, <2>6 DEF SendWrite, GatewayUnavailable, linkVars, gwVars
  <2>7. CASE ResetPublished
    BY <1>0, <2>7 DEF ResetPublished
  <2>8. CASE WritePublished
    <3>1. pc = "writing" /\ pc' \in {"slot", "top"} /\ UNCHANGED <<linkVars, deinit>>
      BY <2>8 DEF WritePublished, Finish
    <3>2. InStep' => gwPtr' = batchStart'
      BY <2>8, <3>1, PtrAfterWrite DEF linkVars
    <3> QED BY <3>1, <3>2
  <2>9. CASE PublishFailed
    BY <1>0, <2>9 DEF PublishFailed, Finish, linkVars
  <2>10. CASE SlotFree
    BY <2>10 DEF SlotFree, linkVars, gwVars
  <2> QED BY <1>6, <2>1, <2>2, <2>3, <2>4, <2>5, <2>6, <2>7, <2>8, <2>9, <2>10 DEF Sender
<1> QED BY <1>1, <1>2, <1>3, <1>4, <1>5, <1>6 DEF Next

\* A batch is handed to the client for the slot where the gateway's queue
\* pointer stands, for any queue length, whatever link losses, reports,
\* timeouts and cancelled callers come in between; provided the MQTT client
\* refuses no publish on a live link, no report is handled while a reset is
\* being published, and the driver is not being deinitialized.
THEOREM DriverWritesContinueQueue ==
  ASSUME ~RefusedPublish, ~MayDeinit, ~ReportDuringReset
  PROVE  Spec => WritesContinueQueue
<1> DEFINE Inv == IInv /\ PtrInv /\ deinit = "no"
           Cont == pc # "writing" /\ pc' = "writing" => batchStart' = gwPtr
<1>1. Init => Inv
  BY InitLoss, DriverAssumption DEF Init, PtrInv, InStep
<1>2. Inv /\ [Next]_vars => Inv' /\ [Cont]_vars
  <2> SUFFICES ASSUME Inv, [Next]_vars PROVE Inv' /\ [Cont]_vars
    OBVIOUS
  <2>1. IInv'
    BY StepLoss
  <2>2. PtrInv' /\ Cont /\ deinit' = "no"
    BY PtrStep DEF IInv, TInv
  <2> QED BY <2>1, <2>2
<1> QED BY <1>1, <1>2, PTL DEF Spec, WritesContinueQueue
-----------------------------------------------------------------------------
(* Whose answer a caller gets *)

\* A command is on its way once.
OnceInv == \A i, j \in 1 .. Len(Way) : Way[i] = Way[j] => i = j

\* A command the gateway holds was sent; while a caller waits for it, its
\* slot is its own. The gateway holds no command twice and none that is still
\* on its way.
HeldInv ==
    /\ \A i \in 1 .. Len(rpc) :
          /\ future[rpc[i].cmd] # "new"
          /\ future[rpc[i].cmd] = "pending" => waiting[rpc[i].slot].cmd = rpc[i].cmd
          /\ rpc[i].cmd \notin Rng(batch) \cup Rng(sendQueue)
    /\ \A i, j \in 1 .. Len(rpc) : rpc[i].cmd = rpc[j].cmd => i = j

\* The same for the batch that is being published.
WriteInv ==
    pc = "writing" =>
        \A i \in 1 .. Len(batch) :
            future[batch[i]] = "pending" => waiting[batchStart + i - 1].cmd = batch[i]

\* A command that was answered, to whomever, is neither with the gateway nor
\* on its way: there is no second answer to it.
OwnerInv ==
    \A c \in Cmd :
        /\ future[c] = "answered" => answer[c] # NoCmd
        /\ answer[c] # NoCmd =>
              /\ future[answer[c]] # "new"
              /\ answer[c] \notin Rng(batch) \cup Rng(sendQueue)
              /\ \A i \in 1 .. Len(rpc) : rpc[i].cmd # answer[c]

AnswerInv == HeldInv /\ WriteInv /\ OwnerInv /\ WrongAnswerIsLate

\* Every command the gateway holds names a slot.
LEMMA RpcType ==
  ASSUME Types, NEW i \in 1 .. Len(rpc)
  PROVE  rpc[i].slot \in Slot /\ rpc[i].cmd \in Cmd
<1>1. rpc \in Seq([slot : Slot, cmd : Cmd])
  BY DEF Types, GwTypes
<1>2. rpc[i] \in [slot : Slot, cmd : Cmd]
  BY <1>1, ElementOfSeq, Zenon
<1> QED BY <1>2

\* A waiter has a command or none.
LEMMA WaiterType ==
  ASSUME Types, NEW s \in Slot
  PROVE  waiting[s].cmd \in Cmd \cup {NoCmd}
  BY DEF Types, SlotTypes, Waiters

\* The slots of a batch.
LEMMA BatchSlots ==
  ASSUME Types, IndexInv, pc # "stopped", NEW i \in 1 .. Len(batch)
  PROVE  batchStart + i - 1 \in Slot /\ batchStart + i - 1 \in batchStart .. nextIndex - 1
<1>1. /\ nextIndex \in 0 .. QueueSize /\ batchStart \in 0 .. QueueSize - 1
      /\ Len(batch) = nextIndex - batchStart /\ QueueSize \in Nat /\ Slot = 0 .. QueueSize - 1
  BY QueueSizeType DEF Types, BatchTypes, IndexInv
<1> QED BY <1>1

\* The oldest command leaves the gateway.
LEMMA HeadGone ==
  ASSUME Types, rpc # <<>>, rpc' = Tail(rpc)
  PROVE  /\ 1 \in 1 .. Len(rpc) /\ Head(rpc) = rpc[1]
         /\ \A i \in 1 .. Len(rpc') : i + 1 \in 1 .. Len(rpc) /\ rpc'[i] = rpc[i + 1]
  BY DEF Types, GwTypes

\* Batch and queue share no command, and a batch holds none twice.
LEMMA WayParts ==
  ASSUME Types, OnceInv
  PROVE  /\ Rng(batch) \cap Rng(sendQueue) = {}
         /\ \A i, j \in 1 .. Len(batch) : batch[i] = batch[j] => i = j
<1>0. batch \in Seq(Cmd) /\ sendQueue \in Seq(Cmd) /\ Len(batch) \in Nat /\ Len(sendQueue) \in Nat
  BY DEF Types, FutureTypes, BatchTypes
<1>1. /\ Len(Way) = Len(batch) + Len(sendQueue)
      /\ \A i \in 1 .. Len(batch) : Way[i] = batch[i]
      /\ \A i \in 1 .. Len(sendQueue) : Way[Len(batch) + i] = sendQueue[i]
  BY <1>0, ConcatAt DEF Way
<1>2. ASSUME NEW i \in 1 .. Len(batch), NEW j \in 1 .. Len(sendQueue) PROVE batch[i] # sendQueue[j]
  <2>1. i \in 1 .. Len(Way) /\ Len(batch) + j \in 1 .. Len(Way) /\ i # Len(batch) + j
    BY <1>0, <1>1
  <2>2. Way[i] # Way[Len(batch) + j]
    BY <2>1 DEF OnceInv
  <2> QED BY <1>1, <2>2
<1>3. ASSUME NEW i \in 1 .. Len(batch), NEW j \in 1 .. Len(batch), batch[i] = batch[j] PROVE i = j
  <2>1. i \in 1 .. Len(Way) /\ j \in 1 .. Len(Way)
    BY <1>0, <1>1
  <2> QED BY <1>1, <1>3, <2>1 DEF OnceInv
<1> QED BY <1>2, <1>3 DEF Rng

\* No command is on its way twice.
LEMMA OnceStep ==
  ASSUME Types, CallInv, NewInv, OnceInv, [Next]_vars
  PROVE  OnceInv'
<1>0. /\ batch \in Seq(Cmd) /\ sendQueue \in Seq(Cmd) /\ Way \in Seq(Cmd) /\ Len(Way) \in Nat
      /\ Len(batch) \in Nat /\ Len(sendQueue) \in Nat
  BY ConcatAt DEF Types, FutureTypes, BatchTypes, Way
<1>1. ASSUME NEW k \in Call, Put(k) PROVE OnceInv'
  <2> DEFINE c == CurrentCmd(k)
  <2>1. c \in Cmd /\ future[c] = "new"
    BY <1>1, CurrentIsNew, CurrentCmdType DEF Put
  <2>2. \A i \in 1 .. Len(Way) : Way[i] # c
    <3>1. c \notin Rng(sendQueue) /\ c \notin Rng(batch)
      BY <2>1 DEF NewInv
    <3>2. /\ Len(Way) = Len(batch) + Len(sendQueue)
          /\ \A i \in 1 .. Len(batch) : Way[i] = batch[i]
          /\ \A i \in 1 .. Len(sendQueue) : Way[Len(batch) + i] = sendQueue[i]
      BY <1>0, ConcatAt DEF Way
    <3>3. ASSUME NEW i \in 1 .. Len(Way) PROVE Way[i] \in Rng(batch) \cup Rng(sendQueue)
      <4>1. i \in 1 .. Len(batch) \/ (i - Len(batch) \in 1 .. Len(sendQueue) /\ Len(batch) + (i - Len(batch)) = i)
        BY <1>0, <3>2
      <4>2. CASE i \in 1 .. Len(batch)
        BY <3>2, <4>2 DEF Rng
      <4>3. CASE i - Len(batch) \in 1 .. Len(sendQueue) /\ Len(batch) + (i - Len(batch)) = i
        <5>1. Way[Len(batch) + (i - Len(batch))] = sendQueue[i - Len(batch)]
          BY <3>2, <4>3, Zenon
        <5> QED BY <4>3, <5>1 DEF Rng
      <4> QED BY <4>1, <4>2, <4>3
    <3> QED BY <3>1, <3>3
  <2>3. Way' = Append(Way, c)
    <3>1. batch' = batch /\ sendQueue' = Append(sendQueue, c)
      BY <1>1 DEF Put, senderVars
    <3>2. batch \o Append(sendQueue, c) = Append(batch \o sendQueue, c)
      BY <1>0, <2>1
    <3> QED BY <3>1, <3>2 DEF Way
  <2> HIDE DEF c
  <2>4. /\ Len(Way') = Len(Way) + 1 /\ Way'[Len(Way) + 1] = c
        /\ \A i \in 1 .. Len(Way) : Way'[i] = Way[i]
    BY <1>0, <2>1, <2>3
  <2> QED BY <1>0, <2>2, <2>4 DEF OnceInv
<1>2. CASE \A k \in Call : ~Put(k)
  <2>1. PICK f : Picked(f, Way', Way)
    BY <1>2, OnlyPutAdds
  <2> DEFINE v == Way'
             w == Way
  <2>2. /\ f \in [1 .. Len(v) -> 1 .. Len(w)]
        /\ \A i, j \in 1 .. Len(v) : i < j => f[i] < f[j]
        /\ \A i \in 1 .. Len(v) : v[i] = w[f[i]]
    BY <2>1 DEF Picked
  <2>3. \A i, j \in 1 .. Len(w) : w[i] = w[j] => i = j
    BY DEF OnceInv
  <2> HIDE DEF v, w
  <2>4. ASSUME NEW i \in 1 .. Len(v), NEW j \in 1 .. Len(v), v[i] = v[j] PROVE i = j
    <3>1. f[i] \in 1 .. Len(w) /\ f[j] \in 1 .. Len(w) /\ f[i] = f[j]
      BY <2>2, <2>3, <2>4
    <3>2. ~(f[i] < f[j]) /\ ~(f[j] < f[i])
      BY <3>1
    <3> QED BY <2>2, <3>2
  <2> QED BY <2>4 DEF OnceInv, v
<1> QED BY <1>1, <1>2

\* Nothing wakes in any step.
LEMMA StepWakesNothing ==
  ASSUME Types, CallInv, [Next]_vars
  PROVE  NothingWoken
<1>1. CASE UNCHANGED vars
  BY <1>1 DEF vars, NothingWoken
<1>2. ASSUME NEW k \in Call, Caller(k) \/ CancelCall(k) PROVE NothingWoken
  <2>1. CASE OnlyResolves
    BY <2>1, ResolvesWakeNothing
  <2>2. CASE \A c \in Cmd : future'[c] # future[c] => future[c] = "new" /\ future'[c] # "new"
    BY <2>2 DEF NothingWoken
  <2> QED BY <1>2, <2>1, <2>2, CallerFutures
<1>3. CASE \/ Sender \/ \E s \in Slot : Timeout(s) \/ OrphanTimeout(s)
           \/ Environment \/ Deinitialize \/ Deinitialized
  BY <1>3, SenderResolves, OthersResolve, ResolvesWakeNothing
<1> QED BY <1>1, <1>2, <1>3 DEF Next

\* A slot whose command stays pending keeps it.
WaitersKept ==
    \A s \in Slot : Pending(waiting[s].cmd) /\ future'[waiting[s].cmd] = "pending" =>
        waiting'[s].cmd = waiting[s].cmd

\* What comes on its way was on it, or is new.
WayKept ==
    \A c \in Cmd : c \in Rng(batch') \cup Rng(sendQueue') =>
        c \in Rng(batch) \cup Rng(sendQueue) \/ future[c] = "new"

\* The batch that is being published is the one that was, or just registered.
WriteKept ==
    pc' = "writing" =>
        \/ pc = "writing" /\ UNCHANGED <<batch, batchStart>>
        \/ \A i \in 1 .. Len(batch') : waiting'[batchStart' + i - 1].cmd = batch'[i]

\* Steps in which the gateway takes nothing, and gives away n commands.
LEMMA HeldKept ==
  ASSUME Types, IndexInv, NewInv, HeldInv, WriteInv, NothingWoken, WaitersKept, WayKept, WriteKept,
         NEW n \in Nat, \A i \in 1 .. Len(rpc') : i + n \in 1 .. Len(rpc) /\ rpc'[i] = rpc[i + n]
  PROVE  HeldInv' /\ WriteInv'
<1>1. ASSUME NEW i \in 1 .. Len(rpc')
      PROVE  /\ future'[rpc'[i].cmd] # "new"
             /\ future'[rpc'[i].cmd] = "pending" => waiting'[rpc'[i].slot].cmd = rpc'[i].cmd
             /\ rpc'[i].cmd \notin Rng(batch') \cup Rng(sendQueue')
  <2>1. PICK j \in 1 .. Len(rpc) : rpc'[i] = rpc[j]
    BY Zenon
  <2>2. /\ rpc[j].slot \in Slot /\ rpc[j].cmd \in Cmd /\ future[rpc[j].cmd] # "new"
        /\ future[rpc[j].cmd] = "pending" => waiting[rpc[j].slot].cmd = rpc[j].cmd
        /\ rpc[j].cmd \notin Rng(batch) \cup Rng(sendQueue)
    BY RpcType DEF HeldInv
  <2>3. future'[rpc[j].cmd] # "new"
    BY <2>2 DEF NothingWoken
  <2>4. ASSUME future'[rpc[j].cmd] = "pending" PROVE waiting'[rpc[j].slot].cmd = rpc[j].cmd
    <3>1. future[rpc[j].cmd] = "pending"
      BY <2>2, <2>4 DEF NothingWoken
    <3>2. waiting[rpc[j].slot].cmd = rpc[j].cmd /\ rpc[j].cmd # NoCmd
      BY <2>2, <3>1, DriverAssumption
    <3> QED BY <2>2, <2>4, <3>1, <3>2 DEF WaitersKept, Pending
  <2>5. rpc[j].cmd \notin Rng(batch') \cup Rng(sendQueue')
    BY <2>2 DEF WayKept
  <2> QED BY <2>1, <2>3, <2>4, <2>5
<1>2. ASSUME NEW i \in 1 .. Len(rpc'), NEW j \in 1 .. Len(rpc'), rpc'[i].cmd = rpc'[j].cmd
      PROVE  i = j
  <2>0. /\ i + n \in 1 .. Len(rpc) /\ j + n \in 1 .. Len(rpc)
        /\ rpc[i + n].cmd = rpc[j + n].cmd
    BY <1>2
  <2>1. i + n = j + n
    BY <2>0 DEF HeldInv
  <2> QED BY <2>1
<1>3. WriteInv'
  <2> SUFFICES ASSUME pc' = "writing", NEW i \in 1 .. Len(batch'), future'[batch'[i]] = "pending"
               PROVE  waiting'[batchStart' + i - 1].cmd = batch'[i]
    BY DEF WriteInv
  <2>1. CASE pc = "writing" /\ UNCHANGED <<batch, batchStart>>
    <3>1. batch[i] \in Rng(batch) /\ batch[i] \in Cmd /\ batch[i] # NoCmd
      BY <2>1, RngType, DriverAssumption DEF Rng, Types, BatchTypes
    <3>2. future[batch[i]] = "pending"
      BY <2>1, <3>1 DEF NothingWoken, NewInv
    <3>3. waiting[batchStart + i - 1].cmd = batch[i] /\ batchStart + i - 1 \in Slot
      BY <2>1, <3>2, BatchSlots DEF WriteInv
    <3>4. waiting'[batchStart + i - 1].cmd = batch[i]
      BY <2>1, <3>1, <3>2, <3>3 DEF WaitersKept, Pending
    <3> QED BY <2>1, <3>4
  <2> QED BY <2>1 DEF WriteKept
<1> QED BY <1>1, <1>2, <1>3 DEF HeldInv

\* Steps in which nobody gets an answer.
LEMMA OwnersKept ==
  ASSUME Types, OwnerInv, WrongAnswerIsLate, NothingWoken, WayKept, answer' = answer,
         \A c \in Cmd : future'[c] = "answered" => future[c] = "answered",
         \A i \in 1 .. Len(rpc') : \E j \in 1 .. Len(rpc) : rpc'[i] = rpc[j]
  PROVE  OwnerInv' /\ WrongAnswerIsLate'
<1>0. \A c \in Cmd : answer[c] \in Cmd \cup {NoCmd}
  BY DEF Types, FutureTypes
<1>1. OwnerInv'
  <2> SUFFICES ASSUME NEW c \in Cmd, answer[c] # NoCmd
               PROVE  /\ future'[answer[c]] # "new"
                      /\ answer[c] \notin Rng(batch') \cup Rng(sendQueue')
                      /\ \A i \in 1 .. Len(rpc') : rpc'[i].cmd # answer[c]
    BY DEF OwnerInv
  <2>1. /\ answer[c] \in Cmd /\ future[answer[c]] # "new"
        /\ answer[c] \notin Rng(batch) \cup Rng(sendQueue)
        /\ \A i \in 1 .. Len(rpc) : rpc[i].cmd # answer[c]
    BY <1>0 DEF OwnerInv
  <2> QED BY <2>1 DEF NothingWoken, WayKept
<1>2. WrongAnswerIsLate'
  <2> SUFFICES ASSUME NEW c \in Cmd, future'[c] = "answered", answer[c] # c
               PROVE  /\ future'[answer[c]] \notin {"new", "pending"}
                      /\ answer[answer[c]] # answer[c]
    BY DEF WrongAnswerIsLate
  <2>1. /\ answer[c] \in Cmd /\ future[answer[c]] \notin {"new", "pending"}
        /\ answer[answer[c]] # answer[c]
    BY <1>0 DEF OwnerInv, WrongAnswerIsLate
  <2> QED BY <2>1 DEF NothingWoken
<1> QED BY <1>1, <1>2

\* A reply goes to the waiter of its slot. If that is another command's, the
\* caller of the command that is answered waits no more.
LEMMA ReplyAnswers ==
  ASSUME Types, IndexInv, NewInv, AnswerInv, NothingWoken, Reply
  PROVE  AnswerInv'
<1> DEFINE s == Head(rpc).slot
           x == Head(rpc).cmd
           w == waiting[s].cmd
<1>1. /\ rpc # <<>> /\ rpc' = Tail(rpc) /\ UNCHANGED <<sendQueue, pc, batch, batchStart>>
      /\ waiting' = [waiting EXCEPT ![s].armed = FALSE]
      /\ IF Pending(w) THEN /\ future' = [future EXCEPT ![w] = "answered"]
                            /\ answer' = [answer EXCEPT ![w] = x]
         ELSE UNCHANGED <<future, answer>>
  BY DEF Reply, senderVars
<1>2. /\ 1 \in 1 .. Len(rpc) /\ Head(rpc) = rpc[1]
      /\ \A i \in 1 .. Len(rpc') : i + 1 \in 1 .. Len(rpc) /\ rpc'[i] = rpc[i + 1]
  BY <1>1, HeadGone
<1>3. s \in Slot /\ x \in Cmd /\ w \in Cmd \cup {NoCmd}
  BY <1>2, RpcType, WaiterType
<1>4. \A t \in Slot : waiting'[t].cmd = waiting[t].cmd
  BY <1>1, <1>3 DEF Types, SlotTypes, Waiters
<1>5. WaitersKept /\ WayKept /\ WriteKept
  BY <1>1, <1>4 DEF WaitersKept, WayKept, WriteKept, Rng
<1>6. HeldInv' /\ WriteInv'
  BY <1>2, <1>5, HeldKept DEF AnswerInv
<1>7. /\ future[x] # "new" /\ x \notin Rng(batch) \cup Rng(sendQueue)
      /\ future[x] = "pending" => w = x
      /\ \A i \in 1 .. Len(rpc') : rpc'[i].cmd # x
  <2>1. \A i \in 1 .. Len(rpc') : rpc'[i].cmd # x
    <3> SUFFICES ASSUME NEW i \in 1 .. Len(rpc'), rpc[i + 1].cmd = rpc[1].cmd PROVE FALSE
      BY <1>2
    <3>1. i + 1 = 1
      BY <1>2 DEF AnswerInv, HeldInv
    <3> QED BY <3>1
  <2> QED BY <1>2, <2>1 DEF AnswerInv, HeldInv
<1>8. \A c \in Cmd : answer[c] # NoCmd => answer[c] # x
  BY <1>2 DEF AnswerInv, OwnerInv
<1>9. \A i \in 1 .. Len(rpc') : \E j \in 1 .. Len(rpc) : rpc'[i] = rpc[j]
  BY <1>2
<1>10. CASE ~Pending(w)
  <2>1. UNCHANGED <<future, answer>>
    BY <1>1, <1>10
  <2> QED BY <1>5, <1>6, <1>9, <2>1, OwnersKept DEF AnswerInv
<1>11. CASE Pending(w)
  <2> HIDE DEF s, x, w
  <2>1. /\ w \in Cmd /\ future[w] = "pending"
        /\ future \in [Cmd -> FutureStates] /\ answer \in [Cmd -> Cmd \cup {NoCmd}]
    BY <1>3, <1>11 DEF Pending, Types, FutureTypes
  <2>2. /\ future'[w] = "answered" /\ answer'[w] = x
        /\ \A c \in Cmd : c # w => future'[c] = future[c] /\ answer'[c] = answer[c]
    BY <1>1, <1>11, <2>1
  <2>3. x # NoCmd /\ NoCmd \notin Cmd
    BY <1>3, DriverAssumption
  <2>4. future'[x] # "new"
    BY <1>3, <1>7, <2>2
  <2>5. OwnerInv'
    <3> SUFFICES ASSUME NEW c \in Cmd
                 PROVE  /\ future'[c] = "answered" => answer'[c] # NoCmd
                        /\ answer'[c] # NoCmd =>
                             /\ future'[answer'[c]] # "new"
                             /\ answer'[c] \notin Rng(batch') \cup Rng(sendQueue')
                             /\ \A i \in 1 .. Len(rpc') : rpc'[i].cmd # answer'[c]
      BY DEF OwnerInv
    <3>0. Rng(batch') = Rng(batch) /\ Rng(sendQueue') = Rng(sendQueue)
      BY <1>1
    <3>1. CASE c = w
      BY <1>7, <2>2, <2>3, <2>4, <3>0, <3>1
    <3>2. CASE c # w
      <4>1. answer'[c] = answer[c] /\ future'[c] = future[c] /\ answer[c] \in Cmd \cup {NoCmd}
        BY <2>1, <2>2, <3>2
      <4>2. answer[c] # NoCmd => future'[answer[c]] # "new"
        BY <2>1, <2>2, <4>1 DEF AnswerInv, OwnerInv
      <4>3. answer[c] # NoCmd => \A i \in 1 .. Len(rpc') : rpc'[i].cmd # answer[c]
        BY <1>9 DEF AnswerInv, OwnerInv
      <4> QED BY <3>0, <4>1, <4>2, <4>3 DEF AnswerInv, OwnerInv
    <3> QED BY <3>1, <3>2
  <2>6. WrongAnswerIsLate'
    <3> SUFFICES ASSUME NEW c \in Cmd, future'[c] = "answered", answer'[c] # c
                 PROVE  /\ future'[answer'[c]] \notin {"new", "pending"}
                        /\ answer'[answer'[c]] # answer'[c]
      BY DEF WrongAnswerIsLate
    <3>1. CASE c = w
      <4>1. x # w /\ future[x] \notin {"new", "pending"}
        BY <1>7, <2>2, <3>1
      <4>2. future'[x] = future[x] /\ answer'[x] = answer[x]
        BY <1>3, <2>2, <4>1
      <4>3. answer[x] # x
        BY <1>3, <1>8, <2>3
      <4> QED BY <2>2, <3>1, <4>1, <4>2, <4>3
    <3>2. CASE c # w
      <4>1. answer'[c] = answer[c] /\ future[c] = "answered"
        BY <2>2, <3>2
      <4>2. /\ answer[c] \in Cmd /\ future[answer[c]] \notin {"new", "pending"}
            /\ answer[answer[c]] # answer[c]
        BY <2>1, <4>1 DEF AnswerInv, OwnerInv, WrongAnswerIsLate
      <4>3. answer[c] # w
        BY <2>1, <4>2
      <4> QED BY <2>2, <4>1, <4>2, <4>3
    <3> QED BY <3>1, <3>2
  <2> QED BY <1>6, <2>5, <2>6 DEF AnswerInv
<1> QED BY <1>10, <1>11

\* The batch was published: its commands are the gateway's now.
LEMMA WrittenAnswers ==
  ASSUME Types, IndexInv, NewInv, OnceInv, AnswerInv, WritePublished
  PROVE  AnswerInv'
<1> DEFINE wr == [i \in 1 .. Len(batch) |-> [slot |-> batchStart + i - 1, cmd |-> batch[i]]]
<1>1. /\ pc = "writing" /\ pc' # "writing" /\ batch' = <<>> /\ rpc' = rpc \o wr
      /\ UNCHANGED <<waiting, sendQueue, future, answer>>
  BY DEF WritePublished, Finish, timerVars
<1>2. /\ Len(batch) \in Nat /\ Len(rpc) \in Nat /\ batch \in Seq(Cmd)
      /\ rpc \in Seq([slot : Slot, cmd : Cmd])
  BY DEF Types, BatchTypes, GwTypes
<1>3. \A i \in 1 .. Len(batch) : batchStart + i - 1 \in Slot
  BY <1>1, BatchSlots
<1>4. /\ Len(rpc') = Len(rpc) + Len(batch)
      /\ \A i \in 1 .. Len(rpc) : rpc'[i] = rpc[i]
      /\ \A i \in 1 .. Len(batch) : /\ rpc'[Len(rpc) + i].slot = batchStart + i - 1
                                    /\ rpc'[Len(rpc) + i].cmd = batch[i]
  <2>1. wr \in Seq([slot : Slot, cmd : Cmd]) /\ Len(wr) = Len(batch)
    <3>1. \A i \in 1 .. Len(batch) : wr[i] \in [slot : Slot, cmd : Cmd]
      BY <1>2, <1>3
    <3>2. wr \in [1 .. Len(batch) -> [slot : Slot, cmd : Cmd]]
      BY <3>1
    <3> QED BY <1>2, <3>2
  <2>2. \A i \in 1 .. Len(batch) : wr[i].slot = batchStart + i - 1 /\ wr[i].cmd = batch[i]
    OBVIOUS
  <2> HIDE DEF wr
  <2>3. PICK S, w : S = [slot : Slot, cmd : Cmd] /\ w = wr
    OBVIOUS
  <2>4. rpc \in Seq(S) /\ w \in Seq(S)
    BY <1>2, <2>1, <2>3
  <2>5. /\ Len(rpc \o w) = Len(rpc) + Len(w)
        /\ \A i \in 1 .. Len(rpc) : (rpc \o w)[i] = rpc[i]
        /\ \A i \in 1 .. Len(w) : (rpc \o w)[Len(rpc) + i] = w[i]
    BY ONLY <2>4, ConcatAt
  <2>6. rpc' = rpc \o w /\ Len(w) = Len(batch)
    BY <1>1, <2>1, <2>3
  <2>7. \A i \in 1 .. Len(batch) : w[i].slot = batchStart + i - 1 /\ w[i].cmd = batch[i]
    BY <2>2, <2>3
  <2> QED BY ONLY <2>5, <2>6, <2>7
<1> HIDE DEF wr
<1>5. ASSUME NEW i \in 1 .. Len(rpc')
      PROVE  \/ i \in 1 .. Len(rpc) /\ rpc'[i] = rpc[i]
             \/ \E j \in 1 .. Len(batch) : /\ i = Len(rpc) + j /\ rpc'[i].slot = batchStart + j - 1
                                           /\ rpc'[i].cmd = batch[j]
  <2>1. i \in 1 .. Len(rpc) \/ i - Len(rpc) \in 1 .. Len(batch)
    BY <1>2, <1>4
  <2>2. CASE i - Len(rpc) \in 1 .. Len(batch)
    <3>1. PICK j \in 1 .. Len(batch) : j = i - Len(rpc)
      BY <2>2, Zenon
    <3>2. Len(rpc) + j = i
      BY <1>2, <1>4, <3>1
    <3>3. rpc'[Len(rpc) + j].slot = batchStart + j - 1 /\ rpc'[Len(rpc) + j].cmd = batch[j]
      BY <1>4, Zenon
    <3> QED BY <3>2, <3>3
  <2> QED BY <1>4, <2>1, <2>2
<1>6. /\ \A j \in 1 .. Len(batch) : batch[j] \in Rng(batch) /\ batch[j] \in Cmd
      /\ Rng(batch) \cap Rng(sendQueue) = {} /\ Rng(batch') = {} /\ Rng(sendQueue') = Rng(sendQueue)
      /\ \A i, j \in 1 .. Len(batch) : batch[i] = batch[j] => i = j
  <2>1. \A j \in 1 .. Len(batch) : batch[j] \in Rng(batch) /\ batch[j] \in Cmd
    BY <1>2 DEF Rng
  <2>2. Rng(batch') = {} /\ Rng(sendQueue') = Rng(sendQueue)
    BY <1>1, RngEmpty
  <2> QED BY <2>1, <2>2, WayParts
<1>7. HeldInv'
  <2>1. ASSUME NEW i \in 1 .. Len(rpc')
        PROVE  /\ future'[rpc'[i].cmd] # "new"
               /\ future'[rpc'[i].cmd] = "pending" => waiting'[rpc'[i].slot].cmd = rpc'[i].cmd
               /\ rpc'[i].cmd \notin Rng(batch') \cup Rng(sendQueue')
    <3>1. CASE i \in 1 .. Len(rpc) /\ rpc'[i] = rpc[i]
      BY <1>1, <1>6, <3>1 DEF AnswerInv, HeldInv
    <3>2. ASSUME NEW j \in 1 .. Len(batch), rpc'[i].slot = batchStart + j - 1, rpc'[i].cmd = batch[j]
          PROVE  /\ future'[rpc'[i].cmd] # "new"
                 /\ future'[rpc'[i].cmd] = "pending" => waiting'[rpc'[i].slot].cmd = rpc'[i].cmd
                 /\ rpc'[i].cmd \notin Rng(batch') \cup Rng(sendQueue')
      <4>1. future[batch[j]] # "new"
        BY <1>6 DEF NewInv
      <4>2. future[batch[j]] = "pending" => waiting[batchStart + j - 1].cmd = batch[j]
        BY <1>1 DEF AnswerInv, WriteInv
      <4> QED BY <1>1, <1>6, <3>2, <4>1, <4>2
    <3> QED BY <1>5, <3>1, <3>2
  <2>2. ASSUME NEW i \in 1 .. Len(rpc'), NEW j \in 1 .. Len(rpc'), rpc'[i].cmd = rpc'[j].cmd
        PROVE  i = j
    <3>1. CASE i \in 1 .. Len(rpc) /\ j \in 1 .. Len(rpc)
      BY <1>4, <2>2, <3>1 DEF AnswerInv, HeldInv
    <3>2. ASSUME NEW a \in 1 .. Len(batch), NEW b \in 1 .. Len(batch),
                 i = Len(rpc) + a, rpc'[i].cmd = batch[a], j = Len(rpc) + b, rpc'[j].cmd = batch[b]
          PROVE  i = j
      BY <1>6, <2>2, <3>2
    <3>3. ASSUME NEW a \in 1 .. Len(rpc), NEW b \in 1 .. Len(batch) PROVE rpc[a].cmd # batch[b]
      BY <1>6 DEF AnswerInv, HeldInv
    <3>4. ASSUME NEW a \in 1 .. Len(batch), rpc'[i].cmd = batch[a] PROVE ~(j \in 1 .. Len(rpc) /\ rpc'[j] = rpc[j])
      BY <2>2, <3>3, <3>4
    <3>5. ASSUME NEW b \in 1 .. Len(batch), rpc'[j].cmd = batch[b] PROVE ~(i \in 1 .. Len(rpc) /\ rpc'[i] = rpc[i])
      BY <2>2, <3>3, <3>5
    <3>6. CASE i \in 1 .. Len(rpc) /\ rpc'[i] = rpc[i]
      BY <1>5, <3>1, <3>5, <3>6
    <3>7. ASSUME NEW a \in 1 .. Len(batch), i = Len(rpc) + a, rpc'[i].cmd = batch[a] PROVE i = j
      <4>1. PICK b \in 1 .. Len(batch) : j = Len(rpc) + b /\ rpc'[j].cmd = batch[b]
        BY <1>5, <3>4, <3>7
      <4> QED BY <3>2, <3>7, <4>1
    <3> QED BY <1>5, <3>6, <3>7
  <2> QED BY <2>1, <2>2 DEF HeldInv
<1>8. OwnerInv'
  <2> SUFFICES ASSUME NEW c \in Cmd, answer[c] # NoCmd
               PROVE  \A i \in 1 .. Len(rpc') : rpc'[i].cmd # answer[c]
    BY <1>1, <1>6 DEF AnswerInv, OwnerInv
  <2>1. /\ answer[c] \notin Rng(batch) /\ \A i \in 1 .. Len(rpc) : rpc[i].cmd # answer[c]
    BY DEF AnswerInv, OwnerInv
  <2> QED BY <1>5, <1>6, <2>1
<1> QED BY <1>1, <1>7, <1>8 DEF AnswerInv, WriteInv, WrongAnswerIsLate

\* A run of slots that ends within the queue.
LEMMA RunAt ==
  ASSUME NEW b \in Nat, NEW l \in Nat, NEW n \in 0 .. QueueSize, l = n - b, NEW i \in 1 .. l,
         QueueSize \in Nat
  PROVE  b + i - 1 \in 0 .. QueueSize - 1
  OBVIOUS

\* The batch takes its slots: none of them awaits a response.
LEMMA RegisterKeeps ==
  ASSUME Types, Types', IndexInv', NEW start \in Slot, batchStart' = start, Register(start),
         batch' = batch, pc' # "stopped",
         \A s \in start .. start + Len(batch) - 1 : ~Pending(waiting[s].cmd)
  PROVE  WaitersKept /\ \A i \in 1 .. Len(batch') : waiting'[batchStart' + i - 1].cmd = batch'[i]
<1>0. start \in Nat /\ Len(batch) \in Nat
  BY QueueSizeType DEF Types, BatchTypes
<1>1. \A s \in Slot : waiting'[s] =
          IF s \in start .. start + Len(batch) - 1
          THEN [cmd |-> batch[s - start + 1], id |-> itemIndex + (s - start), armed |-> TRUE]
          ELSE waiting[s]
  BY DEF Register
<1>2. WaitersKept
  BY <1>1 DEF WaitersKept
<1>3. ASSUME NEW i \in 1 .. Len(batch) PROVE waiting'[start + i - 1].cmd = batch[i]
  <2>1. start + i - 1 \in Slot
    <3>1. Len(batch) = nextIndex' - start
      BY DEF IndexInv
    <3>2. nextIndex' \in 0 .. QueueSize
      BY DEF Types, BatchTypes
    <3>3. QueueSize \in Nat /\ Slot = 0 .. QueueSize - 1
      BY QueueSizeType
    <3> QED BY <1>0, <3>1, <3>2, <3>3, RunAt, Zenon
  <2>2. start + i - 1 \in start .. start + Len(batch) - 1 /\ (start + i - 1) - start + 1 = i
    BY <1>0
  <2>3. PICK t \in Slot : t = start + i - 1
    BY <2>1
  <2>4. t \in start .. start + Len(batch) - 1
    BY <2>2, <2>3
  <2>5. waiting'[t] = [cmd |-> batch[t - start + 1], id |-> itemIndex + (t - start), armed |-> TRUE]
    BY <1>1, <2>4, Zenon
  <2>6. waiting'[t].cmd = batch[t - start + 1]
    BY <2>5
  <2> QED BY <2>2, <2>3, <2>6
<1> QED BY <1>2, <1>3

\* The sender's steps that publish nothing.
LEMMA SenderAnswers ==
  ASSUME IInv, Types', IndexInv', OnceInv, AnswerInv, NothingWoken, Sender
  PROVE  AnswerInv'
<1>t. Types /\ IndexInv /\ CallInv /\ NewInv /\ ResyncInv /\ SlotInv
  BY DEF IInv, TInv, RunInv
<1>b. batch \in Seq(Cmd) /\ sendQueue \in Seq(Cmd) /\ Rng(<<>>) = {}
  BY <1>t, RngEmpty DEF Types, BatchTypes, FutureTypes
<1>1. CASE WritePublished
  BY <1>t, <1>1, WrittenAnswers
<1>2. CASE ~WritePublished
  <2>1. answer' = answer /\ (rpc' = rpc \/ rpc' = <<>>)
    BY <1>2 DEF Sender, SenderTop, SenderGet, SenderGetTimeout, SendUnavailable, SendReset, SendWrite,
                ResetPublished, PublishFailed, SlotFree, gwVars
  <2>2. /\ \A i \in 1 .. Len(rpc') : i + 0 \in 1 .. Len(rpc) /\ rpc'[i] = rpc[i + 0]
        /\ \A i \in 1 .. Len(rpc') : \E j \in 1 .. Len(rpc) : rpc'[i] = rpc[j]
    <3>1. CASE rpc' = rpc
      BY <3>1
    <3>2. CASE rpc' = <<>>
      BY <3>2
    <3> QED BY <2>1, <3>1, <3>2
  <2>3. \A c \in Cmd : future'[c] = "answered" => future[c] = "answered"
    BY <1>2 DEF Sender, SenderTop, SenderGet, SenderGetTimeout, SendUnavailable, SendReset, SendWrite,
                ResetPublished, PublishFailed, SlotFree, FailBatch, DrainPending, Register, Resolve
  <2>4. WayKept
    <3>1. CASE SenderGet
      <4>1. /\ Rng(Tail(sendQueue)) \subseteq Rng(sendQueue) /\ Head(sendQueue) \in Rng(sendQueue)
            /\ Head(sendQueue) \in Cmd
        BY <1>b, <3>1, RngTail DEF SenderGet
      <4>2. Rng(Append(batch, Head(sendQueue))) = Rng(batch) \cup {Head(sendQueue)}
        BY <1>b, <4>1, RngAppend
      <4> QED BY <3>1, <4>1, <4>2 DEF SenderGet, WayKept
    <3>2. CASE ~SenderGet
      <4>1. UNCHANGED sendQueue /\ (batch' = <<>> \/ batch' = batch)
        BY <1>2, <3>2 DEF Sender, SenderTop, SenderGetTimeout, SendUnavailable, SendReset, SendWrite,
                          ResetPublished, PublishFailed, SlotFree, Finish
      <4> QED BY <1>b, <4>1 DEF WayKept
    <3> QED BY <3>1, <3>2
  <2>5. WaitersKept /\ WriteKept
    <3>1. CASE SendWrite
      <4>1. /\ pc = "cooldown" /\ pc' = "writing" /\ Register(batchStart)
            /\ UNCHANGED <<batch, batchStart, nextIndex>>
        BY <3>1 DEF SendWrite
      <4>2. \A s \in batchStart .. batchStart + Len(batch) - 1 : ~Pending(waiting[s].cmd)
        <5>1. batchStart + Len(batch) - 1 = nextIndex - 1
          <6>1. /\ nextIndex \in 0 .. QueueSize /\ batchStart \in 0 .. QueueSize - 1
                /\ Len(batch) = nextIndex - batchStart /\ QueueSize \in Nat
            BY <1>t, <4>1, QueueSizeType DEF IndexInv, Types, BatchTypes
          <6> QED BY <6>1
        <5> QED BY <1>t, <4>1, <5>1 DEF SlotInv
      <4>3. batchStart \in Slot
        BY <1>t DEF Types, BatchTypes
      <4> QED BY <1>t, <4>1, <4>2, <4>3, RegisterKeeps DEF WriteKept
    <3>2. CASE ResetPublished
      <4>1. /\ pc = "resetting" /\ pc' # "stopped" /\ Register(0) /\ batchStart' = 0 /\ batch' = batch
        BY <3>2 DEF ResetPublished
      <4>2. \A s \in Slot : ~Pending(waiting[s].cmd)
        BY <1>t, <4>1 DEF ResyncInv, PendingSlots
      <4>3. 0 \in Slot /\ \A s \in 0 .. 0 + Len(batch) - 1 : s \in Slot
        <5>1. nextIndex' = Len(batch) /\ nextIndex' \in 0 .. QueueSize
          BY <3>2 DEF ResetPublished, Types, BatchTypes
        <5> QED BY <5>1, QueueSizeType
      <4> QED BY <1>t, <4>1, <4>2, <4>3, RegisterKeeps DEF WriteKept
    <3>3. CASE ~SendWrite /\ ~ResetPublished
      <4>1. pc' # "writing"
        BY <1>2, <3>3 DEF Sender, SenderTop, SenderGet, SenderGetTimeout, SendUnavailable, SendReset,
                          PublishFailed, SlotFree, Finish
      <4>2. waiting' = waiting \/ \A s \in Slot : Pending(waiting[s].cmd) => future'[waiting[s].cmd] # "pending"
        <5>1. CASE SendReset \/ SendUnavailable \/ PublishFailed
          BY <1>t, <5>1, WaiterType DEF SendReset, SendUnavailable, PublishFailed, FailBatch, DrainPending,
             DrainTimers, timerVars, Resolve, PendingWaiters, PendingSlots, Pending
        <5>2. CASE SenderTop \/ SenderGet \/ SenderGetTimeout \/ SlotFree
          BY <5>2 DEF SenderTop, SenderGet, SenderGetTimeout, SlotFree, timerVars
        <5> QED BY <1>2, <3>3, <5>1, <5>2 DEF Sender
      <4> QED BY <4>1, <4>2 DEF WaitersKept, WriteKept
    <3> QED BY <3>1, <3>2, <3>3
  <2>6. HeldInv' /\ WriteInv'
    BY <1>t, <2>2, <2>4, <2>5, HeldKept DEF AnswerInv
  <2>7. OwnerInv' /\ WrongAnswerIsLate'
    BY <1>t, <2>1, <2>2, <2>3, <2>4, OwnersKept DEF AnswerInv
  <2> QED BY <2>6, <2>7 DEF AnswerInv
<1> QED BY <1>1, <1>2

\* The callers' steps, the timers, the losses, reports and the link.
LEMMA OtherAnswers ==
  ASSUME IInv, AnswerInv, NothingWoken,
         \/ \E k \in Call : Caller(k) \/ CancelCall(k)
         \/ \E s \in Slot : Timeout(s) \/ OrphanTimeout(s)
         \/ Environment /\ ~Reply
         \/ Deinitialize \/ Deinitialized \/ UNCHANGED vars
  PROVE  AnswerInv'
<1>t. Types /\ IndexInv /\ CallInv /\ NewInv
  BY DEF IInv, TInv
<1>b. batch \in Seq(Cmd) /\ sendQueue \in Seq(Cmd) /\ Rng(<<>>) = {}
  BY <1>t, RngEmpty DEF Types, BatchTypes, FutureTypes
<1>1. answer' = answer
  BY DEF Caller, CallUnavailable, CallStart, AcquireLock, SequenceRefused, SequenceBlocks, Put, Gathered,
         CancelCall, Timeout, OrphanTimeout, Environment, ReplyLost, ReportUnreachable, ReportReachable,
         ConnectionLost, ConnectionRestored, Deinitialize, Deinitialized, vars
<1>2. \A c \in Cmd : future'[c] = "answered" => future[c] = "answered"
  <2>1. ASSUME NEW k \in Call, Caller(k) \/ CancelCall(k)
        PROVE  \A c \in Cmd : future'[c] = "answered" => future[c] = "answered"
    BY <1>t, <2>1, CurrentCmdType
       DEF Caller, CallUnavailable, CallStart, AcquireLock, SequenceRefused, SequenceBlocks, Put,
           Gathered, CancelCall, Refuse, Resolve, Types, FutureTypes
  <2>2. ASSUME NEW s \in Slot, Timeout(s) \/ OrphanTimeout(s)
        PROVE  \A c \in Cmd : future'[c] = "answered" => future[c] = "answered"
    BY <1>t, <2>2 DEF Timeout, OrphanTimeout, TimeoutCallback, Types, FutureTypes
  <2>3. CASE Environment /\ ~Reply
    BY <2>3 DEF Environment, ReplyLost, ReportUnreachable, ReportReachable, ConnectionLost,
                ConnectionRestored, DrainPending, Resolve
  <2>4. CASE Deinitialize \/ Deinitialized \/ UNCHANGED vars
    BY <1>t, <2>4 DEF Types, FutureTypes, Deinitialize, CancelAtGet, CancelInSend, CancelAtSlot, Deinitialized, Resolve, vars
  <2> QED BY <2>1, <2>2, <2>3, <2>4
<1>3. \E n \in {0, 1} : \A i \in 1 .. Len(rpc') : i + n \in 1 .. Len(rpc) /\ rpc'[i] = rpc[i + n]
  <2>1. CASE ReplyLost
    BY <1>t, <2>1, HeadGone DEF ReplyLost
  <2>2. CASE rpc' = rpc \/ rpc' = <<>>
    <3>1. CASE rpc' = rpc
      BY <3>1
    <3>2. CASE rpc' = <<>>
      BY <3>2
    <3> QED BY <2>2, <3>1, <3>2
  <2>3. ReplyLost \/ rpc' = rpc \/ rpc' = <<>>
    BY DEF Caller, CallUnavailable, CallStart, AcquireLock, SequenceRefused, SequenceBlocks, Put, Gathered,
           CancelCall, Timeout, OrphanTimeout, Environment, ReportUnreachable, ReportReachable,
           ConnectionLost, ConnectionRestored, Deinitialize, Deinitialized, vars, gwVars
  <2> QED BY <2>1, <2>2, <2>3
<1>4. WayKept
  <2>1. ASSUME NEW k \in Call, Put(k) PROVE WayKept
    <3>1. CurrentCmd(k) \in Cmd /\ future[CurrentCmd(k)] = "new"
      BY <1>t, <2>1, CurrentIsNew, CurrentCmdType DEF Put
    <3>2. Rng(sendQueue') = Rng(sendQueue) \cup {CurrentCmd(k)} /\ batch' = batch
      BY <1>b, <2>1, <3>1, RngAppend DEF Put, senderVars
    <3> QED BY <3>1, <3>2 DEF WayKept
  <2>2. CASE \A k \in Call : ~Put(k)
    <3>1. UNCHANGED sendQueue /\ (batch' = <<>> \/ batch' = batch)
      BY <2>2 DEF Caller, CallUnavailable, CallStart, AcquireLock, SequenceRefused, SequenceBlocks, Gathered,
             CancelCall, Timeout, OrphanTimeout, Environment, ReplyLost, ReportUnreachable,
             ReportReachable, ConnectionLost, ConnectionRestored, Deinitialize, CancelAtGet,
             CancelInSend, CancelAtSlot, Deinitialized, vars, senderVars
    <3> QED BY <1>b, <3>1 DEF WayKept
  <2> QED BY <2>1, <2>2
<1>5. WriteKept
  BY DEF Caller, CallUnavailable, CallStart, AcquireLock, SequenceRefused, SequenceBlocks, Put, Gathered,
         CancelCall, Timeout, OrphanTimeout, Environment, ReplyLost, ReportUnreachable, ReportReachable,
         ConnectionLost, ConnectionRestored, Deinitialize, CancelAtGet, CancelInSend, CancelAtSlot,
         Deinitialized, vars, senderVars, WriteKept
<1>6. WaitersKept
  <2>1. CASE waiting' = waiting
    BY <2>1 DEF WaitersKept
  <2>2. ASSUME NEW s \in Slot, Timeout(s) PROVE WaitersKept
    <3>1. \A t \in Slot : waiting'[t].cmd = waiting[t].cmd
      BY <1>t, <2>2 DEF Timeout, Types, SlotTypes, Waiters
    <3> QED BY <3>1 DEF WaitersKept
  <2>3. CASE ReportUnreachable \/ Deinitialized
    BY <1>t, <2>3, WaiterType DEF ReportUnreachable, Deinitialized, DrainPending, DrainTimers, Resolve,
       PendingWaiters, PendingSlots, Pending, WaitersKept
  <2>4. \/ waiting' = waiting \/ ReportUnreachable \/ Deinitialized
        \/ \E s \in Slot : Timeout(s)
    BY DEF Caller, CallUnavailable, CallStart, AcquireLock, SequenceRefused, SequenceBlocks, Put, Gathered,
           CancelCall, OrphanTimeout, Environment, ReplyLost, ReportReachable, ConnectionLost,
           ConnectionRestored, Deinitialize, vars, timerVars
  <2> QED BY <2>1, <2>2, <2>3, <2>4
<1>7. HeldInv' /\ WriteInv'
  <2>1. PICK n \in {0, 1} : \A i \in 1 .. Len(rpc') : i + n \in 1 .. Len(rpc) /\ rpc'[i] = rpc[i + n]
    BY <1>3
  <2>2. n \in Nat
    OBVIOUS
  <2> QED BY <1>t, <1>4, <1>5, <1>6, <2>1, <2>2, HeldKept DEF AnswerInv
<1>8. OwnerInv' /\ WrongAnswerIsLate'
  <2>1. \A i \in 1 .. Len(rpc') : \E j \in 1 .. Len(rpc) : rpc'[i] = rpc[j]
    BY <1>3
  <2> QED BY <1>t, <1>1, <1>2, <1>4, <2>1, OwnersKept DEF AnswerInv
<1> QED BY <1>7, <1>8 DEF AnswerInv

\* A caller never gets the reply to a command that somebody still waits for,
\* nor one that its own caller gets too: for any number of slots, calls and
\* commands, with late replies, stale timers, cancelled callers, refused
\* publishes, link losses, a gateway that comes and goes, and deinitialize;
\* provided no report is handled while a queue reset is being published.
THEOREM DriverWrongAnswerIsLate ==
  ASSUME ~ReportDuringReset
  PROVE  Spec => []WrongAnswerIsLate
<1> DEFINE Inv == IInv /\ OnceInv /\ AnswerInv
<1>1. Init => Inv
  <2> SUFFICES ASSUME Init PROVE Inv
    OBVIOUS
  <2>1. IInv
    BY InitLoss
  <2>2. Len(Way) = 0 /\ Len(rpc) = 0
    BY DEF Init, Way
  <2>3. OnceInv
    BY <2>2 DEF OnceInv
  <2>4. HeldInv /\ WriteInv
    BY <2>2 DEF Init, HeldInv, WriteInv
  <2>5. OwnerInv /\ WrongAnswerIsLate
    BY DEF Init, OwnerInv, WrongAnswerIsLate
  <2> QED BY <2>1, <2>3, <2>4, <2>5 DEF AnswerInv
<1>2. Inv /\ [Next]_vars => Inv'
  <2> SUFFICES ASSUME Inv, [Next]_vars PROVE Inv'
    OBVIOUS
  <2>1. IInv'
    BY StepLoss
  <2>2. OnceInv'
    BY OnceStep DEF IInv, TInv
  <2>3. NothingWoken
    BY StepWakesNothing DEF IInv, TInv
  <2>4. CASE Reply
    BY <2>1, <2>2, <2>3, <2>4, ReplyAnswers DEF IInv, TInv
  <2>5. CASE Sender
    <3>1. Types' /\ IndexInv'
      BY <2>1 DEF IInv, TInv
    <3>2. AnswerInv'
      BY <2>3, <2>5, <3>1, SenderAnswers
    <3> QED BY <2>1, <2>2, <3>2
  <2>6. CASE ~Reply /\ ~Sender
    <3>1. \/ \E k \in Call : Caller(k) \/ CancelCall(k)
          \/ \E s \in Slot : Timeout(s) \/ OrphanTimeout(s)
          \/ Environment /\ ~Reply
          \/ Deinitialize \/ Deinitialized \/ UNCHANGED vars
      BY <2>6 DEF Next
    <3>2. AnswerInv'
      BY <2>3, <3>1, OtherAnswers
    <3> QED BY <2>1, <2>2, <3>2
  <2> QED BY <2>1, <2>2, <2>4, <2>5, <2>6
<1>3. Inv => WrongAnswerIsLate
  BY DEF AnswerInv
<1> QED BY <1>1, <1>2, <1>3, PTL DEF Spec
=============================================================================

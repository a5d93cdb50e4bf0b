------------------------------ MODULE EventQueue ------------------------------
(***************************************************************************)
(* src/src/pipeline/event_queue.zig: the ring between the sensor threads   *)
(* (packet callback, ETW, FIM, registry) and the pipeline thread.          *)
(*                                                                         *)
(* pushEvent and popEvent take two DIFFERENT mutexes, so a push and a pop  *)
(* overlap freely; only the order of the loads and stores of the two       *)
(* cursors keeps them off each other's slot.  Every load, store and copy   *)
(* that another thread can see is a step of its own.  The cursors are u64  *)
(* and never wrap in practice; they are naturals here.  The atomics are    *)
(* acquire/release on the cursors, which on this two-cursor protocol is    *)
(* as strong as the sequential consistency of TLA+.                        *)
(***************************************************************************)
EXTENDS Integers, Sequences

CONSTANTS
  Producers,  \* threads that call pushEvent
  Consumers,  \* threads that call popEvent (the daemon has one)
  Events,     \* events a sensor may push
  Size,       \* PIPELINE_QUEUE_SIZE
  NoThread,   \* an unlocked mutex
  NoEvent,    \* an unwritten slot, an empty local
  MaxPush     \* bound: pushEvent calls in a behaviour

ASSUME QueueAssumption ==
  /\ Size \in Nat \ {0}
  /\ MaxPush \in Nat
  /\ Producers \cap Consumers = {}
  /\ NoThread \notin Producers \cup Consumers
  /\ NoEvent \notin Events

Threads == Producers \cup Consumers
Slots   == 0 .. (Size - 1)

VARIABLES
  ring,          \* g_event_queue
  head,          \* g_queue_head: next slot to write
  tail,          \* g_queue_tail: next slot to read
  producerLock,  \* g_queue_producer_mutex: its holder
  consumerLock,  \* g_queue_mutex: its holder
  drops,         \* state.g_queue_drops
  pc,            \* where each thread is in pushEvent or popEvent
  local,         \* the event a thread is copying in (qe) or has copied out
  delivered      \* history: what popEvent has taken, in order

cursors == <<head, tail>>
locks   == <<producerLock, consumerLock>>
vars    == <<ring, head, tail, producerLock, consumerLock, drops, pc, local, delivered>>

Init ==
  /\ ring = [s \in Slots |-> NoEvent]
  /\ head = 0
  /\ tail = 0
  /\ producerLock = NoThread
  /\ consumerLock = NoThread
  /\ drops = 0
  /\ pc = [t \in Threads |-> "idle"]
  /\ local = [t \in Threads |-> NoEvent]
  /\ delivered = <<>>

Goto(t, from, to) ==
  /\ pc[t] = from
  /\ pc' = [pc EXCEPT ![t] = to]

-----------------------------------------------------------------------------
(* pushEvent *)

\* Mutant: no producer mutex, the load/store pair the comment warns about.
PushLockUnlocked(p, e) ==
  /\ head + drops < MaxPush
  /\ Goto(p, "idle", "loadTail")
  /\ producerLock' = p
  /\ local' = [local EXCEPT ![p] = e]
  /\ UNCHANGED <<ring, cursors, consumerLock, drops, delivered>>

PushLock(p, e) ==
  /\ head + drops < MaxPush
  /\ producerLock = NoThread
  /\ Goto(p, "idle", "loadTail")
  /\ producerLock' = p
  /\ local' = [local EXCEPT ![p] = e]
  /\ UNCHANGED <<ring, cursors, consumerLock, drops, delivered>>

\* Mutant: > for >= in the capacity check.
PushLoadTailOffByOne(p) ==
  /\ \/ /\ head - tail > Size
        /\ Goto(p, "loadTail", "drop")
     \/ /\ head - tail <= Size
        /\ Goto(p, "loadTail", "write")
  /\ UNCHANGED <<ring, cursors, locks, drops, local, delivered>>

\* The tail may move on right after this load: the push then refuses, or
\* accepts, on a tail that is older than the queue.
PushLoadTail(p) ==
  /\ \/ /\ head - tail >= Size
        /\ Goto(p, "loadTail", "drop")
     \/ /\ head - tail < Size
        /\ Goto(p, "loadTail", "write")
  /\ UNCHANGED <<ring, cursors, locks, drops, local, delivered>>

PushDrop(p) ==
  /\ Goto(p, "drop", "pushUnlock")
  /\ drops' = drops + 1
  /\ UNCHANGED <<ring, cursors, locks, local, delivered>>

PushWrite(p) ==
  /\ Goto(p, "write", "publish")
  /\ ring' = [ring EXCEPT ![head % Size] = local[p]]
  /\ UNCHANGED <<cursors, locks, drops, local, delivered>>

PushPublish(p) ==
  /\ Goto(p, "publish", "pushUnlock")
  /\ head' = head + 1
  /\ UNCHANGED <<ring, tail, locks, drops, local, delivered>>

PushUnlock(p) ==
  /\ Goto(p, "pushUnlock", "idle")
  /\ producerLock' = NoThread
  /\ local' = [local EXCEPT ![p] = NoEvent]
  /\ UNCHANGED <<ring, cursors, consumerLock, drops, delivered>>

-----------------------------------------------------------------------------
(* popEvent *)

PopLock(c) ==
  /\ consumerLock = NoThread
  /\ Goto(c, "idle", "loadHead")
  /\ consumerLock' = c
  /\ UNCHANGED <<ring, cursors, producerLock, drops, local, delivered>>

PopLoadHead(c) ==
  /\ \/ /\ tail = head
        /\ Goto(c, "loadHead", "popUnlock")
     \/ /\ tail # head
        /\ Goto(c, "loadHead", "read")
  /\ UNCHANGED <<ring, cursors, locks, drops, local, delivered>>

PopRead(c) ==
  /\ Goto(c, "read", "advance")
  /\ local' = [local EXCEPT ![c] = ring[tail % Size]]
  /\ UNCHANGED <<ring, cursors, locks, drops, delivered>>

PopAdvance(c) ==
  /\ Goto(c, "advance", "popUnlock")
  /\ tail' = tail + 1
  /\ delivered' = Append(delivered, local[c])
  /\ UNCHANGED <<ring, head, locks, drops, local>>

\* Mutant: an early return that leaves the mutex locked.
PopUnlockForgotten(c) ==
  /\ Goto(c, "popUnlock", "idle")
  /\ local' = [local EXCEPT ![c] = NoEvent]
  /\ UNCHANGED <<ring, cursors, locks, drops, delivered>>

PopUnlock(c) ==
  /\ Goto(c, "popUnlock", "idle")
  /\ consumerLock' = NoThread
  /\ local' = [local EXCEPT ![c] = NoEvent]
  /\ UNCHANGED <<ring, cursors, producerLock, drops, delivered>>

-----------------------------------------------------------------------------

\* What pushEvent does once it holds its mutex, and what popEvent does.
PushBody(p) ==
  \/ PushLoadTail(p) \/ PushDrop(p) \/ PushWrite(p)
  \/ PushPublish(p) \/ PushUnlock(p)

PopBody(c) ==
  PopLoadHead(c) \/ PopRead(c) \/ PopAdvance(c) \/ PopUnlock(c)

Next ==
  \/ \E p \in Producers : PushBody(p) \/ \E e \in Events : PushLock(p, e)
  \/ \E c \in Consumers : PopBody(c) \/ PopLock(c)

Spec == Init /\ [][Next]_vars

\* No sensor is obliged to push.  A thread inside a critical section runs on,
\* and pipelineLoop calls popEvent again and again.
FairSpec ==
  /\ Spec
  /\ \A p \in Producers : WF_vars(PushBody(p))
  /\ \A c \in Consumers : WF_vars(PopBody(c)) /\ WF_vars(PopLock(c))

-----------------------------------------------------------------------------

PushPcs == {"loadTail", "drop", "write", "publish", "pushUnlock"}
PopPcs  == {"loadHead", "read", "advance", "popUnlock"}

TypeOK ==
  /\ ring \in [Slots -> Events \cup {NoEvent}]
  /\ head \in Nat
  /\ tail \in Nat
  /\ producerLock \in Producers \cup {NoThread}
  /\ consumerLock \in Consumers \cup {NoThread}
  /\ drops \in Nat
  /\ pc \in [Threads -> {"idle"} \cup PushPcs \cup PopPcs]
  /\ local \in [Threads -> Events \cup {NoEvent}]
  /\ delivered \in Seq(Events \cup {NoEvent})

(* A slot is never written while it is being read: the producer between its
   capacity check and the publication, and the consumer between its emptiness
   check and the release of the slot, are at different slots, although each
   checked the other's cursor some steps ago and they share no mutex. *)
NoSlotRace ==
  \A p \in Producers, c \in Consumers :
    (pc[p] \in {"write", "publish"} /\ pc[c] \in {"read", "advance"})
      => head % Size # tail % Size

(* The occupancy the cursors describe never exceeds the ring, and the popped
   events are exactly the ones behind the tail: no event is popped twice and
   none is skipped. *)
CursorsBounded ==
  /\ tail <= head
  /\ head - tail <= Size
  /\ tail = Len(delivered)

(* An event that was popped was pushed: popEvent never hands out a slot that
   no pushEvent has filled. *)
OnlyPushedDelivered ==
  \A i \in 1 .. Len(delivered) : delivered[i] \in Events

\* The queue a caller sees: the published slots, oldest first.
Queue == [i \in 1 .. (head - tail) |-> ring[(tail + i - 1) % Size]]

\* A refusal is decided at the load of the tail, before the drop is counted.
Refused == drops + (IF \E p \in Producers : pc[p] = "drop" THEN 1 ELSE 0)

Fifo == INSTANCE BoundedFifo WITH q <- Queue, refused <- Refused

(* The ring implements the bounded FIFO: order kept, nothing lost, nothing
   duplicated, and a drop counted only for a push that met a full queue. *)
RefinesFifo == Fifo!Spec

(* Every event that pushEvent accepted is popped, as long as the pipeline
   thread keeps calling popEvent. *)
AcceptedIsDelivered ==
  \A k \in 0 .. MaxPush : (head > k) ~> (tail > k)
=============================================================================

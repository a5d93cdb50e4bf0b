---------------------------- MODULE IngressProofs ----------------------------
(***************************************************************************)
(* Theorems about the way of an event into the daemon: EventQueue, for     *)
(* every number of threads and every Size, and NosePipe, for every number  *)
(* of capture processes, every size of the pipe and of the frames.         *)
(*                                                                         *)
(* The queue.  The inductive invariant IInv says what the two mutexes and  *)
(* the two cursor checks buy: a producer past its check keeps a free slot, *)
(* because consumers only move the tail on; a consumer past its check      *)
(* keeps a filled slot, because producers only move the head on.           *)
(*                                                                         *)
(* The link.  The inductive invariant LinkInv looks at all the units that  *)
(* are on their way, from what the reader has in hand over the pipe to     *)
(* what the writer has yet to write, as one line: wherever the line is     *)
(* cut, frame follows frame, each complete but the last, in the order they *)
(* were made, and the reader stands at the beginning of a frame unless a   *)
(* stop has already doomed the connection.                                 *)
(***************************************************************************)
EXTENDS EventQueue, NosePipe, SequenceTheorems, TLAPS

-----------------------------------------------------------------------------
(* The inductive invariant *)

\* A thread is inside a function exactly while it holds that function's mutex.
LocksHeld ==
  /\ \A p \in Producers : pc[p] \in {"idle"} \cup PushPcs
  /\ \A p \in Producers : pc[p] \in PushPcs <=> producerLock = p
  /\ \A c \in Consumers : pc[c] \in {"idle"} \cup PopPcs
  /\ \A c \in Consumers : pc[c] \in PopPcs <=> consumerLock = c

\* The capacity check and the emptiness check stay true until they are used.
ChecksStable ==
  /\ \A p \in Producers : pc[p] \in {"write", "publish"} => head - tail < Size
  /\ \A c \in Consumers : pc[c] \in {"read", "advance"} => tail < head

\* The copies in flight agree with the slots.
CopiesAgree ==
  /\ \A p \in Producers : pc[p] \in PushPcs => local[p] \in Events
  /\ \A p \in Producers : pc[p] = "publish" => ring[head % Size] = local[p]
  /\ \A c \in Consumers : pc[c] = "advance" => local[c] = ring[tail % Size]

\* The published slots hold events.
SlotsFilled ==
  \A k \in Nat : (tail <= k /\ k < head) => ring[k % Size] \in Events

IInv ==
  /\ TypeOK
  /\ LocksHeld
  /\ CursorsBounded
  /\ ChecksStable
  /\ CopiesAgree
  /\ SlotsFilled
  /\ OnlyPushedDelivered

-----------------------------------------------------------------------------
(* Lemmas *)

(* Two positions less than a lap apart are at different slots. *)
LEMMA ModDistinct ==
  ASSUME NEW a \in Nat, NEW b \in Nat, a < b, b < a + Size
  PROVE  a % Size # b % Size
<1>1. Size \in Nat /\ Size > 0
  BY QueueAssumption
<1> DEFINE qa == a \div Size
           qb == b \div Size
<1>2. qa \in Int /\ qb \in Int /\ a = Size * qa + (a % Size) /\ b = Size * qb + (b % Size)
  BY <1>1
<1>3. SUFFICES ASSUME a % Size = b % Size PROVE FALSE
  OBVIOUS
<1>4. b - a = Size * qb - Size * qa
  BY <1>2, <1>3, <1>1
<1> HIDE DEF qa, qb
<1>5. b - a = Size * (qb - qa)
  BY <1>4, <1>2, <1>1
<1>6. CASE qb - qa <= 0
  BY <1>5, <1>6, <1>2, <1>1
<1>7. CASE qb - qa >= 1
  BY <1>5, <1>7, <1>2, <1>1
<1>8. QED
  BY <1>6, <1>7, <1>2

(* A position is at a slot. *)
LEMMA ModInSlots ==
  ASSUME NEW a \in Nat
  PROVE  a % Size \in Slots
BY QueueAssumption DEF Slots

(* A function on 1 .. n is a sequence of length n. *)
LEMMA FunctionIsSeq ==
  ASSUME NEW S, NEW n \in Nat, NEW f \in [1 .. n -> S]
  PROVE  f \in Seq(S) /\ Len(f) = n
<1>1. f \in Seq(S)
  OBVIOUS
<1>2. DOMAIN f = 1 .. n /\ DOMAIN f = 1 .. Len(f) /\ Len(f) \in Nat
  BY <1>1, LenProperties
<1>3. QED
  BY <1>1, <1>2

(* The queue starts in the invariant. *)
LEMMA InitIInv == Init => IInv
<1> SUFFICES ASSUME Init PROVE IInv
  OBVIOUS
<1>1. TypeOK
  BY DEF Init, TypeOK
<1>2. LocksHeld
  BY QueueAssumption DEF Init, LocksHeld, PushPcs, PopPcs, Threads
<1>3. CursorsBounded /\ SlotsFilled /\ OnlyPushedDelivered
  BY QueueAssumption DEF Init, CursorsBounded, SlotsFilled, OnlyPushedDelivered
<1>4. ChecksStable /\ CopiesAgree
  BY DEF Init, ChecksStable, CopiesAgree, PushPcs, Threads
<1>5. QED
  BY <1>1, <1>2, <1>3, <1>4 DEF IInv

(* Every step of a producer keeps the invariant. *)
LEMMA PushKeepsIInv ==
  ASSUME IInv, NEW p \in Producers,
         PushBody(p) \/ \E e \in Events : PushLock(p, e)
  PROVE  IInv'
<1> USE DEF PushPcs, PopPcs, Threads, locks, cursors, Goto
<1>0. Size \in Nat /\ Size > 0 /\ p \in Threads /\ p # NoThread /\ p \notin Consumers
  BY QueueAssumption
<1>1. ASSUME NEW e \in Events, PushLock(p, e) PROVE IInv'
  <2>1. TypeOK'
    BY <1>1, <1>0 DEF IInv, TypeOK, PushLock
  <2>2. LocksHeld'
    BY <1>1, <1>0, QueueAssumption DEF IInv, TypeOK, LocksHeld, PushLock
  <2>3. CursorsBounded' /\ SlotsFilled' /\ OnlyPushedDelivered'
    BY <1>1 DEF IInv, CursorsBounded, SlotsFilled, OnlyPushedDelivered, PushLock
  <2>4. ChecksStable' /\ CopiesAgree'
    BY <1>1, <1>0 DEF IInv, TypeOK, ChecksStable, CopiesAgree, PushLock
  <2>5. QED
    BY <2>1, <2>2, <2>3, <2>4 DEF IInv
<1>2. ASSUME PushLoadTail(p) PROVE IInv'
  <2>1. TypeOK'
    BY <1>2, <1>0 DEF IInv, TypeOK, PushLoadTail
  <2>2. LocksHeld'
    BY <1>2, <1>0 DEF IInv, TypeOK, LocksHeld, PushLoadTail
  <2>3. CursorsBounded' /\ SlotsFilled' /\ OnlyPushedDelivered'
    BY <1>2 DEF IInv, CursorsBounded, SlotsFilled, OnlyPushedDelivered, PushLoadTail
  <2>4. ChecksStable' /\ CopiesAgree'
    BY <1>2, <1>0 DEF IInv, TypeOK, ChecksStable, CopiesAgree, PushLoadTail
  <2>5. QED
    BY <2>1, <2>2, <2>3, <2>4 DEF IInv
<1>3. ASSUME PushDrop(p) \/ PushUnlock(p) PROVE IInv'
  <2>1. TypeOK'
    BY <1>3, <1>0 DEF IInv, TypeOK, PushDrop, PushUnlock
  <2>2. LocksHeld'
    BY <1>3, <1>0, QueueAssumption DEF IInv, TypeOK, LocksHeld, PushDrop, PushUnlock
  <2>3. CursorsBounded' /\ SlotsFilled' /\ OnlyPushedDelivered'
    BY <1>3 DEF IInv, CursorsBounded, SlotsFilled, OnlyPushedDelivered, PushDrop, PushUnlock
  <2>4. ChecksStable' /\ CopiesAgree'
    BY <1>3, <1>0 DEF IInv, TypeOK, ChecksStable, CopiesAgree, PushDrop, PushUnlock
  <2>5. QED
    BY <2>1, <2>2, <2>3, <2>4 DEF IInv
<1>4. ASSUME PushWrite(p) PROVE IInv'
  <2>1. TypeOK'
    BY <1>4, <1>0 DEF IInv, TypeOK, PushWrite
  <2>2. LocksHeld'
    BY <1>4, <1>0 DEF IInv, TypeOK, LocksHeld, PushWrite
  <2>3. \A k \in Nat : (tail <= k /\ k < head) => ring'[k % Size] = ring[k % Size]
    <3> SUFFICES ASSUME NEW k \in Nat, tail <= k, k < head
                 PROVE  ring'[k % Size] = ring[k % Size]
      OBVIOUS
    <3>1. head \in Nat /\ tail \in Nat /\ head < k + Size
      BY <1>4, <1>0 DEF IInv, TypeOK, ChecksStable, PushWrite
    <3>2. k % Size # head % Size
      BY <3>1, ModDistinct
    <3>3. k % Size \in Slots
      BY ModInSlots
    <3>4. QED
      BY <3>2, <3>3, <1>4 DEF IInv, TypeOK, PushWrite
  <2>4. CursorsBounded' /\ SlotsFilled' /\ OnlyPushedDelivered'
    BY <1>4, <2>3 DEF IInv, CursorsBounded, SlotsFilled, OnlyPushedDelivered, PushWrite
  <2>5. ChecksStable'
    BY <1>4, <1>0 DEF IInv, TypeOK, ChecksStable, PushWrite
  <2>6. CopiesAgree'
    <3>1. \A q \in Producers : pc'[q] \in PushPcs => local'[q] \in Events
      BY <1>4, <1>0 DEF IInv, TypeOK, CopiesAgree, PushWrite
    <3>2. \A q \in Producers : pc'[q] = "publish" => q = p
      BY <1>4, <1>0 DEF IInv, TypeOK, LocksHeld, PushWrite
    <3>3. head % Size \in Slots
      BY ModInSlots DEF IInv, TypeOK
    <3>4. ring'[head' % Size] = local'[p]
      BY <1>4, <3>3 DEF IInv, TypeOK, PushWrite
    <3>5. \A c \in Consumers : pc'[c] = "advance" => local'[c] = ring'[tail' % Size]
      BY <1>4, <1>0, <2>3 DEF IInv, TypeOK, CopiesAgree, ChecksStable, PushWrite
    <3>6. QED
      BY <3>1, <3>2, <3>4, <3>5 DEF CopiesAgree
  <2>7. QED
    BY <2>1, <2>2, <2>4, <2>5, <2>6 DEF IInv
<1>5. ASSUME PushPublish(p) PROVE IInv'
  <2>1. TypeOK'
    BY <1>5, <1>0 DEF IInv, TypeOK, PushPublish
  <2>2. LocksHeld'
    BY <1>5, <1>0 DEF IInv, TypeOK, LocksHeld, PushPublish
  <2>3. CursorsBounded' /\ OnlyPushedDelivered'
    BY <1>5, <1>0 DEF IInv, TypeOK, CursorsBounded, ChecksStable, OnlyPushedDelivered, PushPublish
  <2>4. SlotsFilled'
    <3>1. ring[head % Size] \in Events /\ head \in Nat /\ tail \in Nat
      BY <1>5 DEF IInv, TypeOK, CopiesAgree, PushPublish
    <3>2. \A k \in Nat : (tail <= k /\ k < head + 1) => (k = head \/ k < head)
      BY <3>1
    <3>3. QED
      BY <1>5, <3>1, <3>2 DEF IInv, SlotsFilled, PushPublish
  <2>5. \A q \in Producers : pc'[q] \notin {"write", "publish"}
    BY <1>5, <1>0 DEF IInv, TypeOK, LocksHeld, PushPublish
  <2>6. ChecksStable' /\ CopiesAgree'
    BY <1>5, <1>0, <2>5 DEF IInv, TypeOK, ChecksStable, CopiesAgree, PushPublish
  <2>7. QED
    BY <2>1, <2>2, <2>3, <2>4, <2>6 DEF IInv
<1>6. QED
  BY <1>1, <1>2, <1>3, <1>4, <1>5 DEF PushBody

(* Every step of a consumer keeps the invariant. *)
LEMMA PopKeepsIInv ==
  ASSUME IInv, NEW c \in Consumers, PopBody(c) \/ PopLock(c)
  PROVE  IInv'
<1> USE DEF PushPcs, PopPcs, Threads, locks, cursors, Goto
<1>0. Size \in Nat /\ Size > 0 /\ c \in Threads /\ c # NoThread /\ c \notin Producers
  BY QueueAssumption
<1>1. ASSUME PopLock(c) \/ PopLoadHead(c) \/ PopUnlock(c) PROVE IInv'
  <2>1. TypeOK'
    BY <1>1, <1>0 DEF IInv, TypeOK, PopLock, PopLoadHead, PopUnlock
  <2>2. LocksHeld'
    BY <1>1, <1>0, QueueAssumption
       DEF IInv, TypeOK, LocksHeld, PopLock, PopLoadHead, PopUnlock
  <2>3. CursorsBounded' /\ SlotsFilled' /\ OnlyPushedDelivered'
    BY <1>1 DEF IInv, CursorsBounded, SlotsFilled, OnlyPushedDelivered,
                PopLock, PopLoadHead, PopUnlock
  <2>4. ChecksStable' /\ CopiesAgree'
    BY <1>1, <1>0 DEF IInv, TypeOK, ChecksStable, CopiesAgree, CursorsBounded,
                      PopLock, PopLoadHead, PopUnlock
  <2>5. QED
    BY <2>1, <2>2, <2>3, <2>4 DEF IInv
<1>2. ASSUME PopRead(c) PROVE IInv'
  <2>0. tail % Size \in Slots
    BY ModInSlots DEF IInv, TypeOK
  <2>1. TypeOK'
    BY <1>2, <1>0, <2>0 DEF IInv, TypeOK, PopRead
  <2>2. LocksHeld'
    BY <1>2, <1>0 DEF IInv, TypeOK, LocksHeld, PopRead
  <2>3. CursorsBounded' /\ SlotsFilled' /\ OnlyPushedDelivered'
    BY <1>2 DEF IInv, CursorsBounded, SlotsFilled, OnlyPushedDelivered, PopRead
  <2>4. ChecksStable'
    BY <1>2, <1>0 DEF IInv, TypeOK, ChecksStable, PopRead
  <2>5. \A d \in Consumers : pc'[d] = "advance" => d = c
    BY <1>2, <1>0 DEF IInv, TypeOK, LocksHeld, PopRead
  <2>6. CopiesAgree'
    BY <1>2, <1>0, <2>5 DEF IInv, TypeOK, CopiesAgree, PopRead
  <2>7. QED
    BY <2>1, <2>2, <2>3, <2>4, <2>6 DEF IInv
<1>3. ASSUME PopAdvance(c) PROVE IInv'
  <2>1. TypeOK'
    BY <1>3, <1>0 DEF IInv, TypeOK, PopAdvance
  <2>2. LocksHeld'
    BY <1>3, <1>0 DEF IInv, TypeOK, LocksHeld, PopAdvance
  <2>3. tail < head /\ tail \in Nat /\ head \in Nat /\ local[c] = ring[tail % Size]
    BY <1>3 DEF IInv, TypeOK, ChecksStable, CopiesAgree, PopAdvance
  <2>4. local[c] \in Events
    BY <2>3 DEF IInv, SlotsFilled
  <2>5. CursorsBounded'
    BY <1>3, <1>0, <2>3 DEF IInv, TypeOK, CursorsBounded, PopAdvance
  <2>6. OnlyPushedDelivered'
    <3> SUFFICES ASSUME NEW i \in 1 .. Len(delivered') PROVE delivered'[i] \in Events
      BY DEF OnlyPushedDelivered
    <3>1. delivered' = Append(delivered, local[c]) /\ Len(delivered') = Len(delivered) + 1
      BY <1>3 DEF IInv, TypeOK, PopAdvance
    <3>2. CASE i = Len(delivered) + 1
      BY <3>1, <3>2, <2>4 DEF IInv, TypeOK
    <3>3. CASE i \in 1 .. Len(delivered)
      BY <3>1, <3>3 DEF IInv, TypeOK, OnlyPushedDelivered
    <3>4. QED
      BY <3>1, <3>2, <3>3 DEF IInv, TypeOK
  <2>7. SlotsFilled'
    BY <1>3, <2>3 DEF IInv, TypeOK, SlotsFilled, PopAdvance
  <2>8. \A d \in Consumers : pc'[d] \notin {"read", "advance"}
    BY <1>3, <1>0 DEF IInv, TypeOK, LocksHeld, PopAdvance
  <2>9. ChecksStable' /\ CopiesAgree'
    BY <1>3, <1>0, <2>3, <2>8 DEF IInv, TypeOK, ChecksStable, CopiesAgree, PopAdvance
  <2>10. QED
    BY <2>1, <2>2, <2>5, <2>6, <2>7, <2>9 DEF IInv
<1>4. QED
  BY <1>1, <1>2, <1>3 DEF PopBody

-----------------------------------------------------------------------------
(* Safety *)

(* The mutexes and the cursor checks keep the invariant for ever. *)
THEOREM Invariance == Spec => []IInv
<1>1. IInv /\ [Next]_vars => IInv'
  <2> SUFFICES ASSUME IInv, [Next]_vars PROVE IInv'
    OBVIOUS
  <2>1. CASE UNCHANGED vars
    BY <2>1 DEF vars, IInv, TypeOK, LocksHeld, CursorsBounded, ChecksStable,
                CopiesAgree, SlotsFilled, OnlyPushedDelivered
  <2>2. ASSUME NEW p \in Producers, PushBody(p) \/ \E e \in Events : PushLock(p, e)
        PROVE  IInv'
    BY <2>2, PushKeepsIInv
  <2>3. ASSUME NEW c \in Consumers, PopBody(c) \/ PopLock(c)
        PROVE  IInv'
    BY <2>3, PopKeepsIInv
  <2>4. QED
    BY <2>1, <2>2, <2>3 DEF Next
<1>2. QED
  BY <1>1, InitIInv, PTL DEF Spec

(* Every variable keeps its type. *)
THEOREM TypeCorrect == Spec => []TypeOK
<1>1. IInv => TypeOK
  BY DEF IInv
<1>2. QED
  BY <1>1, Invariance, PTL

(* No slot is written while it is read, for any number of pushing and popping
   threads, although pushEvent and popEvent share no mutex. *)
THEOREM NoRace == Spec => []NoSlotRace
<1>1. IInv => NoSlotRace
  <2> SUFFICES ASSUME IInv, NEW p \in Producers, NEW c \in Consumers,
                      pc[p] \in {"write", "publish"}, pc[c] \in {"read", "advance"}
               PROVE  head % Size # tail % Size
    BY DEF NoSlotRace
  <2>1. head \in Nat /\ tail \in Nat /\ Size \in Nat
    BY QueueAssumption DEF IInv, TypeOK
  <2>2. tail < head /\ head < tail + Size
    BY <2>1 DEF IInv, ChecksStable
  <2>3. QED
    BY <2>1, <2>2, ModDistinct
<1>2. QED
  BY <1>1, Invariance, PTL

(* The cursors never cross and never run more than a ring apart, and each
   position is popped once, in order. *)
THEOREM CursorsOrdered == Spec => []CursorsBounded
<1>1. IInv => CursorsBounded
  BY DEF IInv
<1>2. QED
  BY <1>1, Invariance, PTL

(* popEvent hands out nothing that no pushEvent filled. *)
THEOREM DeliveredWasPushed == Spec => []OnlyPushedDelivered
<1>1. IInv => OnlyPushedDelivered
  BY DEF IInv
<1>2. QED
  BY <1>1, Invariance, PTL

-----------------------------------------------------------------------------
(* Refinement *)

(* The queue callers see is a sequence of events of the length the cursors
   give. *)
LEMMA QueueIsSeq ==
  ASSUME IInv
  PROVE  /\ Queue \in Seq(Events)
         /\ Len(Queue) = head - tail
         /\ \A i \in 1 .. (head - tail) : Queue[i] = ring[(tail + i - 1) % Size]
<1>1. head \in Nat /\ tail \in Nat /\ head - tail \in Nat
  BY DEF IInv, TypeOK, CursorsBounded
<1>2. \A i \in 1 .. (head - tail) : ring[(tail + i - 1) % Size] \in Events
  <2> SUFFICES ASSUME NEW i \in 1 .. (head - tail)
               PROVE  ring[(tail + i - 1) % Size] \in Events
    OBVIOUS
  <2> DEFINE k == tail + i - 1
  <2>1. k \in Nat /\ tail <= k /\ k < head
    BY <1>1
  <2>2. QED
    BY <2>1 DEF IInv, SlotsFilled
<1>3. Queue \in [1 .. (head - tail) -> Events]
  BY <1>2 DEF Queue
<1>4. Queue \in Seq(Events) /\ Len(Queue) = head - tail
  BY <1>1, <1>3, FunctionIsSeq
<1>5. QED
  BY <1>4 DEF Queue

\* A step that leaves the cursors and the published slots alone.
LEMMA QueueUnchanged ==
  ASSUME IInv, UNCHANGED <<head, tail>>,
         \A k \in Nat : (tail <= k /\ k < head) => ring'[k % Size] = ring[k % Size]
  PROVE  Queue' = Queue
<1>1. head \in Nat /\ tail \in Nat
  BY DEF IInv, TypeOK
<1>2. \A i \in 1 .. (head - tail) :
         ring'[(tail + i - 1) % Size] = ring[(tail + i - 1) % Size]
  <2> SUFFICES ASSUME NEW i \in 1 .. (head - tail)
               PROVE  ring'[(tail + i - 1) % Size] = ring[(tail + i - 1) % Size]
    OBVIOUS
  <2> DEFINE k == tail + i - 1
  <2>1. k \in Nat /\ tail <= k /\ k < head
    BY <1>1
  <2>2. QED
    BY <2>1
<1>3. QED
  BY <1>2 DEF Queue

(* The ring starts as an empty FIFO. *)
LEMMA InitRefines == Init => Fifo!Init
<1> SUFFICES ASSUME Init PROVE Fifo!Init
  OBVIOUS
<1>1. Queue = <<>>
  BY DEF Init, Queue
<1>2. Refused = 0
  BY DEF Init, Refused, Threads
<1>3. QED
  BY <1>1, <1>2 DEF Fifo!Init, Init

(* Every producer step is a Put, a Refuse or no step of the FIFO. *)
LEMMA PushRefines ==
  ASSUME IInv, IInv', NEW p \in Producers,
         PushBody(p) \/ \E e \in Events : PushLock(p, e)
  PROVE  [Fifo!Next]_(Fifo!vars)
<1> USE DEF Threads, locks, cursors, Goto
<1>0. Size \in Nat /\ Size > 0 /\ p \in Threads /\ p # NoThread /\ p \notin Consumers
  BY QueueAssumption
<1>1. \A q \in Producers : pc[q] = "drop" => producerLock = q
  BY DEF IInv, LocksHeld, PushPcs
<1>2. drops \in Nat /\ head \in Nat /\ tail \in Nat /\ pc \in [Threads -> {"idle"} \cup PushPcs \cup PopPcs]
  BY DEF IInv, TypeOK
<1>3. CASE \E e \in Events : PushLock(p, e)
  <2>1. Queue' = Queue
    BY <1>3, QueueUnchanged DEF PushLock
  <2>2. Refused' = Refused
    BY <1>3, <1>2, <1>0 DEF Refused, PushLock
  <2>3. QED
    BY <2>1, <2>2, <1>3 DEF Fifo!vars, PushLock
<1>4. CASE PushLoadTail(p)
  <2>1. Queue' = Queue
    BY <1>4, QueueUnchanged DEF PushLoadTail
  <2>2. CASE head - tail >= Size
    <3>1. Len(Queue) = Size
      BY <2>2, <1>0, <1>2, QueueIsSeq DEF IInv, CursorsBounded
    <3>2. pc[p] = "loadTail" /\ producerLock = p
      BY <1>4 DEF IInv, LocksHeld, PushPcs, PushLoadTail
    <3>3. ~ \E q \in Producers : pc[q] = "drop"
      BY <3>2, <1>1
    <3>4. pc'[p] = "drop" /\ drops' = drops
      BY <1>4, <2>2, <1>2, <1>0 DEF PushLoadTail
    <3>5. Refused' = Refused + 1
      BY <3>3, <3>4, <1>2 DEF Refused
    <3>6. Fifo!Refuse
      BY <3>1, <3>5, <2>1, <1>4 DEF Fifo!Refuse, PushLoadTail
    <3>7. QED
      BY <3>6 DEF Fifo!Next
  <2>3. CASE head - tail < Size
    <3>1. \A q \in Producers : pc'[q] = "drop" <=> pc[q] = "drop"
      BY <1>4, <2>3, <1>2, <1>0 DEF PushLoadTail
    <3>2. Refused' = Refused
      BY <3>1, <1>4 DEF Refused, PushLoadTail
    <3>3. QED
      BY <2>1, <3>2, <1>4 DEF Fifo!vars, PushLoadTail
  <2>4. QED
    BY <2>2, <2>3, <1>0, <1>2
<1>5. CASE PushDrop(p)
  <2>1. Queue' = Queue
    BY <1>5, QueueUnchanged DEF PushDrop
  <2>2. pc[p] = "drop" /\ producerLock = p
    BY <1>5 DEF IInv, LocksHeld, PushPcs, PushDrop
  <2>3. ~ \E q \in Producers : pc'[q] = "drop"
    BY <2>2, <1>1, <1>2, <1>0, <1>5 DEF PushDrop
  <2>4. Refused' = Refused
    BY <2>2, <2>3, <1>2, <1>5 DEF Refused, PushDrop
  <2>5. QED
    BY <2>1, <2>4, <1>5 DEF Fifo!vars, PushDrop
<1>6. CASE PushWrite(p)
  <2>1. \A k \in Nat : (tail <= k /\ k < head) => ring'[k % Size] = ring[k % Size]
    <3> SUFFICES ASSUME NEW k \in Nat, tail <= k, k < head
                 PROVE  ring'[k % Size] = ring[k % Size]
      OBVIOUS
    <3>1. head < k + Size
      BY <1>6, <1>0, <1>2 DEF IInv, ChecksStable, PushWrite
    <3>2. k % Size # head % Size
      BY <3>1, <1>2, ModDistinct
    <3>3. k % Size \in Slots
      BY ModInSlots
    <3>4. QED
      BY <3>2, <3>3, <1>6 DEF IInv, TypeOK, PushWrite
  <2>2. Queue' = Queue
    BY <1>6, <2>1, QueueUnchanged DEF PushWrite
  <2>3. Refused' = Refused
    BY <1>6, <1>2, <1>0 DEF Refused, PushWrite
  <2>4. QED
    BY <2>2, <2>3, <1>6 DEF Fifo!vars, PushWrite
<1>7. CASE PushPublish(p)
  <2>1. local[p] \in Events /\ ring[head % Size] = local[p] /\ head - tail < Size
    BY <1>7 DEF IInv, CopiesAgree, ChecksStable, PushPcs, PushPublish
  <2>2. tail <= head /\ head' = head + 1 /\ tail' = tail /\ ring' = ring
    BY <1>7 DEF IInv, CursorsBounded, PushPublish
  <2>3. Queue' = Append(Queue, local[p])
    <3> DEFINE n == head - tail + 1
    <3>1. n \in Nat
      BY <2>2, <1>2
    <3>2. /\ Append(Queue, local[p]) \in Seq(Events)
          /\ Len(Append(Queue, local[p])) = n
          /\ \A i \in 1 .. (n - 1) : Append(Queue, local[p])[i] = Queue[i]
          /\ Append(Queue, local[p])[n] = local[p]
      BY <2>1, <1>2, <2>2, QueueIsSeq
    <3>3. Queue' = [i \in 1 .. n |-> ring[(tail + i - 1) % Size]]
      <4>1. head' - tail' = n
        BY <2>2, <1>2
      <4>2. QED
        BY <4>1, <2>2 DEF Queue
    <3>4. ASSUME NEW i \in 1 .. n
          PROVE  ring[(tail + i - 1) % Size] = Append(Queue, local[p])[i]
      <4>1. CASE i \in 1 .. (n - 1)
        BY <4>1, <3>2, QueueIsSeq
      <4>2. CASE i = n
        <5>1. tail + i - 1 = head
          BY <4>2, <1>2
        <5>2. QED
          BY <5>1, <4>2, <3>2, <2>1
      <4>3. i \in 1 .. (n - 1) \/ i = n
        BY <1>2
      <4>4. QED
        BY <4>1, <4>2, <4>3
    <3> HIDE DEF n
    <3>5. Append(Queue, local[p]) = [i \in 1 .. n |-> Append(Queue, local[p])[i]]
      BY <3>2, <3>1, LenProperties
    <3>6. QED
      BY <3>3, <3>4, <3>5
  <2>4. Refused' = Refused
    BY <1>7, <1>2, <1>0 DEF Refused, PushPublish
  <2>5. Fifo!Put(local[p])
    BY <2>1, <2>2, <2>3, <2>4, <1>2, <1>7, QueueIsSeq DEF Fifo!Put, PushPublish
  <2>6. QED
    BY <2>1, <2>5 DEF Fifo!Next
<1>8. CASE PushUnlock(p)
  <2>1. Queue' = Queue
    BY <1>8, QueueUnchanged DEF PushUnlock
  <2>2. Refused' = Refused
    BY <1>8, <1>2, <1>0 DEF Refused, PushUnlock
  <2>3. QED
    BY <2>1, <2>2, <1>8 DEF Fifo!vars, PushUnlock
<1>9. QED
  BY <1>3, <1>4, <1>5, <1>6, <1>7, <1>8 DEF PushBody

(* Every consumer step is a Get or no step of the FIFO. *)
LEMMA PopRefines ==
  ASSUME IInv, NEW c \in Consumers, PopBody(c) \/ PopLock(c)
  PROVE  [Fifo!Next]_(Fifo!vars)
<1> USE DEF Threads, locks, cursors, Goto
<1>0. Size \in Nat /\ Size > 0 /\ c \in Threads /\ c \notin Producers
  BY QueueAssumption
<1>1. drops \in Nat /\ head \in Nat /\ tail \in Nat /\ pc \in [Threads -> {"idle"} \cup PushPcs \cup PopPcs]
  BY DEF IInv, TypeOK
<1>2. \A p \in Producers : pc'[p] = pc[p]
  BY <1>0, <1>1 DEF PopBody, PopLock, PopLoadHead, PopRead, PopAdvance, PopUnlock
<1>3. Refused' = Refused
  BY <1>2 DEF Refused, PopBody, PopLock, PopLoadHead, PopRead, PopAdvance, PopUnlock
<1>4. CASE PopLock(c) \/ PopLoadHead(c) \/ PopRead(c) \/ PopUnlock(c)
  <2>1. Queue' = Queue
    BY <1>4, QueueUnchanged DEF PopLock, PopLoadHead, PopRead, PopUnlock
  <2>2. QED
    BY <2>1, <1>3, <1>4 DEF Fifo!vars, PopLock, PopLoadHead, PopRead, PopUnlock
<1>5. CASE PopAdvance(c)
  <2>1. /\ tail < head
        /\ local[c] = ring[tail % Size]
        /\ tail' = tail + 1 /\ head' = head /\ ring' = ring
    BY <1>5 DEF IInv, ChecksStable, CopiesAgree, PopAdvance
  <2> DEFINE n == head - tail
  <2>2. n \in Nat /\ n >= 1 /\ n - 1 \in Nat
    BY <2>1, <1>1
  <2>3. Queue \in Seq(Events) /\ Len(Queue) = n
        /\ \A i \in 1 .. n : Queue[i] = ring[(tail + i - 1) % Size]
    BY QueueIsSeq
  <2>4. Queue # <<>> /\ Head(Queue) = Queue[1]
    BY <2>2, <2>3
  <2>5. Head(Queue) = local[c]
    BY <2>1, <2>2, <2>3, <2>4, <1>1
  <2>6. Queue' = Tail(Queue)
    <3>1. Tail(Queue) \in Seq(Events) /\ Len(Tail(Queue)) = n - 1
          /\ \A i \in 1 .. (n - 1) : Tail(Queue)[i] = Queue[i + 1]
      BY <2>2, <2>3, <2>4, HeadTailProperties
    <3>2. Queue' = [i \in 1 .. (n - 1) |-> ring[(tail + 1 + i - 1) % Size]]
      <4>1. head' - tail' = n - 1
        BY <2>1, <1>1
      <4>2. QED
        BY <4>1, <2>1 DEF Queue
    <3>3. ASSUME NEW i \in 1 .. (n - 1)
          PROVE  ring[(tail + 1 + i - 1) % Size] = Tail(Queue)[i]
      <4>1. i + 1 \in 1 .. n /\ tail + 1 + i - 1 = tail + (i + 1) - 1
        BY <2>2, <1>1
      <4>2. Tail(Queue)[i] = ring[(tail + (i + 1) - 1) % Size]
        BY <4>1, <3>1, <2>3
      <4>3. QED
        BY <4>1, <4>2
    <3> HIDE DEF n
    <3>4. Tail(Queue) = [i \in 1 .. (n - 1) |-> Tail(Queue)[i]]
      BY <3>1, <2>2, LenProperties
    <3>5. QED
      BY <3>2, <3>3, <3>4
  <2>7. delivered' = Append(delivered, Head(Queue))
    BY <2>5, <1>5 DEF PopAdvance
  <2>8. Fifo!Get
    BY <2>4, <2>6, <2>7, <1>3 DEF Fifo!Get
  <2>9. QED
    BY <2>8 DEF Fifo!Next
<1>6. QED
  BY <1>4, <1>5 DEF PopBody

(* The lock-per-end ring is a bounded FIFO: for every number of threads and
   every size it keeps the order, loses nothing it accepted, duplicates
   nothing, and counts a drop only for a push that met a full queue. *)
THEOREM RefinementTheorem == Spec => RefinesFifo
<1>1. IInv /\ IInv' /\ [Next]_vars => [Fifo!Next]_(Fifo!vars)
  <2> SUFFICES ASSUME IInv, IInv', [Next]_vars PROVE [Fifo!Next]_(Fifo!vars)
    OBVIOUS
  <2>1. CASE UNCHANGED vars
    BY <2>1 DEF vars, Fifo!vars, Queue, Refused
  <2>2. ASSUME NEW p \in Producers, PushBody(p) \/ \E e \in Events : PushLock(p, e)
        PROVE  [Fifo!Next]_(Fifo!vars)
    BY <2>2, PushRefines
  <2>3. ASSUME NEW c \in Consumers, PopBody(c) \/ PopLock(c)
        PROVE  [Fifo!Next]_(Fifo!vars)
    BY <2>3, PopRefines
  <2>4. QED
    BY <2>1, <2>2, <2>3 DEF Next
<1>2. QED
  BY <1>1, InitRefines, Invariance, PTL DEF Spec, RefinesFifo, Fifo!Spec

-----------------------------------------------------------------------------
(* The nose link *)

Frame == [run : 1 .. MaxRuns, id : 1 .. MaxEvents, kind : Kinds]
Unit == [frame : Frame, part : Nat \ {0}]

\* The order in which frames are made, and the place of a frame in it.
Before(f, g) == f.run < g.run \/ (f.run = g.run /\ f.id < g.id)
Ordinal(f) == f.run * MaxEvents - MaxEvents + f.id

Minted(f) == f.run < run \/ (f.run = run /\ f.id <= seq)
MintedCount == IF run = 0 THEN 0 ELSE run * MaxEvents - MaxEvents + seq

\* The reader is in readExact, and what it has read belongs to the line.
Reading == {"header", "payload", "discard"}
Serving == Reading \cup {"client", "decode"}

\* The units on their way, the next one to be used first.
Kept == IF place \in Reading THEN acc ELSE <<>>
Coming == IF pipe = "connected" THEN out ELSE <<>>
Arrived == Kept \o buf
Line == Arrived \o Coming

Remaining(u) == FrameSize[u.frame.kind] - u.part

\* Frames follow one another: the rest of a frame comes at once, then a later
\* frame from its first unit on.
Follows(s) ==
  /\ \A i \in 1 .. Len(s) : Remaining(s[i]) >= 0
  /\ \A i, j \in 1 .. Len(s) : i < j =>
       IF j - i <= Remaining(s[i])
       THEN s[j].frame = s[i].frame /\ s[j].part = s[i].part + (j - i)
       ELSE Before(s[i].frame, s[j].frame)
  /\ \A i \in 1 .. Len(s) - 1 : Remaining(s[i]) = 0 => s[i + 1].part = 1

OneRun(s) == \A i, j \in 1 .. Len(s) : s[i].frame.run = s[j].frame.run

\* A discard that a stop cut short leaves the rest of its frame in the pipe,
\* which is then disconnected.
Doomed == stop /\ place \in {"client", "disconnect"}

Types ==
  /\ run \in 0 .. MaxRuns /\ seq \in 0 .. MaxEvents
  /\ up \in BOOLEAN /\ handle \in BOOLEAN /\ canSetMode \in BOOLEAN /\ stop \in BOOLEAN
  /\ pipe \in {"none", "listening", "connected", "closing", "disconnected"}
  /\ mode \in {"nowait", "wait"}
  /\ place \in {"create", "loop", "connect", "setMode", "client", "header", "payload",
                "discard", "decode", "disconnect", "ended"}
  /\ acc \in Seq(Unit) /\ buf \in Seq(Unit) /\ out \in Seq(Unit)
  /\ submitted \in Seq(Frame) /\ sent \in SUBSET Frame
  /\ previous \in 0 .. MaxEvents
  /\ read \in Nat /\ rejected \in Nat /\ dropped \in Nat
  /\ taken \in Nat /\ cut \in Nat

Links ==
  /\ run = 0 => ~up /\ seq = 0
  /\ handle => up
  /\ ~handle => out = <<>>
  /\ pipe = "connected" => handle
  /\ pipe \notin {"connected", "closing"} =>
       /\ buf = <<>> /\ place # "decode"
       /\ place \in Reading => acc = <<>>
       /\ place \in Serving => previous = 0
  /\ place = "create" => pipe = "none"
  /\ Len(buf) <= Capacity

Outs ==
  \A i \in 1 .. Len(out) : /\ out[i].frame = out[1].frame
                           /\ Remaining(out[i]) = Len(out) - i

Reads ==
  /\ place = "header" => Len(acc) < HeaderLen
  /\ place \in {"payload", "discard"} => acc # <<>>

Lines ==
  /\ Follows(Line) /\ OneRun(Line)
  /\ \A i \in 1 .. Len(Line) : Minted(Line[i].frame)
  /\ pipe = "connected" /\ Line # <<>> => Remaining(Line[Len(Line)]) = 0
  /\ pipe = "connected" => \A i \in 1 .. Len(Line) : Line[i].frame.run = run
  /\ \A i \in 1 .. Len(Arrived) :
       Remaining(Arrived[i]) = 0 => Arrived[i].frame \in sent

\* What the reader has done lies before what is still in the line.
Orders ==
  /\ ~Doomed /\ Line # <<>> => Line[1].part = 1
  /\ ~Doomed => \A i \in 1 .. Len(Line) :
       /\ taken + cut < Ordinal(Line[i].frame)
       /\ \A k \in 1 .. Len(submitted) : Before(submitted[k], Line[i].frame)
       /\ place \in Serving => previous < Line[i].frame.id
  /\ place \in Serving /\ pipe = "connected" => previous <= seq

Decodes ==
  place = "decode" =>
    /\ FramesAreWhole /\ acc # <<>>
    /\ acc[1].frame \in sent /\ Minted(acc[1].frame)
    /\ previous < acc[1].frame.id
    /\ taken + cut <= Ordinal(acc[1].frame)
    /\ pipe = "connected" => acc[1].frame.run = run
    /\ \A k \in 1 .. Len(submitted) : Before(submitted[k], acc[1].frame)
    /\ \A i \in 1 .. Len(Line) : /\ Before(acc[1].frame, Line[i].frame)
                                 /\ acc[1].frame.run = Line[i].frame.run

Accounts ==
  /\ EveryFrameCounted
  /\ SubmittedInOrder
  /\ \A k \in 1 .. Len(submitted) : Minted(submitted[k])
  /\ read <= taken /\ taken + cut <= MintedCount
  /\ regressions = 0

LinkInv == Types /\ Links /\ Outs /\ Reads /\ Lines /\ Orders /\ Decodes /\ Accounts

-----------------------------------------------------------------------------
LEMMA Glue ==
  ASSUME NEW S, NEW s \in Seq(S), NEW a \in Seq(S), NEW b \in Seq(S), NEW n \in Nat,
         Len(a) = n, Len(b) = Len(s) - n,
         \A i \in 1 .. n : a[i] = s[i],
         \A i \in 1 .. Len(s) - n : b[i] = s[n + i]
  PROVE  a \o b = s
<1>1. a \o b \in Seq(S) /\ Len(a \o b) = Len(s)
  <2>1. Len(a \o b) = Len(a) + Len(b)
    OBVIOUS
  <2>2. Len(s) \in Nat
    OBVIOUS
  <2>3. a \o b \in Seq(S)
    OBVIOUS
  <2> QED  BY <2>1, <2>2, <2>3
<1>2. \A i \in 1 .. Len(s) : (a \o b)[i] = s[i]
  <2>1. Len(a) + Len(b) = Len(s)
    OBVIOUS
  <2>2. \A i \in 1 .. Len(s) : (a \o b)[i] = IF i <= Len(a) THEN a[i] ELSE b[i - Len(a)]
    BY <2>1, ConcatProperties
  <2>3. \A i \in 1 .. Len(s) : i <= n \/ (i - n \in 1 .. Len(s) - n /\ n + (i - n) = i)
    OBVIOUS
  <2> QED  BY <2>2, <2>3
<1> QED  BY <1>1, <1>2, SeqEqual

LEMMA SplitSeq ==
  ASSUME NEW S, NEW s \in Seq(S), NEW n \in 0 .. Len(s)
  PROVE  /\ SubSeq(s, 1, n) \in Seq(S) /\ SubSeq(s, n + 1, Len(s)) \in Seq(S)
         /\ Len(SubSeq(s, 1, n)) = n /\ Len(SubSeq(s, n + 1, Len(s))) = Len(s) - n
         /\ \A i \in 1 .. n : SubSeq(s, 1, n)[i] = s[i]
         /\ \A i \in 1 .. Len(s) - n : SubSeq(s, n + 1, Len(s))[i] = s[n + i]
         /\ SubSeq(s, 1, n) \o SubSeq(s, n + 1, Len(s)) = s
<1> DEFINE a == SubSeq(s, 1, n)
           b == SubSeq(s, n + 1, Len(s))
<1>1. \A i \in 1 .. Len(s) : s[i] \in S
  BY ElementOfSeq
<1>2. Len(s) \in Nat
  OBVIOUS
<1>3. \A i \in 1 .. n : s[i] \in S
  BY <1>1, <1>2
<1>4. \A i \in n + 1 .. Len(s) : s[i] \in S
  BY <1>1, <1>2
<1>5. /\ a \in Seq(S) /\ Len(a) = n /\ \A i \in 1 .. n : a[i] = s[i]
  BY <1>2, <1>3, SubSeqProperties
<1>6. /\ b \in Seq(S) /\ Len(b) = Len(s) - n
      /\ \A i \in 1 .. Len(s) - n : b[i] = s[n + i]
  BY <1>2, <1>4, SubSeqProperties
<1>7. a \o b = s
  <2>1. n \in Nat
    OBVIOUS
  <2> HIDE DEF a, b
  <2> QED  BY <2>1, <1>5, <1>6, Glue
<1> QED  BY <1>5, <1>6, <1>7

\* What becomes of a line when its first n units are taken off it.
LEMMA RestOfLine ==
  ASSUME NEW s \in Seq(Unit), NEW t \in Seq(Unit), NEW n \in 0 .. Len(s),
         Len(t) = Len(s) - n, \A i \in 1 .. Len(t) : t[i] = s[n + i],
         Follows(s), OneRun(s)
  PROVE  Follows(t) /\ OneRun(t)
<1>1. Len(s) \in Nat /\ Len(t) \in Nat
  OBVIOUS
<1>2. OneRun(t)
  BY <1>1 DEF OneRun
<1>3. \A i \in 1 .. Len(t) : n + i \in 1 .. Len(s) /\ t[i] = s[n + i]
  BY <1>1
<1>4. \A i \in 1 .. Len(t) : Remaining(t[i]) >= 0
  BY <1>3 DEF Follows
<1>5. ASSUME NEW i \in 1 .. Len(t), NEW j \in 1 .. Len(t), i < j
      PROVE  IF j - i <= Remaining(t[i])
             THEN t[j].frame = t[i].frame /\ t[j].part = t[i].part + (j - i)
             ELSE Before(t[i].frame, t[j].frame)
  <2>1. n + i < n + j /\ (n + j) - (n + i) = j - i
    BY <1>1, <1>5
  <2> QED  BY <1>3, <1>5, <2>1 DEF Follows
<1>6. \A i \in 1 .. Len(t) - 1 : Remaining(t[i]) = 0 => t[i + 1].part = 1
  <2>1. \A i \in 1 .. Len(t) - 1 : /\ i \in 1 .. Len(t) /\ i + 1 \in 1 .. Len(t)
                                   /\ n + i \in 1 .. Len(s) - 1
                                   /\ n + (i + 1) = (n + i) + 1
    BY <1>1
  <2> QED  BY <1>3, <2>1 DEF Follows
<1> QED  BY <1>2, <1>4, <1>5, <1>6 DEF Follows

\* And when it is cut off after its first n.
LEMMA StartOfLine ==
  ASSUME NEW s \in Seq(Unit), NEW t \in Seq(Unit), Len(t) <= Len(s),
         \A i \in 1 .. Len(t) : t[i] = s[i], Follows(s), OneRun(s)
  PROVE  Follows(t) /\ OneRun(t)
<1>1. Len(s) \in Nat /\ Len(t) \in Nat
  OBVIOUS
<1>2. \A i \in 1 .. Len(t) : i \in 1 .. Len(s)
  BY <1>1
<1>3. OneRun(t)
  BY <1>1, <1>2 DEF OneRun
<1>4. \A i \in 1 .. Len(t) : Remaining(t[i]) >= 0
  BY <1>2 DEF Follows
<1>5. ASSUME NEW i \in 1 .. Len(t), NEW j \in 1 .. Len(t), i < j
      PROVE  IF j - i <= Remaining(t[i])
             THEN t[j].frame = t[i].frame /\ t[j].part = t[i].part + (j - i)
             ELSE Before(t[i].frame, t[j].frame)
  BY <1>2, <1>5 DEF Follows
<1>6. \A i \in 1 .. Len(t) - 1 : Remaining(t[i]) = 0 => t[i + 1].part = 1
  <2>1. \A i \in 1 .. Len(t) - 1 : /\ i \in 1 .. Len(t) /\ i + 1 \in 1 .. Len(t)
                                   /\ i \in 1 .. Len(s) - 1
    BY <1>1
  <2> QED  BY <2>1 DEF Follows
<1> QED  BY <1>3, <1>4, <1>5, <1>6 DEF Follows

LEMMA EmptyLine == Follows(<<>>) /\ OneRun(<<>>)
BY DEF Follows, OneRun

LEMMA UnitsOf ==
  ASSUME NEW f \in Frame
  PROVE  /\ Units(f) \in Seq(Unit) /\ Len(Units(f)) = FrameSize[f.kind]
         /\ FrameSize[f.kind] \in Nat \ {0}
         /\ \A i \in 1 .. FrameSize[f.kind] :
              Units(f)[i].frame = f /\ Units(f)[i].part = i
<1>1. FrameSize[f.kind] \in Nat \ {0}
  BY NoseAssumption DEF Frame, Kinds
<1>2. \A i \in 1 .. FrameSize[f.kind] : [frame |-> f, part |-> i] \in Unit
  BY <1>1 DEF Unit
<1>3. Units(f) \in [1 .. FrameSize[f.kind] -> Unit]
  BY <1>2 DEF Units
<1>4. Units(f) \in Seq(Unit)
  BY <1>1, <1>3, SeqDef
<1>5. Len(Units(f)) = FrameSize[f.kind]
  BY <1>1, <1>3, <1>4
<1> QED  BY <1>1, <1>4, <1>5 DEF Units

LEMMA LineInt ==
  ASSUME NEW s \in Seq(Unit), NEW i \in 1 .. Len(s)
  PROVE  /\ s[i] \in Unit /\ s[i].frame \in Frame /\ s[i].part \in Nat
         /\ FrameSize[s[i].frame.kind] \in Nat /\ Remaining(s[i]) \in Int
<1>1. s[i] \in Unit
  BY ElementOfSeq
<1>2. s[i].frame \in Frame /\ s[i].part \in Nat
  BY <1>1 DEF Unit
<1>3. FrameSize[s[i].frame.kind] \in Nat
  BY <1>2, NoseAssumption DEF Frame, Kinds
<1> QED  BY <1>1, <1>2, <1>3 DEF Remaining

\* t is s with the frame f behind it.
GrownBy(s, f, t) ==
  /\ t \in Seq(Unit) /\ t # <<>> /\ Len(t) >= Len(s)
  /\ Follows(t) /\ OneRun(t) /\ Remaining(t[Len(t)]) = 0
  /\ s # <<>> => t[1] = s[1]
  /\ s = <<>> => t[1].part = 1
  /\ \A i \in 1 .. Len(t) : t[i].frame = f \/ (i \in 1 .. Len(s) /\ t[i] = s[i])

LEMMA LineGrows ==
  ASSUME NEW s \in Seq(Unit), NEW f \in Frame,
         Follows(s), OneRun(s),
         s # <<>> => Remaining(s[Len(s)]) = 0,
         \A i \in 1 .. Len(s) : Before(s[i].frame, f) /\ s[i].frame.run = f.run
  PROVE  GrownBy(s, f, s \o Units(f))
<1> DEFINE u == Units(f)
           t == s \o Units(f)
           k == Len(s)
           m == FrameSize[f.kind]
<1>1. /\ u \in Seq(Unit) /\ Len(u) = m /\ m \in Nat \ {0}
      /\ \A i \in 1 .. m : u[i].frame = f /\ u[i].part = i
  BY UnitsOf
<1>2. k \in Nat
  OBVIOUS
<1> HIDE DEF u, t
<1>3. t \in Seq(Unit) /\ Len(t) = k + m
  <2>1. t = s \o u
    BY DEF u, t
  <2>2. u \in Seq(Unit)
    BY <1>1
  <2>3. s \o u \in Seq(Unit) /\ Len(s \o u) = Len(s) + Len(u)
    BY <2>2
  <2> QED  BY <1>1, <2>1, <2>3
<1>4. \A i \in 1 .. k + m : t[i] = IF i <= k THEN s[i] ELSE u[i - k]
  <2>1. t = s \o u
    BY DEF u, t
  <2> QED  BY <1>1, <2>1, ConcatProperties
<1>5. \A i \in 1 .. k : i \in 1 .. k + m /\ t[i] = s[i]
  BY <1>1, <1>2, <1>4
<1>6. \A i \in k + 1 .. k + m : t[i].frame = f /\ t[i].part = i - k
  <2> SUFFICES ASSUME NEW i \in k + 1 .. k + m
               PROVE  t[i].frame = f /\ t[i].part = i - k
    OBVIOUS
  <2>1. i - k \in 1 .. m /\ i \in 1 .. k + m /\ ~(i <= k)
    BY <1>1, <1>2
  <2> QED  BY <1>1, <1>4, <2>1
<1>7. \A i \in 1 .. k + m : i \in 1 .. k \/ i \in k + 1 .. k + m
  BY <1>1, <1>2
<1>8. \A i \in 1 .. Len(t) : t[i].frame = f \/ (i \in 1 .. Len(s) /\ t[i] = s[i])
  BY <1>3, <1>5, <1>6, <1>7
<1>9. OneRun(t)
  <2>1. \A i \in 1 .. Len(t) : t[i].frame.run = f.run
    BY <1>8
  <2> QED  BY <2>1 DEF OneRun
<1>10. Remaining(t[Len(t)]) = 0 /\ t # <<>>
  <2>1. k + m \in k + 1 .. k + m
    BY <1>1, <1>2
  <2>2. t[Len(t)].frame = f /\ t[Len(t)].part = m
    <3>1. Len(t) = k + m /\ (k + m) - k = m
      BY <1>1, <1>2, <1>3
    <3> QED  BY <1>6, <2>1, <3>1
  <2> QED  BY <1>1, <1>2, <1>3, <2>2 DEF Remaining
<1>11. \A i \in 1 .. Len(t) : Remaining(t[i]) >= 0
  <2>1. \A i \in 1 .. k : Remaining(t[i]) >= 0
    BY <1>5 DEF Follows
  <2>2. \A i \in k + 1 .. k + m : Remaining(t[i]) >= 0
    <3> SUFFICES ASSUME NEW i \in k + 1 .. k + m
                 PROVE  Remaining(t[i]) >= 0
      OBVIOUS
    <3>1. Remaining(t[i]) = m - (i - k)
      BY <1>6 DEF Remaining
    <3> QED  BY <1>1, <1>2, <3>1
  <2> QED  BY <1>3, <1>7, <2>1, <2>2
<1>12. \A i \in 1 .. k, j \in k + 1 .. k + m : ~ (j - i <= Remaining(s[i]))
  <2> SUFFICES ASSUME NEW i \in 1 .. k, NEW j \in k + 1 .. k + m, j - i <= Remaining(s[i])
               PROVE  FALSE
    OBVIOUS
  <2>1. s # <<>> /\ k \in 1 .. k
    BY <1>2
  <2>2. Remaining(s[k]) = 0
    BY <2>1
  <2>3. i # k
    BY <2>2, <1>2
  <2>4. i < k /\ k - i <= Remaining(s[i])
    BY <1>2, <2>3, LineInt
  <2>5. s[k].frame = s[i].frame /\ s[k].part = s[i].part + (k - i)
    BY <2>1, <2>4 DEF Follows
  <2>6. Remaining(s[i]) = k - i
    BY <1>2, <2>2, <2>5, LineInt DEF Remaining
  <2> QED  BY <1>2, <2>6
<1>13. ASSUME NEW i \in 1 .. Len(t), NEW j \in 1 .. Len(t), i < j
       PROVE  IF j - i <= Remaining(t[i])
              THEN t[j].frame = t[i].frame /\ t[j].part = t[i].part + (j - i)
              ELSE Before(t[i].frame, t[j].frame)
  <2>1. CASE j \in 1 .. k
    <3>1. i \in 1 .. k
      BY <1>2, <1>13, <2>1
    <3> QED  BY <1>5, <1>13, <2>1, <3>1 DEF Follows
  <2>2. CASE i \in 1 .. k /\ j \in k + 1 .. k + m
    BY <1>5, <1>6, <1>12, <2>2
  <2>3. CASE i \in k + 1 .. k + m /\ j \in k + 1 .. k + m
    <3>1. t[j].frame = f /\ t[i].frame = f /\ t[j].part = j - k /\ t[i].part = i - k
      BY <1>6, <2>3
    <3>2. j - i <= Remaining(t[i])
      BY <1>1, <1>2, <2>3, <3>1 DEF Remaining
    <3>3. j - k = (i - k) + (j - i)
      BY <1>2, <2>3
    <3> QED  BY <3>1, <3>2, <3>3
  <2>4. i \in 1 .. k \/ i \in k + 1 .. k + m
    BY <1>3, <1>7
  <2>5. j \in 1 .. k \/ j \in k + 1 .. k + m
    BY <1>3, <1>7
  <2> QED  BY <2>1, <2>2, <2>3, <2>4, <2>5
<1>14. \A i \in 1 .. Len(t) - 1 : Remaining(t[i]) = 0 => t[i + 1].part = 1
  <2> SUFFICES ASSUME NEW i \in 1 .. Len(t) - 1, Remaining(t[i]) = 0
               PROVE  t[i + 1].part = 1
    OBVIOUS
  <2>1. CASE i \in 1 .. k - 1
    <3>1. i \in 1 .. k /\ i + 1 \in 1 .. k
      BY <1>2, <2>1
    <3> QED  BY <1>5, <2>1, <3>1 DEF Follows
  <2>2. CASE i = k
    <3>1. i + 1 \in k + 1 .. k + m /\ (i + 1) - k = 1
      BY <1>1, <1>2, <2>2
    <3> QED  BY <1>6, <3>1
  <2>3. CASE i \in k + 1 .. k + m - 1
    <3>1. i \in k + 1 .. k + m
      BY <1>1, <1>2, <2>3
    <3>2. t[i].frame = f /\ t[i].part = i - k
      BY <1>6, <3>1
    <3>3. m - (i - k) = 0
      BY <3>2 DEF Remaining
    <3> QED  BY <1>1, <1>2, <2>3, <3>3
  <2> QED  BY <1>1, <1>2, <1>3, <2>1, <2>2, <2>3
<1>15. Follows(t)
  BY <1>11, <1>13, <1>14 DEF Follows
<1>16. (s # <<>> => t[1] = s[1]) /\ (s = <<>> => t[1].part = 1)
  <2>1. s # <<>> => 1 \in 1 .. k
    BY <1>2
  <2>2. s = <<>> => k = 0 /\ 1 \in k + 1 .. k + m /\ 1 - k = 1
    BY <1>1, <1>2
  <2> QED  BY <1>5, <1>6, <2>1, <2>2
<1> QED
  <2>1. Len(t) >= Len(s)
    BY <1>1, <1>2, <1>3
  <2>2. GrownBy(s, f, t)
    BY <1>3, <1>8, <1>9, <1>10, <1>15, <1>16, <2>1 DEF GrownBy
  <2> QED  BY <2>2 DEF t

\* s begins with the n units of the frame f.
Begins(s, f, n) ==
  /\ f \in Frame /\ n # 0
  /\ \A i \in 1 .. n : s[i].frame = f /\ s[i].part = i
  /\ \A i \in n + 1 .. Len(s) : Before(f, s[i].frame) /\ f.run = s[i].frame.run
  /\ n < Len(s) => s[n + 1].part = 1

\* A line that begins with a first unit and is long enough begins with a frame.
LEMMA FirstFrame ==
  ASSUME NEW s \in Seq(Unit), s # <<>>, s[1].part = 1, Follows(s), OneRun(s),
         NEW f, f = s[1].frame, NEW n \in Nat, n = FrameSize[f.kind], n <= Len(s)
  PROVE  Begins(s, f, n)
<1>1. Len(s) \in Nat /\ 1 \in 1 .. Len(s)
  OBVIOUS
<1>2. s[1] \in Unit
  BY <1>1, ElementOfSeq
<1>3. f \in Frame /\ n # 0
  BY <1>2, NoseAssumption DEF Unit, Frame, Kinds
<1>4. Remaining(s[1]) = n - 1
  BY DEF Remaining
<1>5. \A i \in 1 .. n : s[i].frame = f /\ s[i].part = i
  <2> SUFFICES ASSUME NEW i \in 1 .. n
               PROVE  s[i].frame = f /\ s[i].part = i
    OBVIOUS
  <2>1. CASE i = 1
    BY <2>1
  <2>2. CASE i # 1
    <3>1. i \in 1 .. Len(s) /\ 1 < i /\ i - 1 <= n - 1 /\ 1 + (i - 1) = i
      BY <1>1, <2>2
    <3> QED  BY <1>1, <1>4, <3>1 DEF Follows
  <2> QED  BY <2>1, <2>2
<1>6. \A i \in n + 1 .. Len(s) : Before(f, s[i].frame) /\ f.run = s[i].frame.run
  <2> SUFFICES ASSUME NEW i \in n + 1 .. Len(s)
               PROVE  Before(f, s[i].frame) /\ f.run = s[i].frame.run
    OBVIOUS
  <2>1. i \in 1 .. Len(s) /\ 1 < i /\ ~(i - 1 <= n - 1)
    BY <1>1, <1>3
  <2> QED  BY <1>1, <1>4, <2>1 DEF Follows, OneRun
<1>7. n < Len(s) => s[n + 1].part = 1
  <2> SUFFICES ASSUME n < Len(s)
               PROVE  s[n + 1].part = 1
    OBVIOUS
  <2>1. n \in 1 .. n /\ n \in 1 .. Len(s) - 1
    BY <1>1, <1>3
  <2>2. Remaining(s[n]) = 0
    BY <1>5, <2>1 DEF Remaining
  <2> QED  BY <2>1, <2>2 DEF Follows
<1> QED  BY <1>3, <1>5, <1>6, <1>7 DEF Begins

LEMMA SameUnit ==
  ASSUME NEW u \in Unit, NEW v \in Unit, u.frame = v.frame, u.part = v.part
  PROVE  u = v
BY DEF Unit

LEMMA Joined ==
  ASSUME NEW a \in Seq(Unit), NEW b \in Seq(Unit)
  PROVE  /\ a \o b \in Seq(Unit) /\ Len(a \o b) = Len(a) + Len(b)
         /\ Len(a) \in Nat /\ Len(b) \in Nat
         /\ \A i \in 1 .. Len(a) : i \in 1 .. Len(a \o b) /\ (a \o b)[i] = a[i]
         /\ \A i \in 1 .. Len(b) : /\ Len(a) + i \in 1 .. Len(a \o b)
                                   /\ (a \o b)[Len(a) + i] = b[i]
         /\ \A i \in 1 .. Len(a \o b) :
              \/ i \in 1 .. Len(a) /\ (a \o b)[i] = a[i]
              \/ /\ i \notin 1 .. Len(a) /\ i - Len(a) \in 1 .. Len(b)
                 /\ (a \o b)[i] = b[i - Len(a)]
         /\ a = <<>> => a \o b = b
         /\ b = <<>> => a \o b = a
<1>1. Len(a) \in Nat /\ Len(b) \in Nat
  OBVIOUS
<1>2. a \o b \in Seq(Unit) /\ Len(a \o b) = Len(a) + Len(b)
  OBVIOUS
<1>3. \A i \in 1 .. Len(a) + Len(b) : (a \o b)[i] = IF i <= Len(a) THEN a[i] ELSE b[i - Len(a)]
  BY ConcatProperties
<1>4. \A i \in 1 .. Len(a) : i \in 1 .. Len(a) + Len(b) /\ i <= Len(a)
  BY <1>1
<1>5. \A i \in 1 .. Len(b) : /\ Len(a) + i \in 1 .. Len(a) + Len(b)
                             /\ ~(Len(a) + i <= Len(a)) /\ (Len(a) + i) - Len(a) = i
  BY <1>1
<1>6. \A i \in 1 .. Len(a) + Len(b) :
        (i \in 1 .. Len(a) /\ i <= Len(a))
          \/ (i \notin 1 .. Len(a) /\ ~(i <= Len(a)) /\ i - Len(a) \in 1 .. Len(b))
  BY <1>1
<1>7. \A i \in 1 .. Len(a) : i \in 1 .. Len(a \o b) /\ (a \o b)[i] = a[i]
  BY <1>2, <1>3, <1>4
<1>8. \A i \in 1 .. Len(b) : Len(a) + i \in 1 .. Len(a \o b) /\ (a \o b)[Len(a) + i] = b[i]
  BY <1>2, <1>3, <1>5
<1>9. \A i \in 1 .. Len(a \o b) :
        \/ i \in 1 .. Len(a) /\ (a \o b)[i] = a[i]
        \/ /\ i \notin 1 .. Len(a) /\ i - Len(a) \in 1 .. Len(b)
           /\ (a \o b)[i] = b[i - Len(a)]
  BY <1>2, <1>3, <1>6
<1>10. (a = <<>> => a \o b = b) /\ (b = <<>> => a \o b = a)
  BY ConcatEmptySeq
<1> QED  BY <1>1, <1>2, <1>7, <1>8, <1>9, <1>10

LEMMA Associates ==
  ASSUME NEW a \in Seq(Unit), NEW b \in Seq(Unit), NEW c \in Seq(Unit)
  PROVE  a \o (b \o c) = (a \o b) \o c
BY ConcatAssociative

LEMMA LineTyped ==
  ASSUME Types
  PROVE  /\ Kept \in Seq(Unit) /\ Coming \in Seq(Unit)
         /\ Arrived \in Seq(Unit) /\ Line \in Seq(Unit)
         /\ Len(Line) \in Nat /\ Len(Arrived) \in Nat
         /\ \A i \in 1 .. Len(Arrived) : i \in 1 .. Len(Line) /\ Line[i] = Arrived[i]
<1>1. Kept \in Seq(Unit) /\ Coming \in Seq(Unit) /\ buf \in Seq(Unit)
  BY DEF Types, Kept, Coming
<1>2. Arrived \in Seq(Unit)
  BY <1>1, Joined DEF Arrived
<1> QED
  <2>1. /\ Line \in Seq(Unit)
        /\ \A i \in 1 .. Len(Arrived) : i \in 1 .. Len(Line) /\ Line[i] = Arrived[i]
    BY <1>1, <1>2, Joined DEF Line
  <2> QED  BY <1>1, <1>2, <2>1

\* An instance that is not connected holds nothing.
LEMMA LineEmpty ==
  ASSUME Types, Links, pipe \notin {"connected", "closing"}
  PROVE  Line = <<>> /\ Arrived = <<>>
<1>1. Kept = <<>> /\ buf = <<>> /\ Coming = <<>>
  BY DEF Links, Kept, Coming
<1>2. <<>> \in Seq(Unit)
  OBVIOUS
<1>3. Arrived = <<>>
  BY <1>1, <1>2, Joined DEF Arrived
<1> QED  BY <1>1, <1>2, <1>3, Joined DEF Line

LEMMA Positive == /\ MaxEvents \in Nat \ {0} /\ MaxRuns \in Nat \ {0}
                  /\ HeaderLen \in Nat \ {0} /\ Capacity \in Nat \ {0}
BY NoseAssumption

LEMMA OrderOfOrdinals ==
  ASSUME NEW f \in Frame, NEW g \in Frame
  PROVE  /\ Ordinal(f) \in Int /\ Ordinal(f) > 0
         /\ Before(f, g) => Ordinal(f) < Ordinal(g)
<1>1. /\ f.run \in Nat \ {0} /\ g.run \in Nat \ {0} /\ f.id \in 1 .. MaxEvents
      /\ g.id \in 1 .. MaxEvents
  BY Positive DEF Frame
<1>2. f.run * MaxEvents \in Nat /\ g.run * MaxEvents \in Nat
  BY <1>1, Positive
<1>3. f.run * MaxEvents >= MaxEvents
  <2>1. (f.run - 1) * MaxEvents >= 0
    BY <1>1, Positive
  <2>2. f.run * MaxEvents = (f.run - 1) * MaxEvents + MaxEvents
    BY <1>1, Positive
  <2> QED  BY <1>1, <2>1, <2>2, Positive
<1>4. f.run < g.run => f.run * MaxEvents + MaxEvents <= g.run * MaxEvents
  <2> SUFFICES ASSUME f.run < g.run
               PROVE  f.run * MaxEvents + MaxEvents <= g.run * MaxEvents
    OBVIOUS
  <2>1. (g.run - f.run - 1) * MaxEvents >= 0
    BY <1>1, Positive
  <2>2. g.run * MaxEvents
          = f.run * MaxEvents + MaxEvents + (g.run - f.run - 1) * MaxEvents
    BY <1>1, Positive
  <2> QED  BY <1>1, <1>2, <2>1, <2>2, Positive
<1> QED  BY <1>1, <1>2, <1>3, <1>4, Positive DEF Ordinal, Before

LEMMA OrdinalOfMinted ==
  ASSUME Types, NEW f \in Frame, Minted(f)
  PROVE  run # 0 /\ Ordinal(f) <= MintedCount
<1>1. /\ f.run \in Nat \ {0} /\ run \in Nat /\ f.id \in 1 .. MaxEvents
      /\ seq \in 0 .. MaxEvents
  BY Positive DEF Frame, Types
<1>2. f.run * MaxEvents \in Nat /\ run * MaxEvents \in Nat
  BY <1>1, Positive
<1>3. f.run < run => f.run * MaxEvents + MaxEvents <= run * MaxEvents
  <2> SUFFICES ASSUME f.run < run
               PROVE  f.run * MaxEvents + MaxEvents <= run * MaxEvents
    OBVIOUS
  <2>1. (run - f.run - 1) * MaxEvents >= 0
    BY <1>1, Positive
  <2>2. run * MaxEvents
          = f.run * MaxEvents + MaxEvents + (run - f.run - 1) * MaxEvents
    BY <1>1, Positive
  <2> QED  BY <1>1, <1>2, <2>1, <2>2, Positive
<1>4. run # 0
  BY <1>1 DEF Minted
<1> QED  BY <1>1, <1>2, <1>3, <1>4, Positive DEF Ordinal, Minted, MintedCount

LEMMA NewFrame ==
  ASSUME Types, Links, up, seq < MaxEvents, NEW k \in Kinds,
         NEW f, f = [run |-> run, id |-> seq + 1, kind |-> k]
  PROVE  /\ f \in Frame /\ run # 0 /\ MintedCount < Ordinal(f)
         /\ \A g \in Frame : Minted(g) => Before(g, f)
<1>1. run \in 1 .. MaxRuns /\ seq + 1 \in 1 .. MaxEvents /\ seq \in Nat
  BY Positive DEF Types, Links
<1>2. f \in Frame /\ f.run = run /\ f.id = seq + 1
  BY <1>1 DEF Frame
<1>3. run * MaxEvents \in Nat
  BY <1>1, Positive
<1>4. MintedCount < Ordinal(f)
  BY <1>1, <1>2, <1>3, Positive DEF MintedCount, Ordinal
<1>5. ASSUME NEW g \in Frame, Minted(g)
      PROVE  Before(g, f)
  <2>1. g.id \in Nat
    BY Positive DEF Frame
  <2> QED  BY <1>1, <1>2, <1>5, <2>1 DEF Minted, Before
<1> QED  BY <1>1, <1>2, <1>4, <1>5

\* What has been minted by now is in the bound on the counters.
LEMMA MintedBounded == ASSUME Types PROVE MintedCount \in 0 .. MaxRuns * MaxEvents
<1>1. run \in Nat /\ run <= MaxRuns /\ seq \in 0 .. MaxEvents
  BY Positive DEF Types
<1>2. run * MaxEvents \in Nat /\ MaxRuns * MaxEvents \in Nat
  BY <1>1, Positive
<1>3. run * MaxEvents <= MaxRuns * MaxEvents
  <2>1. (MaxRuns - run) * MaxEvents >= 0
    BY <1>1, Positive
  <2>2. MaxRuns * MaxEvents = run * MaxEvents + (MaxRuns - run) * MaxEvents
    BY <1>1, Positive
  <2> QED  BY <1>1, <1>2, <2>1, <2>2, Positive
<1>4. run # 0 => run * MaxEvents >= MaxEvents
  <2> SUFFICES ASSUME run # 0
               PROVE  run * MaxEvents >= MaxEvents
    OBVIOUS
  <2>1. (run - 1) * MaxEvents >= 0
    BY <1>1, Positive
  <2>2. run * MaxEvents = (run - 1) * MaxEvents + MaxEvents
    BY <1>1, Positive
  <2> QED  BY <1>1, <1>2, <2>1, <2>2, Positive
<1> QED  BY <1>1, <1>2, <1>3, <1>4, Positive DEF MintedCount

-----------------------------------------------------------------------------
(* The capture process. *)

LEMMA DialKeepsLine ==
  ASSUME Types, Links, Dial, ~handle, UNCHANGED <<out, buf, place, acc>>
  PROVE  /\ Arrived' = Arrived /\ Line' = Line /\ Kept' = Kept
         /\ out = <<>> /\ pipe # "connected"
         /\ pipe' = "connected" => handle' /\ pipe = "listening" /\ Line = <<>>
         /\ pipe' # "connected" => handle' = handle /\ pipe' = pipe
<1>1. out = <<>> /\ pipe # "connected"
  BY DEF Links
<1>2. Kept' = Kept /\ Coming' = Coming
  BY <1>1 DEF Kept, Coming, Dial
<1>3. Arrived' = Arrived /\ Line' = Line
  BY <1>2 DEF Arrived, Line
<1>4. pipe = "listening" => Line = <<>>
  BY LineEmpty
<1> QED  BY <1>1, <1>2, <1>3, <1>4 DEF Dial

LEMMA StartNoseKeeps == LinkInv /\ StartNose => LinkInv'
<1> SUFFICES ASSUME LinkInv, StartNose
             PROVE  LinkInv'
  OBVIOUS
<1> USE DEF LinkInv, writer, wire, counts, reader
<1>1. ~handle /\ out = <<>>
  BY DEF StartNose, Links, Types
<1>2. /\ Arrived' = Arrived /\ Line' = Line /\ Kept' = Kept /\ pipe # "connected"
      /\ pipe' = "connected" => handle' /\ pipe = "listening" /\ Line = <<>>
      /\ pipe' # "connected" => handle' = handle /\ pipe' = pipe
  BY <1>1, DialKeepsLine DEF StartNose
<1>3. run \in Nat /\ run' = run + 1 /\ seq' = 0 /\ up'
  BY DEF StartNose, Types
<1>4. \A f \in Frame : Minted(f) => Minted(f)'
  <2> SUFFICES ASSUME NEW f \in Frame, Minted(f)
               PROVE  Minted(f)'
    OBVIOUS
  <2>1. f.run \in Int
    BY Positive DEF Frame
  <2> QED  BY <1>3, <2>1 DEF Minted
<1>5. MintedCount \in Int /\ MintedCount' \in Int /\ MintedCount <= MintedCount'
  <2>1. seq <= MaxEvents /\ run * MaxEvents \in Nat /\ seq \in Nat
    BY <1>3, Positive DEF Types
  <2>2. MintedCount' = (run + 1) * MaxEvents - MaxEvents
    BY <1>3, Positive DEF MintedCount
  <2>3. (run + 1) * MaxEvents = run * MaxEvents + MaxEvents
    BY <1>3, Positive
  <2> QED  BY <2>1, <2>2, <2>3, Positive DEF MintedCount
<1>6. \A i \in 1 .. Len(Line) : Line[i].frame \in Frame
  BY LineTyped, LineInt
<1>7. \A k \in 1 .. Len(submitted) : submitted[k] \in Frame
  BY ElementOfSeq DEF Types
<1>8. Types'
  <2>1. run' \in 0 .. MaxRuns /\ seq' \in 0 .. MaxEvents
    BY <1>3, Positive DEF StartNose
  <2>2. handle' \in BOOLEAN /\ pipe' \in {"none", "listening", "connected", "closing", "disconnected"}
    BY DEF Types, StartNose, Dial
  <2> QED  BY <2>1, <2>2 DEF Types, StartNose
<1>9. Links'
  BY <1>1, <1>2, <1>3 DEF Links, StartNose, Types
<1>10. Outs' /\ Reads'
  BY DEF Outs, Reads, StartNose, Remaining
<1>11. Lines'
  <2>1. Follows(Line)' /\ OneRun(Line)'
    BY <1>2 DEF Lines, Follows, OneRun, Remaining
  <2>2. (\A i \in 1 .. Len(Line) : Minted(Line[i].frame))'
    BY <1>2, <1>4, <1>6 DEF Lines
  <2>3. pipe' = "connected" => Line' = <<>> /\ Len(Line') = 0
    BY <1>2
  <2>4. (\A i \in 1 .. Len(Arrived) :
           Remaining(Arrived[i]) = 0 => Arrived[i].frame \in sent)'
    BY <1>2 DEF Lines, StartNose, Remaining
  <2> QED  BY <2>1, <2>2, <2>3, <2>4 DEF Lines
<1>12. Orders'
  BY <1>2, <1>3 DEF Orders, StartNose, Doomed, Links, Types
<1>13. Decodes'
  <2>1. place = "decode" => acc[1].frame \in Frame
    BY LineInt DEF Decodes, Types
  <2>2. pipe' = "connected" => place # "decode"
    BY <1>2 DEF Links
  <2> QED  BY <1>2, <1>4, <2>1, <2>2 DEF Decodes, StartNose, FramesAreWhole, Units
<1>14. Accounts'
  <2>1. EveryFrameCounted' /\ SubmittedInOrder'
    BY DEF Accounts, StartNose, EveryFrameCounted, SubmittedInOrder
  <2>2. (taken + cut <= MintedCount)'
    BY <1>5 DEF Accounts, StartNose, Types
  <2> QED  BY <1>4, <1>7, <2>1, <2>2 DEF Accounts, StartNose
<1> QED  BY <1>8, <1>9, <1>10, <1>11, <1>12, <1>13, <1>14

LEMMA SendUnconnectedKeeps == LinkInv /\ SendUnconnected => LinkInv'
<1> SUFFICES ASSUME LinkInv, SendUnconnected
             PROVE  LinkInv'
  OBVIOUS
<1> USE DEF LinkInv, writer, wire, counts, reader
<1>1. /\ Arrived' = Arrived /\ Line' = Line /\ Kept' = Kept /\ pipe # "connected"
      /\ pipe' = "connected" => handle' /\ pipe = "listening" /\ Line = <<>>
      /\ pipe' # "connected" => handle' = handle /\ pipe' = pipe
      /\ out = <<>>
  BY DialKeepsLine DEF SendUnconnected
<1>2. /\ run \in Nat /\ run' = run /\ seq' = seq + 1 /\ seq \in Nat /\ up /\ up'
      /\ seq + 1 \in 0 .. MaxEvents
  BY Positive DEF SendUnconnected, Types
<1>3. \A f \in Frame : Minted(f) => Minted(f)'
  <2> SUFFICES ASSUME NEW f \in Frame, Minted(f)
               PROVE  Minted(f)'
    OBVIOUS
  <2>1. f.id \in Int
    BY Positive DEF Frame
  <2> QED  BY <1>2, <2>1 DEF Minted
<1>4. MintedCount \in Int /\ MintedCount' \in Int /\ MintedCount <= MintedCount'
  <2>1. run * MaxEvents \in Nat
    BY <1>2, Positive
  <2> QED  BY <1>2, <2>1, Positive DEF MintedCount
<1>5. \A i \in 1 .. Len(Line) : Line[i].frame \in Frame
  BY LineTyped, LineInt
<1>6. \A k \in 1 .. Len(submitted) : submitted[k] \in Frame
  BY ElementOfSeq DEF Types
<1>7. Types'
  <2>1. handle' \in BOOLEAN /\ pipe' \in {"none", "listening", "connected", "closing", "disconnected"}
    BY DEF Types, SendUnconnected, Dial
  <2> QED  BY <1>2, <2>1 DEF Types, SendUnconnected
<1>8. Links'
  BY <1>1, <1>2 DEF Links, SendUnconnected, Types
<1>9. Outs' /\ Reads'
  BY DEF Outs, Reads, SendUnconnected, Remaining
<1>10. Lines'
  <2>1. Follows(Line)' /\ OneRun(Line)'
    BY <1>1 DEF Lines, Follows, OneRun, Remaining
  <2>2. (\A i \in 1 .. Len(Line) : Minted(Line[i].frame))'
    BY <1>1, <1>3, <1>5 DEF Lines
  <2>3. pipe' = "connected" => Line' = <<>> /\ Len(Line') = 0
    BY <1>1
  <2>4. (\A i \in 1 .. Len(Arrived) :
           Remaining(Arrived[i]) = 0 => Arrived[i].frame \in sent)'
    BY <1>1 DEF Lines, SendUnconnected, Remaining
  <2> QED  BY <2>1, <2>2, <2>3, <2>4 DEF Lines
<1>11. Orders'
  BY <1>1, <1>2 DEF Orders, SendUnconnected, Doomed, Links, Types
<1>12. Decodes'
  <2>1. place = "decode" => acc[1].frame \in Frame
    BY LineInt DEF Decodes, Types
  <2>2. pipe' = "connected" => place # "decode"
    BY <1>1 DEF Links
  <2> QED  BY <1>1, <1>3, <2>1, <2>2 DEF Decodes, SendUnconnected, FramesAreWhole, Units
<1>13. Accounts'
  <2>1. EveryFrameCounted' /\ SubmittedInOrder'
    BY DEF Accounts, SendUnconnected, EveryFrameCounted, SubmittedInOrder
  <2>2. (taken + cut <= MintedCount)'
    BY <1>4 DEF Accounts, SendUnconnected, Types
  <2> QED  BY <1>3, <1>6, <2>1, <2>2 DEF Accounts, SendUnconnected
<1> QED  BY <1>7, <1>8, <1>9, <1>10, <1>11, <1>12, <1>13

LEMMA SendKeeps == ASSUME LinkInv, NEW k \in Kinds, Send(k) PROVE LinkInv'
<1> USE DEF LinkInv, writer, wire, counts, reader
<1>1. PICK f : /\ f = [run |-> run, id |-> seq + 1, kind |-> k]
               /\ f \in Frame /\ run # 0 /\ MintedCount < Ordinal(f)
               /\ \A g \in Frame : Minted(g) => Before(g, f)
  BY NewFrame DEF Send
<1>2. /\ run \in Nat /\ run' = run /\ seq' = seq + 1 /\ seq \in Nat /\ up /\ up'
      /\ seq + 1 \in 1 .. MaxEvents
  BY Positive DEF Send, Types
<1>3. f.run = run /\ f.id = seq + 1 /\ Minted(f)'
  BY <1>1, <1>2 DEF Minted
<1>4. out = <<>> /\ out' = Units(f)
  BY <1>1 DEF Send
<1>5. \A g \in Frame : Minted(g) => Minted(g)'
  <2> SUFFICES ASSUME NEW g \in Frame, Minted(g)
               PROVE  Minted(g)'
    OBVIOUS
  <2>1. g.id \in Int
    BY Positive DEF Frame
  <2> QED  BY <1>2, <2>1 DEF Minted
<1>6. MintedCount \in Int /\ MintedCount' \in Int /\ MintedCount <= MintedCount'
  <2>1. run * MaxEvents \in Nat
    BY <1>2, Positive
  <2> QED  BY <1>2, <2>1, Positive DEF MintedCount
<1>7. /\ \A i \in 1 .. Len(Line) : Line[i].frame \in Frame
      /\ Line \in Seq(Unit) /\ Arrived \in Seq(Unit)
  BY LineTyped, LineInt
<1>8. \A i \in 1 .. Len(submitted) : submitted[i] \in Frame
  BY ElementOfSeq DEF Types
<1>9. /\ Units(f) \in Seq(Unit) /\ Len(Units(f)) = FrameSize[f.kind]
      /\ FrameSize[f.kind] \in Nat \ {0}
      /\ \A i \in 1 .. FrameSize[f.kind] : Units(f)[i].frame = f /\ Units(f)[i].part = i
  BY <1>1, UnitsOf
<1>10. Kept' = Kept /\ Arrived' = Arrived
  BY DEF Send, Kept, Arrived
<1>11. Line = Arrived
  <2>1. Coming = <<>>
    BY <1>4 DEF Coming
  <2> QED  BY <2>1, <1>7, Joined DEF Line
<1>12. Line' = IF pipe = "connected" THEN Line \o Units(f) ELSE Line
  <2>1. Line' = Arrived \o Coming'
    BY <1>10 DEF Line
  <2>2. CASE pipe = "connected"
    BY <1>4, <1>11, <2>1, <2>2 DEF Coming, Send
  <2>3. CASE pipe # "connected"
    <3>1. Coming' = Coming
      BY <2>3 DEF Coming, Send
    <3> QED  BY <2>1, <2>3, <3>1 DEF Line
  <2> QED  BY <2>2, <2>3
<1>13. Types'
  BY <1>2, <1>4, <1>9 DEF Types, Send
<1>14. Links'
  BY <1>2 DEF Links, Send
<1>15. Outs' /\ Reads'
  <2>1. Outs'
    <3>1. 1 \in 1 .. FrameSize[f.kind]
      BY <1>9
    <3> QED  BY <1>4, <1>9, <3>1 DEF Outs, Remaining
  <2> QED  BY <2>1 DEF Reads, Send
<1>16. pipe = "connected" => GrownBy(Line, f, Line')
  <2> SUFFICES ASSUME pipe = "connected"
               PROVE  GrownBy(Line, f, Line')
    OBVIOUS
  <2>1. \A i \in 1 .. Len(Line) : Before(Line[i].frame, f) /\ Line[i].frame.run = f.run
    BY <1>1, <1>3, <1>7 DEF Lines
  <2>2. Line # <<>> => Remaining(Line[Len(Line)]) = 0
    BY DEF Lines
  <2>3. Follows(Line) /\ OneRun(Line)
    BY DEF Lines
  <2>4. f \in Frame /\ Line \in Seq(Unit)
    BY <1>1, <1>7
  <2>5. GrownBy(Line, f, Line \o Units(f))
    BY <2>1, <2>2, <2>3, <2>4, LineGrows
  <2> QED  BY <1>12, <2>5
<1>17. \A i \in 1 .. Len(Line') :
         \/ Line'[i].frame = f /\ pipe = "connected"
         \/ i \in 1 .. Len(Line) /\ Line'[i] = Line[i]
  BY <1>12, <1>16 DEF GrownBy
<1>18. Lines'
  <2>1. Follows(Line') /\ OneRun(Line')
    BY <1>12, <1>16 DEF Lines, GrownBy
  <2>2. (\A i \in 1 .. Len(Line) : Minted(Line[i].frame))'
    BY <1>3, <1>5, <1>7, <1>17 DEF Lines
  <2>3. pipe = "connected" => \A i \in 1 .. Len(Line') : Line'[i].frame.run = run
    BY <1>3, <1>17 DEF Lines
  <2>4. pipe' = pipe /\ sent' = sent
    BY DEF Send
  <2> QED  BY <1>2, <1>10, <1>16, <2>1, <2>2, <2>3, <2>4
              DEF Lines, Remaining, Follows, OneRun, GrownBy
<1>19. Orders'
  <2>1. UNCHANGED <<stop, place, pipe, taken, cut, submitted, previous>>
    BY DEF Send
  <2>2. taken + cut < Ordinal(f)
    BY <1>1, <1>6, OrderOfOrdinals DEF Accounts, Types
  <2>3. \A i \in 1 .. Len(submitted) : Before(submitted[i], f)
    BY <1>1, <1>8 DEF Accounts
  <2>4. place \in Serving /\ pipe = "connected" => previous < f.id /\ previous <= seq'
    BY <1>2, <1>3 DEF Orders, Types
  <2>5. (~Doomed /\ Line # <<>> => Line[1].part = 1)'
    BY <1>12, <1>16, <2>1 DEF Orders, Doomed, GrownBy
  <2> QED  BY <1>17, <2>1, <2>2, <2>3, <2>4, <2>5 DEF Orders, Doomed
<1>20. Decodes'
  <2> SUFFICES ASSUME place' = "decode"
               PROVE  Decodes'
    BY DEF Decodes
  <2>1. UNCHANGED <<acc, buf, place, pipe, taken, cut, submitted, previous, sent>>
    BY DEF Send
  <2>2. acc[1].frame \in Frame
    BY LineInt, <2>1 DEF Decodes, Types
  <2>3. pipe = "connected" => /\ Before(acc[1].frame, f)
                              /\ acc[1].frame.run = f.run
    BY <1>1, <1>3, <2>1, <2>2 DEF Decodes
  <2> QED  BY <1>2, <1>5, <1>17, <2>1, <2>2, <2>3 DEF Decodes, FramesAreWhole, Units
<1>21. Accounts'
  <2>1. EveryFrameCounted' /\ SubmittedInOrder'
    BY DEF Accounts, Send, EveryFrameCounted, SubmittedInOrder
  <2>2. (taken + cut <= MintedCount)'
    BY <1>6 DEF Accounts, Send, Types
  <2> QED  BY <1>5, <1>8, <2>1, <2>2 DEF Accounts, Send
<1> QED  BY <1>13, <1>14, <1>15, <1>18, <1>19, <1>20, <1>21

LEMMA WriteSomeKeeps == LinkInv /\ WriteSome => LinkInv'
<1> SUFFICES ASSUME LinkInv, WriteSome
             PROVE  LinkInv'
  OBVIOUS
<1> USE DEF LinkInv, writer, wire, counts, reader
<1>1. /\ out # <<>> /\ pipe = "connected" /\ out \in Seq(Unit) /\ Len(out) \in Nat \ {0}
      /\ UNCHANGED <<run, up, seq, handle, pipe, mode, canSetMode, stop, place, reader>>
  BY DEF WriteSome, Types
<1>2. PICK n \in 1 .. Len(out) :
        /\ Len(buf) + n <= Capacity
        /\ buf' = buf \o SubSeq(out, 1, n)
        /\ out' = SubSeq(out, n + 1, Len(out))
        /\ sent' = IF n = Len(out) THEN sent \cup {Head(out).frame} ELSE sent
  BY DEF WriteSome
<1>3. PICK w, r : w = SubSeq(out, 1, n) /\ r = SubSeq(out, n + 1, Len(out))
  OBVIOUS
<1>40. w \in Seq(Unit) /\ r \in Seq(Unit) /\ Len(w) = n /\ w \o r = out
  <2>1. n \in 0 .. Len(out)
    BY <1>1
  <2> QED  BY <1>1, <1>3, <2>1, SplitSeq
<1>4. /\ w \in Seq(Unit) /\ r \in Seq(Unit) /\ Len(w) = n /\ Len(r) = Len(out) - n
      /\ \A i \in 1 .. n : w[i] = out[i]
      /\ \A i \in 1 .. Len(out) - n : r[i] = out[n + i]
      /\ w \o r = out
  <2>1. n \in 0 .. Len(out)
    BY <1>1
  <2> QED  BY <1>1, <1>3, <2>1, SplitSeq
<1>5. /\ Kept \in Seq(Unit) /\ Arrived \in Seq(Unit) /\ Line \in Seq(Unit) /\ buf \in Seq(Unit)
  BY LineTyped DEF Types
<1>6. Kept' = Kept /\ Coming = out /\ Coming' = r
  BY <1>1, <1>2, <1>3 DEF Kept, Coming
<1>7. Arrived' = Arrived \o w
  <2>1. Arrived' = Kept \o (buf \o w)
    BY <1>2, <1>3, <1>6 DEF Arrived
  <2>2. Kept \o (buf \o w) = (Kept \o buf) \o w
    BY <1>40, <1>5, Associates
  <2> QED  BY <2>1, <2>2 DEF Arrived
<1>8. Line' = Line
  <2>1. Line' = (Arrived \o w) \o r
    BY <1>6, <1>7 DEF Line
  <2>2. (Arrived \o w) \o r = Arrived \o (w \o r)
    BY <1>40, <1>5, Associates
  <2> QED  BY <1>40, <1>6, <2>1, <2>2 DEF Line
<1>9. out[1].frame \in Frame /\ Head(out) = out[1]
  <2>1. 1 \in 1 .. Len(out)
    BY <1>1
  <2> QED  BY <1>1, <2>1, LineInt
<1>10. sent \subseteq sent' /\ sent' \in SUBSET Frame
  BY <1>2, <1>9 DEF Types
<1>11. Types'
  <2>1. buf' \in Seq(Unit) /\ out' \in Seq(Unit)
    <3>1. buf \o w \in Seq(Unit)
      BY <1>40, <1>5
    <3> QED  BY <1>2, <1>3, <1>40, <3>1
  <2> QED  BY <1>1, <1>10, <2>1 DEF Types
<1>12. Links'
  <2>1. Len(buf') = Len(buf) + n
    <3>1. buf \in Seq(Unit) /\ w \in Seq(Unit)
      BY <1>40, <1>5
    <3>2. Len(buf \o w) = Len(buf) + Len(w)
      BY <3>1, Joined
    <3> QED  BY <1>2, <1>3, <1>40, <3>2
  <2> QED  BY <1>1, <1>2, <2>1 DEF Links
<1>13. Outs'
  <2> SUFFICES ASSUME NEW i \in 1 .. Len(r)
               PROVE  r[i].frame = r[1].frame /\ Remaining(r[i]) = Len(r) - i
    BY <1>2, <1>3 DEF Outs, Remaining
  <2>1. /\ n + i \in 1 .. Len(out) /\ n + 1 \in 1 .. Len(out)
        /\ i \in 1 .. Len(out) - n /\ 1 \in 1 .. Len(out) - n
    BY <1>1, <1>4
  <2>2. r[i] = out[n + i] /\ r[1] = out[n + 1]
    BY <1>4, <2>1
  <2> QED  BY <1>1, <1>4, <2>1, <2>2 DEF Outs
<1>14. Reads'
  BY <1>1 DEF Reads
<1>15. \A i \in 1 .. Len(Arrived') :
         Remaining(Arrived'[i]) = 0 => Arrived'[i].frame \in sent'
  <2> SUFFICES ASSUME NEW i \in 1 .. Len(Arrived'), Remaining(Arrived'[i]) = 0
               PROVE  Arrived'[i].frame \in sent'
    OBVIOUS
  <2>1. \/ i \in 1 .. Len(Arrived) /\ Arrived'[i] = Arrived[i]
        \/ i - Len(Arrived) \in 1 .. n /\ Arrived'[i] = w[i - Len(Arrived)]
    <3>1. i \in 1 .. Len(Arrived \o w)
      BY <1>7
    <3>2. \/ i \in 1 .. Len(Arrived) /\ (Arrived \o w)[i] = Arrived[i]
          \/ i - Len(Arrived) \in 1 .. Len(w) /\ (Arrived \o w)[i] = w[i - Len(Arrived)]
      BY <1>40, <1>5, <3>1, Joined
    <3> QED  BY <1>7, <1>40, <3>2
  <2>2. CASE i \in 1 .. Len(Arrived) /\ Arrived'[i] = Arrived[i]
    BY <1>10, <2>2 DEF Lines
  <2>3. CASE i - Len(Arrived) \in 1 .. n /\ Arrived'[i] = w[i - Len(Arrived)]
    <3>1. PICK m \in 1 .. n : Arrived'[i] = w[m]
      BY <2>3
    <3>2. m \in 1 .. Len(out) /\ w[m] = out[m]
      BY <1>1, <1>4
    <3>3. Arrived'[i].frame = out[1].frame /\ Len(out) - m = 0
      BY <3>1, <3>2 DEF Outs
    <3>4. n = Len(out)
      BY <1>1, <3>3
    <3> QED  BY <1>2, <1>9, <3>3, <3>4
  <2> QED  BY <2>1, <2>2, <2>3
<1>16. Lines'
  <2>1. \A f : Minted(f)' <=> Minted(f)
    BY <1>1 DEF Minted
  <2> QED  BY <1>1, <1>8, <1>15, <2>1 DEF Lines, Follows, OneRun, Remaining
<1>17. Orders'
  BY <1>1, <1>8 DEF Orders, Doomed
<1>18. Decodes'
  BY <1>1, <1>8, <1>10 DEF Decodes, FramesAreWhole, Units, Minted
<1>19. Accounts'
  BY <1>1, <1>10 DEF Accounts, EveryFrameCounted, SubmittedInOrder, Minted, MintedCount
<1> QED  BY <1>11, <1>12, <1>13, <1>14, <1>16, <1>17, <1>18, <1>19

LEMMA WriteFailsKeeps == LinkInv /\ WriteFails => LinkInv'
<1> SUFFICES ASSUME LinkInv, WriteFails
             PROVE  LinkInv'
  OBVIOUS
<1> USE DEF LinkInv, writer, wire, counts, reader
<1>1. /\ pipe # "connected" /\ out' = <<>> /\ handle' = FALSE
      /\ UNCHANGED <<run, up, seq, sent, wire, mode, canSetMode, stop, place, reader>>
  BY DEF WriteFails
<1>2. Kept' = Kept /\ Arrived' = Arrived /\ Line' = Line
  <2>1. Coming' = Coming /\ Kept' = Kept
    BY <1>1 DEF Kept, Coming
  <2>2. Arrived' = Arrived
    BY <1>1, <2>1 DEF Arrived
  <2> QED  BY <2>1, <2>2 DEF Line
<1>3. Types' /\ Links' /\ Outs' /\ Reads'
  <2>1. out' \in Seq(Unit)
    BY <1>1
  <2>3. Types'
    BY <1>1, <2>1 DEF Types
  <2>4. Links'
    BY <1>1 DEF Links
  <2>2. Outs' /\ Reads'
    BY <1>1 DEF Outs, Reads
  <2> QED  BY <2>2, <2>3, <2>4
<1>4. Lines'
  BY <1>1, <1>2 DEF Lines, Follows, OneRun, Remaining, Minted
<1>5. Orders' /\ Decodes'
  BY <1>1, <1>2 DEF Orders, Doomed, Decodes, FramesAreWhole, Units, Minted
<1>6. Accounts'
  BY <1>1 DEF Accounts, EveryFrameCounted, SubmittedInOrder, Minted, MintedCount
<1> QED  BY <1>3, <1>4, <1>5, <1>6

LEMMA StopNoseKeeps == LinkInv /\ StopNose => LinkInv'
<1> SUFFICES ASSUME LinkInv, StopNose
             PROVE  LinkInv'
  OBVIOUS
<1> USE DEF LinkInv, writer, wire, counts, reader
<1>1. /\ out' = <<>> /\ handle' = FALSE /\ up' = FALSE /\ up
      /\ pipe' = IF pipe = "connected" THEN "closing" ELSE pipe
      /\ UNCHANGED <<run, seq, sent, buf, mode, canSetMode, stop, place, reader>>
  BY DEF StopNose, Links
<1>2. /\ Kept \in Seq(Unit) /\ Arrived \in Seq(Unit) /\ Line \in Seq(Unit)
      /\ Len(Line) \in Nat /\ Len(Arrived) \in Nat /\ Coming \in Seq(Unit)
      /\ \A i \in 1 .. Len(Arrived) : i \in 1 .. Len(Line) /\ Line[i] = Arrived[i]
  BY LineTyped
<1>3. Kept' = Kept /\ Arrived' = Arrived /\ Line' = Arrived
  <2>1. Coming' = <<>> /\ Kept' = Kept
    BY <1>1 DEF Kept, Coming
  <2>2. Arrived' = Arrived
    BY <1>1, <2>1 DEF Arrived
  <2> QED  BY <1>2, <2>1, <2>2, Joined DEF Line
<1>4. /\ Len(Arrived) <= Len(Line)
      /\ Follows(Arrived) /\ OneRun(Arrived)
  <2>1. Len(Arrived) <= Len(Line)
    BY <1>2, Joined DEF Line
  <2> QED  BY <1>2, <2>1, StartOfLine DEF Lines
<1>5. Types' /\ Links' /\ Outs' /\ Reads'
  <2>4. out' \in Seq(Unit)
    BY <1>1
  <2>5. pipe' \in {"none", "listening", "connected", "closing", "disconnected"}
    BY <1>1 DEF Types
  <2>1. Types'
    BY <1>1, <2>4, <2>5 DEF Types
  <2>2. Links'
    BY <1>1 DEF Types, Links
  <2>3. Outs' /\ Reads'
    BY <1>1 DEF Outs, Reads
  <2> QED  BY <2>1, <2>2, <2>3
<1>6. Lines'
  BY <1>1, <1>2, <1>3, <1>4 DEF Lines, Follows, OneRun, Remaining, Minted
<1>7. Arrived # <<>> => Line # <<>> /\ Line[1] = Arrived[1]
  <2>1. Arrived # <<>> => 1 \in 1 .. Len(Arrived)
    BY <1>2
  <2> QED  BY <1>2, <2>1
<1>8. Orders'
  BY <1>1, <1>2, <1>3, <1>7 DEF Orders, Doomed
<1>9. Decodes'
  BY <1>1, <1>2, <1>3 DEF Decodes, FramesAreWhole, Units, Minted
<1>10. Accounts'
  BY <1>1 DEF Accounts, EveryFrameCounted, SubmittedInOrder, Minted, MintedCount
<1> QED  BY <1>5, <1>6, <1>8, <1>9, <1>10

-----------------------------------------------------------------------------
(* The reader. *)

\* Where the reader waits for, or has lost, its client, the line is as it was
\* or has been emptied with the instance.
LEMMA QuietLine ==
  ASSUME Types, Types', UNCHANGED <<writer, acc, previous, counts, taken, cut, stop>>,
         place \notin Serving, place' \notin Serving, place' # "disconnect",
         \/ UNCHANGED buf /\ (pipe' = "connected" <=> pipe = "connected") /\ place # "disconnect"
         \/ buf' = <<>> /\ pipe' # "connected",
         Outs, Reads, Lines, Orders, Decodes, Accounts
  PROVE  Outs' /\ Reads' /\ Lines' /\ Orders' /\ Decodes' /\ Accounts'
<1> USE DEF writer, wire, counts, reader
<1>1. Kept = <<>> /\ Kept' = <<>>
  BY DEF Kept, Serving
<1>2. \/ Arrived' = Arrived /\ Line' = Line /\ place # "disconnect"
      \/ Arrived' = <<>> /\ Line' = <<>> /\ pipe' # "connected"
  <2>1. CASE UNCHANGED buf /\ (pipe' = "connected" <=> pipe = "connected") /\ place # "disconnect"
    <3>1. Coming' = Coming /\ Kept' = Kept
      BY <1>1, <2>1 DEF Coming
    <3>2. Arrived' = Arrived
      BY <2>1, <3>1 DEF Arrived
    <3> QED  BY <2>1, <3>1, <3>2 DEF Line
  <2>2. CASE buf' = <<>> /\ pipe' # "connected"
    <3>1. Coming' = <<>> /\ <<>> \in Seq(Unit)
      BY <2>2 DEF Coming
    <3>2. Arrived' = <<>>
      BY <1>1, <2>2, <3>1, Joined DEF Arrived
    <3>3. Line' = <<>>
      BY <3>1, <3>2, Joined DEF Line
    <3> QED  BY <2>2, <3>2, <3>3
  <2> QED  BY <2>1, <2>2
<1>3. Outs' /\ Reads' /\ Decodes'
  BY DEF Outs, Reads, Decodes, Serving, Reading, Remaining
<1>4. Lines'
  <2>1. CASE Arrived' = Arrived /\ Line' = Line
    <3>1. pipe' = "connected" => pipe = "connected"
      <4>1. CASE pipe' = "connected" <=> pipe = "connected"
        BY <4>1
      <4>2. CASE pipe' # "connected"
        BY <4>2
      <4> QED  BY <4>1, <4>2
    <3> QED  BY <2>1, <3>1 DEF Lines, Follows, OneRun, Remaining, Minted
  <2>2. CASE Arrived' = <<>> /\ Line' = <<>> /\ pipe' # "connected"
    BY <2>2, EmptyLine DEF Lines, Follows, OneRun, Remaining
  <2> QED  BY <1>2, <2>1, <2>2
<1>5. Orders'
  <2>1. ~Doomed' /\ (place # "disconnect" => ~Doomed)
    BY DEF Doomed, Serving
  <2> QED  BY <1>2, <2>1 DEF Orders
<1>6. Accounts'
  BY DEF Accounts, EveryFrameCounted, SubmittedInOrder, Minted, MintedCount, Serving
<1> QED  BY <1>3, <1>4, <1>5, <1>6

LEMMA CreateServerKeeps == LinkInv /\ CreateServer => LinkInv'
<1> SUFFICES ASSUME LinkInv, CreateServer
             PROVE  LinkInv'
  OBVIOUS
<1> USE DEF LinkInv, Serving, Reading
<1>1. /\ UNCHANGED <<writer, buf, mode, canSetMode, stop, reader>>
      /\ place = "create" /\ place' \in {"loop", "ended"} /\ pipe = "none"
      /\ pipe' \in {"none", "listening"}
  BY DEF CreateServer, Moves, Links
<1>2. Types'
  BY <1>1 DEF Types, writer, reader, counts
<1>3. Links'
  BY <1>1 DEF Links, writer, reader, counts
<1>4. Outs' /\ Reads' /\ Lines' /\ Orders' /\ Decodes' /\ Accounts'
  BY <1>1, <1>2, QuietLine DEF reader
<1> QED  BY <1>2, <1>3, <1>4

LEMMA LoopTestKeeps == LinkInv /\ LoopTest => LinkInv'
<1> SUFFICES ASSUME LinkInv, LoopTest
             PROVE  LinkInv'
  OBVIOUS
<1> USE DEF LinkInv, Serving, Reading
<1>1. /\ UNCHANGED <<writer, mode, canSetMode, stop, reader>>
      /\ place = "loop" /\ place' \in {"connect", "ended"}
      /\ (UNCHANGED <<pipe, buf>>) \/ (pipe' = "none" /\ buf' = <<>>)
  BY DEF LoopTest, Moves, wire
<1>2. Types'
  <2>1. buf' \in Seq(Unit)
    <3>1. buf \in Seq(Unit) /\ <<>> \in Seq(Unit)
      BY DEF Types
    <3> QED  BY <1>1, <3>1
  <2>2. pipe' \in {"none", "listening", "connected", "closing", "disconnected"}
    BY <1>1 DEF Types
  <2> QED  BY <1>1, <2>1, <2>2 DEF Types, writer, reader, counts
<1>3. Links'
  <2>1. Len(buf') <= Capacity
    BY <1>1, Positive DEF Links
  <2>2. buf' = buf \/ buf' = <<>>
    BY <1>1
  <2> QED  BY <1>1, <2>1, <2>2 DEF Links, writer, reader, counts
<1>4. Outs' /\ Reads' /\ Lines' /\ Orders' /\ Decodes' /\ Accounts'
  BY <1>1, <1>2, QuietLine DEF reader
<1> QED  BY <1>2, <1>3, <1>4

LEMMA ConnectKeeps == LinkInv /\ Connect => LinkInv'
<1> SUFFICES ASSUME LinkInv, Connect
             PROVE  LinkInv'
  OBVIOUS
<1> USE DEF LinkInv, Serving, Reading
<1>1. /\ UNCHANGED <<writer, mode, canSetMode, stop, reader>>
      /\ place = "connect" /\ place' \in {"setMode", "loop", "connect"}
      /\ \/ UNCHANGED <<pipe, buf>>
         \/ pipe = "closing" /\ pipe' = "disconnected" /\ buf' = <<>>
         \/ pipe = "disconnected" /\ pipe' = "listening" /\ buf' = buf
  BY DEF Connect, Moves, wire
<1>2. Types'
  <2>1. buf' \in Seq(Unit)
    <3>1. buf \in Seq(Unit) /\ <<>> \in Seq(Unit)
      BY DEF Types
    <3> QED  BY <1>1, <3>1
  <2>2. pipe' \in {"none", "listening", "connected", "closing", "disconnected"}
    BY <1>1 DEF Types
  <2> QED  BY <1>1, <2>1, <2>2 DEF Types, writer, reader, counts
<1>3. Links'
  <2>1. Len(buf') <= Capacity
    BY <1>1, Positive DEF Links
  <2>2. buf' = buf \/ buf' = <<>>
    BY <1>1
  <2> QED  BY <1>1, <2>1, <2>2 DEF Links, writer, reader, counts
<1>4. Outs' /\ Reads' /\ Lines' /\ Orders' /\ Decodes' /\ Accounts'
  BY <1>1, <1>2, QuietLine DEF reader
<1> QED  BY <1>2, <1>3, <1>4

LEMMA DisconnectKeeps == LinkInv /\ Disconnect => LinkInv'
<1> SUFFICES ASSUME LinkInv, Disconnect
             PROVE  LinkInv'
  OBVIOUS
<1> USE DEF LinkInv, Serving, Reading
<1>1. /\ UNCHANGED <<writer, mode, canSetMode, stop, acc, previous, counts, taken, cut>>
      /\ place = "disconnect" /\ place' = "loop" /\ pipe' = "disconnected" /\ buf' = <<>>
  BY DEF Disconnect, Moves
<1>2. Types'
  <2>1. buf' \in Seq(Unit)
    <3>1. buf \in Seq(Unit) /\ <<>> \in Seq(Unit)
      BY DEF Types
    <3> QED  BY <1>1, <3>1
  <2>2. pipe' \in {"none", "listening", "connected", "closing", "disconnected"}
    BY <1>1 DEF Types
  <2> QED  BY <1>1, <2>1, <2>2 DEF Types, writer, reader, counts
<1>3. Links'
  <2>1. Len(buf') <= Capacity
    BY <1>1, Positive DEF Links
  <2>2. buf' = buf \/ buf' = <<>>
    BY <1>1
  <2> QED  BY <1>1, <2>1, <2>2 DEF Links, writer, reader, counts
<1>4. Outs' /\ Reads' /\ Lines' /\ Orders' /\ Decodes' /\ Accounts'
  BY <1>1, <1>2, QuietLine
<1> QED  BY <1>2, <1>3, <1>4

LEMMA SetModeKeeps == LinkInv /\ SetMode => LinkInv'
<1> SUFFICES ASSUME LinkInv, SetMode
             PROVE  LinkInv'
  OBVIOUS
<1> USE DEF LinkInv, writer, wire, counts, reader
<1>1. /\ place = "setMode" /\ place' = "client" /\ previous' = 0 /\ mode' \in {mode, "wait"}
      /\ UNCHANGED <<writer, wire, canSetMode, stop, acc, counts, taken, cut>>
  BY DEF SetMode, Moves
<1>2. Kept' = Kept /\ Arrived' = Arrived /\ Line' = Line
  <2>1. Kept' = Kept /\ Coming' = Coming
    BY <1>1 DEF Kept, Coming, Reading
  <2>2. Arrived' = Arrived
    BY <1>1, <2>1 DEF Arrived
  <2> QED  BY <2>1, <2>2 DEF Line
<1>3. Types'
  <2>1. previous' \in 0 .. MaxEvents
    BY <1>1, Positive
  <2>2. mode' \in {"nowait", "wait"}
    BY <1>1 DEF Types
  <2> QED  BY <1>1, <2>1, <2>2 DEF Types
<1>4. Links' /\ Outs' /\ Reads' /\ Decodes'
  <2>1. Links'
    BY <1>1 DEF Links, Reading, Serving
  <2>2. Outs' /\ Reads' /\ Decodes'
    BY <1>1 DEF Outs, Reads, Decodes, Remaining
  <2> QED  BY <2>1, <2>2
<1>5. Lines'
  BY <1>1, <1>2 DEF Lines, Follows, OneRun, Remaining, Minted
<1>6. Orders'
  <2>1. ~Doomed
    BY <1>1 DEF Doomed
  <2>2. \A i \in 1 .. Len(Line) : 0 < Line[i].frame.id
    <3>1. \A i \in 1 .. Len(Line) : Line[i].frame \in Frame
      BY LineTyped, LineInt
    <3> QED  BY <3>1, Positive DEF Frame
  <2>3. 0 <= seq
    BY Positive DEF Types
  <2> QED  BY <1>1, <1>2, <2>1, <2>2, <2>3 DEF Orders
<1>7. Accounts'
  BY <1>1 DEF Accounts, EveryFrameCounted, SubmittedInOrder, Minted, MintedCount
<1> QED  BY <1>3, <1>4, <1>5, <1>6, <1>7

LEMMA ClientTestKeeps == LinkInv /\ ClientTest => LinkInv'
<1> SUFFICES ASSUME LinkInv, ClientTest
             PROVE  LinkInv'
  OBVIOUS
<1> USE DEF LinkInv, writer, wire, counts, reader
<1>1. /\ place = "client" /\ acc' = <<>>
      /\ (~stop /\ place' = "header") \/ (stop /\ place' = "disconnect")
      /\ UNCHANGED <<writer, wire, mode, canSetMode, stop, previous, counts, taken, cut>>
  BY DEF ClientTest, Moves
<1>2. Kept' = Kept /\ Arrived' = Arrived /\ Line' = Line
  <2>1. Kept' = Kept /\ Coming' = Coming
    BY <1>1 DEF Kept, Coming, Reading
  <2>2. Arrived' = Arrived
    BY <1>1, <2>1 DEF Arrived
  <2> QED  BY <2>1, <2>2 DEF Line
<1>3. Types'
  <2>1. acc' \in Seq(Unit)
    BY <1>1
  <2> QED  BY <1>1, <2>1 DEF Types
<1>4. Links' /\ Outs' /\ Reads' /\ Decodes'
  <2>1. Links'
    BY <1>1 DEF Links, Reading, Serving
  <2>2. Outs' /\ Decodes'
    BY <1>1 DEF Outs, Decodes, Remaining
  <2>3. Reads'
    BY <1>1, Positive DEF Reads
  <2> QED  BY <2>1, <2>2, <2>3
<1>5. Lines'
  BY <1>1, <1>2 DEF Lines, Follows, OneRun, Remaining, Minted
<1>6. Orders'
  BY <1>1, <1>2 DEF Orders, Doomed, Serving, Reading
<1>7. Accounts'
  BY <1>1 DEF Accounts, EveryFrameCounted, SubmittedInOrder, Minted, MintedCount
<1> QED  BY <1>3, <1>4, <1>5, <1>6, <1>7

LEMMA RequestStopKeeps == LinkInv /\ RequestStop => LinkInv'
<1> SUFFICES ASSUME LinkInv, RequestStop
             PROVE  LinkInv'
  OBVIOUS
<1> USE DEF LinkInv, writer, wire, counts, reader
<1>1. /\ stop' = TRUE
      /\ UNCHANGED <<writer, wire, mode, canSetMode, place, reader>>
  BY DEF RequestStop
<1>2. Kept' = Kept /\ Arrived' = Arrived /\ Line' = Line
  <2>1. Kept' = Kept /\ Coming' = Coming
    BY <1>1 DEF Kept, Coming
  <2>2. Arrived' = Arrived
    BY <1>1, <2>1 DEF Arrived
  <2> QED  BY <2>1, <2>2 DEF Line
<1>3. Types' /\ Links' /\ Outs' /\ Reads'
  <2>1. Types'
    BY <1>1 DEF Types
  <2>2. Links'
    BY <1>1 DEF Links
  <2>3. Outs' /\ Reads'
    BY <1>1 DEF Outs, Reads, Remaining
  <2> QED  BY <2>1, <2>2, <2>3
<1>4. Lines'
  BY <1>1, <1>2 DEF Lines, Follows, OneRun, Remaining, Minted
<1>5. Orders'
  BY <1>1, <1>2 DEF Orders, Doomed
<1>6. Decodes'
  BY <1>1, <1>2 DEF Decodes, FramesAreWhole, Units, Minted
<1>7. Accounts'
  BY <1>1 DEF Accounts, EveryFrameCounted, SubmittedInOrder, Minted, MintedCount
<1> QED  BY <1>3, <1>4, <1>5, <1>6, <1>7

\* The reader gives a frame up; the rest of it goes with the instance.
LEMMA ReadFailsKeeps == LinkInv /\ ReadFails => LinkInv'
<1> SUFFICES ASSUME LinkInv, ReadFails
             PROVE  LinkInv'
  OBVIOUS
<1> USE DEF LinkInv, writer, wire, counts, reader
<1>1. /\ buf = <<>>
      /\ pipe # "connected" \/ stop
      /\ \/ /\ place \in {"header", "payload"} /\ place' = "disconnect"
            /\ UNCHANGED <<dropped, cut>>
         \/ /\ place = "discard" /\ place' = "client"
            /\ dropped' = dropped + 1 /\ cut' = cut + 1
      /\ UNCHANGED <<writer, wire, mode, canSetMode, stop, acc, previous,
                     read, rejected, regressions, submitted, taken>>
  BY DEF ReadFails, ReadEnds, Moves
<1>2. /\ acc \in Seq(Unit) /\ <<>> \in Seq(Unit) /\ Coming \in Seq(Unit)
      /\ Line \in Seq(Unit) /\ Len(Line) \in Nat /\ Len(acc) \in Nat
  BY LineTyped DEF Types
<1>3. place \in Reading /\ place \in Serving /\ Kept = acc /\ Kept' = <<>> /\ ~Doomed
  BY <1>1 DEF Kept, Reading, Serving, Doomed
<1>4. Line = acc \o Coming
  <2>1. Arrived = acc
    BY <1>1, <1>2, <1>3, Joined DEF Arrived
  <2> QED  BY <2>1 DEF Line
<1>5. Arrived' = <<>> /\ Line' = Coming
  <2>1. buf' = <<>> /\ Coming' = Coming
    BY <1>1 DEF Coming
  <2>2. Arrived' = <<>>
    BY <1>2, <1>3, <2>1, Joined DEF Arrived
  <2> QED  BY <1>2, <2>1, <2>2, Joined DEF Line
<1>6. /\ Len(acc) \in 0 .. Len(Line) /\ Len(Coming) = Len(Line) - Len(acc)
      /\ \A i \in 1 .. Len(Coming) : /\ Len(acc) + i \in 1 .. Len(Line)
                                     /\ Coming[i] = Line[Len(acc) + i]
  BY <1>2, <1>4, Joined
<1>7. Follows(Coming) /\ OneRun(Coming)
  BY <1>2, <1>6, RestOfLine DEF Lines
<1>8. pipe # "connected" => Coming = <<>>
  BY DEF Coming
<1>9. Types'
  <2>1. dropped' \in Nat /\ cut' \in Nat
    BY <1>1 DEF Types
  <2> QED  BY <1>1, <2>1 DEF Types
<1>10. Links'
  BY <1>1, <1>3 DEF Links, Reading, Serving
<1>11. Outs' /\ Reads' /\ Decodes'
  BY <1>1 DEF Outs, Reads, Decodes, Remaining
<1>12. Lines'
  <2>1. \A i \in 1 .. Len(Coming) : Minted(Coming[i].frame)
    BY <1>6 DEF Lines
  <2>2. pipe = "connected" => \A i \in 1 .. Len(Coming) : Coming[i].frame.run = run
    BY <1>6 DEF Lines
  <2>3. pipe = "connected" /\ Coming # <<>> => Remaining(Coming[Len(Coming)]) = 0
    <3> SUFFICES ASSUME pipe = "connected", Coming # <<>>
                 PROVE  Remaining(Coming[Len(Coming)]) = 0
      OBVIOUS
    <3>1. Len(Coming) \in 1 .. Len(Coming) /\ Len(acc) + Len(Coming) = Len(Line)
      BY <1>2, <1>6
    <3>2. Coming[Len(Coming)] = Line[Len(Line)] /\ Line # <<>>
      BY <1>2, <1>6, <3>1
    <3> QED  BY <3>2 DEF Lines
  <2> QED  BY <1>1, <1>5, <1>7, <2>1, <2>2, <2>3
              DEF Lines, Follows, OneRun, Remaining, Minted
<1>13. Orders'
  <2>1. pipe # "connected" => Line' = <<>>
    BY <1>5, <1>8
  <2>2. stop => Doomed'
    BY <1>1 DEF Doomed
  <2>3. place' \in Serving /\ pipe' = "connected" => previous' <= seq'
    BY <1>1, <1>3 DEF Orders
  <2> QED  BY <1>1, <2>1, <2>2, <2>3 DEF Orders
<1>14. Accounts'
  <2>1. EveryFrameCounted'
    <3>1. Len(submitted) \in Nat /\ Len(submitted') = Len(submitted)
      BY <1>1 DEF Types
    <3> QED  BY <1>1, <3>1 DEF Accounts, EveryFrameCounted, Types
  <2>2. (taken + cut <= MintedCount)'
    <3>1. MintedCount' = MintedCount
      BY <1>1 DEF MintedCount
    <3>2. CASE place = "discard"
      <4>1. 1 \in 1 .. Len(Line)
        <5>1. acc # <<>>
          BY <3>2 DEF Reads
        <5>2. Len(acc) > 0
          BY <1>2, <5>1
        <5> QED  BY <1>2, <1>6, <5>2
      <4>2. PICK f \in Frame : f = Line[1].frame
        BY <1>2, <4>1, LineInt
      <4>3. taken + cut < Ordinal(f) /\ Minted(f)
        BY <1>3, <4>1, <4>2 DEF Orders, Lines
      <4>4. Ordinal(f) <= MintedCount /\ Ordinal(f) \in Int /\ MintedCount \in Int
        BY <4>3, OrdinalOfMinted, OrderOfOrdinals, MintedBounded
      <4>5. taken' + cut' = taken + cut + 1 /\ taken + cut \in Nat
        BY <1>1, <3>2 DEF Types
      <4> QED  BY <3>1, <4>3, <4>4, <4>5
    <3> QED  BY <1>1, <3>1, <3>2 DEF Accounts
  <2> QED  BY <1>1, <2>1, <2>2 DEF Accounts, SubmittedInOrder, Minted
<1> QED  BY <1>9, <1>10, <1>11, <1>12, <1>13, <1>14

LEMMA DecodeKeeps == LinkInv /\ Decode => LinkInv'
<1> SUFFICES ASSUME LinkInv, Decode
             PROVE  LinkInv'
  OBVIOUS
<1> USE DEF LinkInv, writer, wire, counts, reader
<1>1. PICK f : f = acc[1].frame
  OBVIOUS
<1>2. /\ place = "decode" /\ place' = "client"
      /\ UNCHANGED <<writer, wire, mode, canSetMode, stop, acc, read, taken, cut>>
      /\ \/ /\ rejected' = rejected + 1
            /\ UNCHANGED <<previous, regressions, submitted, dropped>>
         \/ /\ previous' = f.id
            /\ regressions' = IF f.id <= previous THEN regressions + 1 ELSE regressions
            /\ rejected' = rejected
            /\ \/ submitted' = Append(submitted, f) /\ dropped' = dropped
               \/ dropped' = dropped + 1 /\ submitted' = submitted
  BY <1>1 DEF Decode, Moves
<1>3. /\ f \in Frame /\ f \in sent /\ Minted(f) /\ previous < f.id
      /\ pipe = "connected" => f.run = run
      /\ \A k \in 1 .. Len(submitted) : Before(submitted[k], f)
      /\ \A i \in 1 .. Len(Line) : Before(f, Line[i].frame) /\ f.run = Line[i].frame.run
  BY <1>1, <1>2 DEF Decodes, Types
<1>4. Kept' = Kept /\ Arrived' = Arrived /\ Line' = Line
  <2>1. Kept' = Kept /\ Coming' = Coming
    BY <1>2 DEF Kept, Coming, Reading
  <2>2. Arrived' = Arrived
    BY <1>2, <2>1 DEF Arrived
  <2> QED  BY <2>1, <2>2 DEF Line
<1>5. \A i \in 1 .. Len(Line) : Line[i].frame \in Frame
  BY LineTyped, LineInt
<1>6. f.id \in 1 .. MaxEvents /\ f.run \in Nat /\ previous \in Nat /\ MaxEvents \in Nat
  BY <1>3, Positive DEF Frame, Types
<1>7. /\ Len(submitted) \in Nat /\ submitted' \in Seq(Frame)
      /\ \/ submitted' = submitted
         \/ /\ Len(submitted') = Len(submitted) + 1 /\ submitted'[Len(submitted) + 1] = f
            /\ \A k \in 1 .. Len(submitted) : submitted'[k] = submitted[k]
            /\ dropped' = dropped /\ rejected' = rejected
  <2>1. submitted \in Seq(Frame) /\ f \in Frame /\ Len(submitted) \in Nat
    BY <1>3 DEF Types
  <2>2. /\ Append(submitted, f) \in Seq(Frame)
        /\ Len(Append(submitted, f)) = Len(submitted) + 1
        /\ \A k \in 1 .. Len(submitted) : Append(submitted, f)[k] = submitted[k]
        /\ Append(submitted, f)[Len(submitted) + 1] = f
    BY <2>1, AppendProperties
  <2> QED  BY <1>2, <2>1, <2>2
<1>8. \A k \in 1 .. Len(submitted') :
        \/ k \in 1 .. Len(submitted) /\ submitted'[k] = submitted[k]
        \/ k = Len(submitted) + 1 /\ submitted'[k] = f /\ Len(submitted') = Len(submitted) + 1
  BY <1>7
<1>9. regressions' = 0
  BY <1>2, <1>3, <1>6 DEF Accounts
<1>10. Types'
  <2>1. previous' \in 0 .. MaxEvents
    BY <1>2, <1>6 DEF Types
  <2>2. rejected' \in Nat /\ dropped' \in Nat
    BY <1>2 DEF Types
  <2> QED  BY <1>2, <1>7, <2>1, <2>2 DEF Types
<1>11. Links'
  BY <1>2 DEF Links, Reading, Serving
<1>12. Outs' /\ Reads' /\ Decodes'
  BY <1>2 DEF Outs, Reads, Decodes, Remaining
<1>13. Lines'
  BY <1>2, <1>4 DEF Lines, Follows, OneRun, Remaining, Minted
<1>14. Orders'
  <2>1. ~Doomed
    BY <1>2 DEF Doomed
  <2>2. \A i \in 1 .. Len(Line) : previous' < Line[i].frame.id
    <3> SUFFICES ASSUME NEW i \in 1 .. Len(Line)
                 PROVE  previous' < Line[i].frame.id
      OBVIOUS
    <3>1. PICK g \in Frame : g = Line[i].frame
      BY <1>5
    <3>2. g.id \in Nat /\ g.run \in Nat
      BY Positive DEF Frame
    <3>3. f.id < g.id
      BY <1>3, <1>6, <3>1, <3>2 DEF Before
    <3> QED  BY <1>2, <1>3, <1>6, <3>1, <3>2, <3>3
  <2>3. \A i \in 1 .. Len(Line), k \in 1 .. Len(submitted') :
          Before(submitted'[k], Line[i].frame)
    BY <1>3, <1>8, <2>1 DEF Orders
  <2>4. pipe = "connected" => previous' <= seq
    <3>1. CASE previous' = f.id
      <4>1. seq \in Nat /\ run \in Nat
        BY Positive DEF Types
      <4> QED  BY <1>3, <1>6, <3>1, <4>1 DEF Minted
    <3>2. CASE previous' = previous
      BY <1>2, <3>2 DEF Orders, Serving
    <3> QED  BY <1>2, <3>1, <3>2
  <2> QED  BY <1>2, <1>4, <2>1, <2>2, <2>3, <2>4 DEF Orders, Doomed
<1>15. Accounts'
  <2>1. EveryFrameCounted'
    BY <1>2, <1>7 DEF Accounts, EveryFrameCounted, Types
  <2>2. SubmittedInOrder'
    <3>1. ToSet(submitted) \subseteq sent
      BY DEF Accounts, SubmittedInOrder
    <3>2. ToSet(submitted)' \subseteq sent'
      BY <1>2, <1>3, <1>7, <1>8, <3>1 DEF ToSet
    <3>3. \A i, j \in 1 .. Len(submitted') : i < j => Before(submitted'[i], submitted'[j])
      <4> SUFFICES ASSUME NEW i \in 1 .. Len(submitted'), NEW j \in 1 .. Len(submitted'), i < j
                   PROVE  Before(submitted'[i], submitted'[j])
        OBVIOUS
      <4>1. CASE j \in 1 .. Len(submitted)
        <5>1. i \in 1 .. Len(submitted)
          BY <1>7, <4>1
        <5>2. submitted'[i] = submitted[i] /\ submitted'[j] = submitted[j]
          BY <1>7, <4>1, <5>1
        <5> QED  BY <4>1, <5>1, <5>2 DEF Accounts, SubmittedInOrder, Before
      <4>2. CASE j = Len(submitted) + 1 /\ submitted'[j] = f
        <5>1. i \in 1 .. Len(submitted)
          BY <1>7, <4>2
        <5> QED  BY <1>3, <1>7, <4>2, <5>1
      <4> QED  BY <1>8, <4>1, <4>2
    <3> QED  BY <3>2, <3>3 DEF SubmittedInOrder, Before
  <2>3. (\A k \in 1 .. Len(submitted) : Minted(submitted[k]))'
    BY <1>2, <1>3, <1>8 DEF Accounts, Minted
  <2>4. (read <= taken /\ taken + cut <= MintedCount)'
    BY <1>2 DEF Accounts, MintedCount
  <2> QED  BY <1>9, <2>1, <2>2, <2>3, <2>4 DEF Accounts
<1> QED  BY <1>10, <1>11, <1>12, <1>13, <1>14, <1>15

\* The frame f has been read whole, and t is the line behind it.
Whole(f, t) ==
  /\ f \in Frame /\ f \in sent /\ Minted(f)
  /\ previous < f.id /\ taken + cut < Ordinal(f)
  /\ pipe = "connected" => f.run = run
  /\ \A k \in 1 .. Len(submitted) : Before(submitted[k], f)
  /\ Follows(t) /\ OneRun(t)
  /\ t # <<>> => t[1].part = 1
  /\ pipe = "connected" /\ t # <<>> => Remaining(t[Len(t)]) = 0
  /\ \A i \in 1 .. Len(t) :
       /\ Minted(t[i].frame)
       /\ pipe = "connected" => t[i].frame.run = run
       /\ Before(f, t[i].frame) /\ f.run = t[i].frame.run
       /\ taken + cut + 1 < Ordinal(t[i].frame)
       /\ previous < t[i].frame.id
       /\ \A k \in 1 .. Len(submitted) : Before(submitted[k], t[i].frame)

LEMMA TakenWhole ==
  ASSUME LinkInv, place \in {"payload", "discard"},
         NEW all \in Seq(Unit), NEW t \in Seq(Unit), Line = all \o t, all # <<>>,
         Len(all) <= Len(Arrived),
         NEW f, f = all[1].frame, Len(all) = FrameSize[f.kind]
  PROVE  Whole(f, t) /\ all = Units(f)
<1> USE DEF LinkInv
<1>1. place \in Serving /\ ~Doomed
  BY DEF Serving, Reading, Doomed
<1>2. PICK n \in Nat \ {0} : n = Len(all)
  BY EmptySeq
<1>3. /\ Line \in Seq(Unit) /\ Len(Line) \in Nat /\ Len(t) \in Nat
      /\ n \in 0 .. Len(Line) /\ Len(t) = Len(Line) - n /\ Len(Line) = n + Len(t)
      /\ \A i \in 1 .. n : i \in 1 .. Len(Line) /\ Line[i] = all[i]
      /\ \A i \in 1 .. Len(t) : n + i \in 1 .. Len(Line) /\ t[i] = Line[n + i]
      /\ \A i \in 1 .. Len(t) : n + i \in n + 1 .. Len(Line)
  <2>1. Line \in Seq(Unit) /\ Len(Line) \in Nat
    BY LineTyped
  <2>2. /\ Len(all \o t) = Len(all) + Len(t) /\ Len(t) \in Nat
        /\ \A i \in 1 .. Len(all) : i \in 1 .. Len(all \o t) /\ (all \o t)[i] = all[i]
        /\ \A i \in 1 .. Len(t) : /\ Len(all) + i \in 1 .. Len(all \o t)
                                  /\ (all \o t)[Len(all) + i] = t[i]
    BY Joined
  <2>3. /\ Len(Line) = n + Len(t)
        /\ \A i \in 1 .. n : i \in 1 .. Len(Line) /\ Line[i] = all[i]
        /\ \A i \in 1 .. Len(t) : n + i \in 1 .. Len(Line) /\ t[i] = Line[n + i]
    BY <1>2, <2>2
  <2>4. n \in 0 .. Len(Line) /\ Len(t) = Len(Line) - n
    BY <2>1, <2>2, <2>3
  <2>5. \A i \in 1 .. Len(t) : n + i \in n + 1 .. Len(Line)
    BY <2>1, <2>2, <2>3
  <2> QED  BY <2>1, <2>2, <2>3, <2>4, <2>5
<1>4. 1 \in 1 .. n /\ n \in 1 .. n /\ Line # <<>> /\ Line[1] = all[1]
  <2>1. 1 \in 1 .. n /\ n \in 1 .. n
    OBVIOUS
  <2>2. 1 \in 1 .. Len(Line) /\ Line[1] = all[1]
    BY <1>3, <2>1
  <2>3. Line # <<>>
    BY <2>2
  <2> QED  BY <2>1, <2>2, <2>3
<1>5. /\ f \in Frame
      /\ \A i \in 1 .. n : Line[i].frame = f /\ Line[i].part = i
      /\ \A i \in n + 1 .. Len(Line) :
           Before(f, Line[i].frame) /\ f.run = Line[i].frame.run
      /\ n < Len(Line) => Line[n + 1].part = 1
  <2>1. Line[1].part = 1 /\ Follows(Line) /\ OneRun(Line)
    BY <1>1, <1>4 DEF Orders, Lines
  <2>2. f = Line[1].frame
    BY <1>4
  <2>3. n \in Nat /\ n = FrameSize[f.kind]
    BY <1>2
  <2>4. n <= Len(Line) /\ Line \in Seq(Unit) /\ Line # <<>>
    BY <1>3, <1>4
  <2>5. Begins(Line, f, n)
    BY <2>1, <2>2, <2>3, <2>4, FirstFrame
  <2> QED  BY <2>5 DEF Begins
<1>6. all = Units(f)
  <2>1. /\ Units(f) \in Seq(Unit) /\ Len(Units(f)) = n
        /\ \A i \in 1 .. n : Units(f)[i].frame = f /\ Units(f)[i].part = i
    BY <1>2, <1>5, UnitsOf
  <2>2. \A i \in 1 .. n : all[i] \in Unit /\ Units(f)[i] \in Unit
    BY <1>2, <2>1, ElementOfSeq
  <2>3. \A i \in 1 .. n : all[i] = Units(f)[i]
    <3> SUFFICES ASSUME NEW i \in 1 .. n
                 PROVE  all[i] = Units(f)[i]
      OBVIOUS
    <3>1. all[i].frame = f /\ all[i].part = i
      BY <1>3, <1>5
    <3> QED  BY <2>1, <2>2, <3>1, SameUnit
  <2> QED  BY <1>2, <2>1, <2>3, SeqEqual
<1>7. f \in sent
  <2>1. Remaining(Line[n]) = 0
    <3>1. Line[n].frame = f /\ Line[n].part = n /\ FrameSize[f.kind] = n
      BY <1>2, <1>4, <1>5
    <3> QED  BY <3>1 DEF Remaining
  <2>2. n \in 1 .. Len(Arrived) /\ Line[n] = Arrived[n]
    BY <1>2, LineTyped
  <2>3. Line[n].frame = f
    BY <1>4, <1>5
  <2>4. Remaining(Arrived[n]) = 0 /\ Arrived[n].frame = f
    BY <2>1, <2>2, <2>3
  <2> QED  BY <2>2, <2>4 DEF Lines
<1>8. /\ Minted(f) /\ previous < f.id /\ taken + cut < Ordinal(f)
      /\ pipe = "connected" => f.run = run
      /\ \A k \in 1 .. Len(submitted) : Before(submitted[k], f)
  BY <1>1, <1>3, <1>4 DEF Lines, Orders
<1>9. Follows(t) /\ OneRun(t)
  BY <1>3, RestOfLine DEF Lines
<1>10. t # <<>> => t[1].part = 1
  <2> SUFFICES ASSUME t # <<>>
               PROVE  t[1].part = 1
    OBVIOUS
  <2>1. 1 \in 1 .. Len(t) /\ n < Len(Line)
    <3>1. Len(t) # 0
      BY EmptySeq
    <3>2. Len(t) \in Nat /\ Len(Line) = n + Len(t)
      BY <1>3
    <3> QED  BY <3>1, <3>2
  <2> QED  BY <1>3, <1>5, <2>1
<1>11. pipe = "connected" /\ t # <<>> => Remaining(t[Len(t)]) = 0
  <2> SUFFICES ASSUME pipe = "connected", t # <<>>
               PROVE  Remaining(t[Len(t)]) = 0
    OBVIOUS
  <2>1. Len(t) \in 1 .. Len(t) /\ n + Len(t) = Len(Line)
    BY <1>3
  <2>2. t[Len(t)] = Line[Len(Line)]
    BY <1>3, <2>1
  <2> QED  BY <1>4, <2>2 DEF Lines
<1>12. ASSUME NEW i \in 1 .. Len(t)
       PROVE  /\ Minted(t[i].frame)
              /\ pipe = "connected" => t[i].frame.run = run
              /\ Before(f, t[i].frame) /\ f.run = t[i].frame.run
              /\ taken + cut + 1 < Ordinal(t[i].frame)
              /\ previous < t[i].frame.id
              /\ \A k \in 1 .. Len(submitted) : Before(submitted[k], t[i].frame)
  <2>1. n + i \in 1 .. Len(Line) /\ n + i \in n + 1 .. Len(Line) /\ t[i] = Line[n + i]
    BY <1>3
  <2>2. PICK g \in Frame : g = t[i].frame
    BY LineInt
  <2>3. Before(f, g) /\ f.run = g.run
    BY <1>5, <2>1, <2>2
  <2>4. taken + cut + 1 < Ordinal(g)
    <3>1. Ordinal(f) \in Int /\ Ordinal(g) \in Int /\ Ordinal(f) < Ordinal(g)
      BY <1>5, <2>2, <2>3, OrderOfOrdinals
    <3>2. taken \in Nat /\ cut \in Nat
      BY DEF Types
    <3> QED  BY <1>8, <3>1, <3>2
  <2> QED  BY <1>1, <2>1, <2>2, <2>3, <2>4 DEF Lines, Orders
<1> QED  BY <1>5, <1>6, <1>7, <1>8, <1>9, <1>10, <1>11, <1>12 DEF Whole

\* What a frame taken whole does to the rest of the invariant, whatever is done
\* with the frame.
LEMMA AfterWhole ==
  ASSUME LinkInv, NEW f, Whole(f, Line'), place \in {"payload", "discard"},
         place' \in {"decode", "client"}, Arrived' = buf', Len(buf') \in Nat,
         \A i \in 1 .. Len(buf') : Remaining(buf'[i]) = 0 => buf'[i].frame \in sent,
         taken' = taken + 1,
         UNCHANGED <<writer, pipe, mode, canSetMode, stop, previous,
                     rejected, regressions, submitted, cut>>
  PROVE  /\ Lines' /\ Orders' /\ (taken + cut <= MintedCount)'
         /\ taken' + cut' <= Ordinal(f)
<1> USE DEF LinkInv, writer
<1>1. /\ taken \in Nat /\ cut \in Nat /\ Ordinal(f) \in Int /\ Ordinal(f) <= MintedCount
      /\ MintedCount \in Int /\ MintedCount' = MintedCount
  <2>1. f \in Frame /\ Minted(f)
    BY DEF Whole
  <2> QED  BY <2>1, OrderOfOrdinals, OrdinalOfMinted, MintedBounded DEF Types, MintedCount
<1>2. taken' + cut' = taken + cut + 1 /\ taken' + cut' <= Ordinal(f)
  BY <1>1 DEF Whole
<1>3. Lines'
  <2>1. Follows(Line)' /\ OneRun(Line)'
    BY DEF Whole, Follows, OneRun, Remaining
  <2>2. (\A i \in 1 .. Len(Line) : Minted(Line[i].frame))'
    BY DEF Whole, Minted
  <2>3. /\ (pipe = "connected" /\ Line # <<>> => Remaining(Line[Len(Line)]) = 0)'
        /\ (pipe = "connected" => \A i \in 1 .. Len(Line) : Line[i].frame.run = run)'
    BY DEF Whole, Remaining
  <2> QED  BY <2>1, <2>2, <2>3 DEF Lines, Remaining
<1>4. Orders'
  <2>1. (Line # <<>> => Line[1].part = 1)'
    BY DEF Whole
  <2>2. (\A i \in 1 .. Len(Line) : /\ taken + cut < Ordinal(Line[i].frame)
                                   /\ \A k \in 1 .. Len(submitted) : Before(submitted[k], Line[i].frame)
                                   /\ previous < Line[i].frame.id)'
    BY <1>2 DEF Whole
  <2>3. (pipe = "connected" => previous <= seq)'
    BY DEF Orders, Serving, Reading
  <2> QED  BY <2>1, <2>2, <2>3 DEF Orders
<1> QED  BY <1>1, <1>2, <1>3, <1>4

LEMMA ReadSomeKeeps == LinkInv /\ ReadSome => LinkInv'
<1> SUFFICES ASSUME LinkInv, ReadSome
             PROVE  LinkInv'
  OBVIOUS
<1> USE DEF LinkInv, writer, wire, counts, reader
<1>1. /\ place \in Reading
      /\ UNCHANGED <<writer, pipe, mode, canSetMode, stop, previous,
                     rejected, regressions, submitted, cut>>
  BY DEF ReadSome, Reading
<1>2. PICK n, all, w, r :
        /\ n \in 1 .. Len(buf)
        /\ w = SubSeq(buf, 1, n) /\ r = SubSeq(buf, n + 1, Len(buf)) /\ all = acc \o w
        /\ acc' = all /\ buf' = r /\ Len(all) <= Wanted
        /\ \/ Len(all) < Wanted /\ UNCHANGED <<place, read, dropped, taken>>
           \/ /\ Len(all) = Wanted /\ place = "header" /\ place' \in {"payload", "discard"}
              /\ UNCHANGED <<read, dropped, taken>>
           \/ /\ Len(all) = Wanted /\ place = "payload" /\ place' = "decode"
              /\ read' = read + 1 /\ taken' = taken + 1 /\ UNCHANGED dropped
           \/ /\ Len(all) = Wanted /\ place = "discard" /\ place' = "client"
              /\ dropped' = dropped + 1 /\ taken' = taken + 1 /\ UNCHANGED read
  <2>1. PICK n \in 1 .. Len(buf) :
          LET all == acc \o SubSeq(buf, 1, n) IN
          /\ Len(all) <= Wanted
          /\ acc' = all
          /\ buf' = SubSeq(buf, n + 1, Len(buf))
          /\ IF Len(all) < Wanted THEN UNCHANGED <<place, read, dropped, taken>>
             ELSE CASE place = "header"  -> /\ place' = IF all[1].frame.kind = "canonical"
                                                        THEN "payload" ELSE "discard"
                                            /\ UNCHANGED <<read, dropped, taken>>
                    [] place = "payload" -> /\ place' = "decode"
                                            /\ read' = read + 1 /\ taken' = taken + 1
                                            /\ UNCHANGED dropped
                    [] place = "discard" -> /\ place' = "client"
                                            /\ dropped' = dropped + 1 /\ taken' = taken + 1
                                            /\ UNCHANGED read
    BY DEF ReadSome
  <2>2. PICK w, r : w = SubSeq(buf, 1, n) /\ r = SubSeq(buf, n + 1, Len(buf))
    OBVIOUS
  <2>3. PICK all : all = acc \o w
    OBVIOUS
  <2>4. Len(all) < Wanted \/ Len(all) = Wanted
    <3>1. Len(all) \in Int
      <4>1. n \in 0 .. Len(buf) /\ buf \in Seq(Unit) /\ acc \in Seq(Unit)
        BY DEF Types
      <4>2. w \in Seq(Unit)
        BY <2>2, <4>1, SplitSeq
      <4> QED  BY <2>3, <4>1, <4>2, Joined
    <3>2. Wanted \in Int
      <4>1. place # "header" => 1 \in 1 .. Len(acc) /\ acc \in Seq(Unit)
        <5>1. place # "header" => acc # <<>> /\ acc \in Seq(Unit)
          BY <1>1 DEF Reads, Reading, Types
        <5> QED  BY <5>1, EmptySeq
      <4>2. place # "header" => FrameSize[acc[1].frame.kind] \in Nat
        BY <4>1, LineInt
      <4> QED  BY <4>2, Positive DEF Wanted
    <3> QED  BY <2>1, <2>2, <2>3, <3>1, <3>2
  <2>5. place = "header" \/ place = "payload" \/ place = "discard"
    BY <1>1 DEF Reading
  <2>6. /\ Len(all) <= Wanted /\ acc' = all /\ buf' = r
        /\ Len(all) < Wanted => UNCHANGED <<place, read, dropped, taken>>
        /\ ~(Len(all) < Wanted) =>
             /\ place = "header" => /\ place' \in {"payload", "discard"}
                                    /\ UNCHANGED <<read, dropped, taken>>
             /\ place = "payload" => /\ place' = "decode"
                                     /\ read' = read + 1 /\ taken' = taken + 1
                                     /\ UNCHANGED dropped
             /\ place = "discard" => /\ place' = "client"
                                     /\ dropped' = dropped + 1 /\ taken' = taken + 1
                                     /\ UNCHANGED read
    BY <2>1, <2>2, <2>3, <2>5
  <2> QED  BY <2>2, <2>3, <2>4, <2>5, <2>6
<1>3. /\ w \in Seq(Unit) /\ r \in Seq(Unit) /\ w \o r = buf /\ Len(w) = n
      /\ Len(r) = Len(buf) - n /\ acc \in Seq(Unit) /\ buf \in Seq(Unit)
      /\ n \in 1 .. Len(buf)
  <2>1. n \in 0 .. Len(buf) /\ buf \in Seq(Unit) /\ acc \in Seq(Unit)
    BY <1>2 DEF Types
  <2>2. /\ w \in Seq(Unit) /\ r \in Seq(Unit) /\ w \o r = buf /\ Len(w) = n
        /\ Len(r) = Len(buf) - n
    BY <1>2, <2>1, SplitSeq
  <2> QED  BY <1>2, <2>1, <2>2
<1>4. /\ all \in Seq(Unit) /\ Len(all) = Len(acc) + n /\ all # <<>>
      /\ Len(all) \in Nat /\ n \in Nat \ {0} /\ Len(acc) \in Nat /\ Len(buf) \in Nat
      /\ acc # <<>> => all[1] = acc[1]
  <2>1. /\ all \in Seq(Unit) /\ Len(all) = Len(acc) + n /\ Len(acc) \in Nat
        /\ \A i \in 1 .. Len(acc) : all[i] = acc[i]
    <3>1. acc \o w \in Seq(Unit) /\ Len(acc \o w) = Len(acc) + Len(w) /\ Len(acc) \in Nat
      BY <1>3, Joined
    <3>2. \A i \in 1 .. Len(acc) : (acc \o w)[i] = acc[i]
      BY <1>3, Joined
    <3> QED  BY <1>2, <1>3, <3>1, <3>2
  <2>2. n \in Nat \ {0} /\ Len(buf) \in Nat
    BY <1>3
  <2>3. Len(all) # 0
    BY <2>1, <2>2
  <2>4. acc # <<>> => 1 \in 1 .. Len(acc)
    BY <1>3
  <2> QED  BY <2>1, <2>2, <2>3, <2>4
<1>5. Arrived = all \o r
  <2>1. Arrived = acc \o (w \o r)
    BY <1>1, <1>3 DEF Arrived, Kept
  <2> QED  BY <1>2, <1>3, <2>1, Associates
<1>6. Coming' = Coming /\ Coming \in Seq(Unit)
  BY <1>1, LineTyped DEF Coming
<1>7. Line = all \o (r \o Coming)
  <2>1. all \in Seq(Unit) /\ r \in Seq(Unit) /\ Coming \in Seq(Unit)
    BY <1>3, <1>4, <1>6
  <2>2. all \o (r \o Coming) = (all \o r) \o Coming
    BY <2>1, Associates
  <2> QED  BY <1>5, <2>2 DEF Line
<1>8. acc' \in Seq(Unit) /\ buf' \in Seq(Unit) /\ Len(buf') <= Len(buf) /\ Len(buf') \in Nat
  <2>1. Len(r) = Len(buf) - n /\ Len(r) \in Nat /\ n \in Nat
    BY <1>3, <1>4
  <2>2. Len(r) <= Len(buf)
    BY <1>4, <2>1
  <2> QED  BY <1>2, <1>3, <1>4, <2>1, <2>2
<1>9. Types'
  <2>1. read' \in Nat /\ dropped' \in Nat /\ taken' \in Nat
    <3>1. read \in Nat /\ dropped \in Nat /\ taken \in Nat
      BY DEF Types
    <3>2. read' \in {read, read + 1} /\ dropped' \in {dropped, dropped + 1}
          /\ taken' \in {taken, taken + 1}
      BY <1>2
    <3> QED  BY <3>1, <3>2
  <2>2. place' \in {"create", "loop", "connect", "setMode", "client", "header", "payload",
                    "discard", "decode", "disconnect", "ended"}
    BY <1>2 DEF Types
  <2> QED  BY <1>1, <1>8, <2>1, <2>2 DEF Types
<1>10. Links'
  <2>1. buf # <<>>
    BY <1>3, <1>4
  <2>2. pipe \in {"connected", "closing"}
    BY <2>1 DEF Links
  <2>3. Len(buf') <= Capacity
    BY <1>4, <1>8, Positive DEF Links
  <2>4. place # "create" /\ place' # "create"
    BY <1>1, <1>2 DEF Reading
  <2> QED  BY <1>1, <2>2, <2>3, <2>4 DEF Links
<1>11. Outs'
  BY <1>1 DEF Outs, Remaining
<1>12. CASE place' \in Reading
  <2>1. /\ UNCHANGED <<read, dropped, taken>>
        /\ place' = "header" => Len(all) < Wanted /\ place' = place
    BY <1>2, <1>12 DEF Reading
  <2>2. Kept' = all
    BY <1>2, <1>12 DEF Kept
  <2>3. Arrived' = Arrived
    BY <1>2, <1>5, <2>2 DEF Arrived
  <2>4. Line' = Line
    BY <1>6, <2>3 DEF Line
  <2>5. Reads'
    <3>1. (place' = "header" => Len(acc') < HeaderLen)
      BY <1>2, <2>1 DEF Wanted
    <3> QED  BY <1>2, <1>4, <3>1 DEF Reads
  <2>6. Lines'
    BY <1>1, <2>3, <2>4 DEF Lines, Follows, OneRun, Remaining, Minted
  <2>7. Orders'
    <3>1. ~Doomed /\ ~Doomed'
      BY <1>1, <1>12 DEF Doomed, Reading
    <3>2. place \in Serving /\ place' \in Serving
      BY <1>1, <1>12 DEF Serving
    <3> QED  BY <1>1, <2>1, <2>4, <3>1, <3>2 DEF Orders
  <2>8. Decodes'
    BY <1>12 DEF Decodes, Reading
  <2>9. Accounts'
    <3>1. place # "decode" /\ place' # "decode"
      BY <1>1, <1>12 DEF Reading
    <3> QED  BY <1>1, <2>1, <3>1
                DEF Accounts, EveryFrameCounted, SubmittedInOrder, Minted, MintedCount
  <2> QED  BY <1>9, <1>10, <1>11, <2>5, <2>6, <2>7, <2>8, <2>9
<1>13. CASE place' \notin Reading
  <2>1. /\ place \in {"payload", "discard"} /\ taken' = taken + 1 /\ Len(all) = Wanted
        /\ \/ place' = "decode" /\ read' = read + 1 /\ dropped' = dropped
           \/ place' = "client" /\ read' = read /\ dropped' = dropped + 1
    BY <1>1, <1>2, <1>13 DEF Reading
  <2>2. Kept' = <<>> /\ Arrived' = r /\ Line' = r \o Coming
    <3>1. Kept' = <<>> /\ <<>> \in Seq(Unit)
      BY <1>13 DEF Kept
    <3>2. Arrived' = r
      BY <1>2, <1>3, <3>1, Joined DEF Arrived
    <3> QED  BY <1>6, <3>1, <3>2 DEF Line
  <2>3. PICK f : f = all[1].frame
    OBVIOUS
  <2>4. Whole(f, Line') /\ all = Units(f)
    <3>1. Line = all \o Line' /\ Line' \in Seq(Unit)
      BY <1>3, <1>6, <1>7, <2>2, Joined
    <3>2. Len(all) <= Len(Arrived)
      <4>1. Len(all \o r) = Len(all) + Len(r) /\ Len(r) \in Nat
        BY <1>3, <1>4, Joined
      <4> QED  BY <1>4, <1>5, <4>1
    <3>3. Len(all) = FrameSize[f.kind]
      BY <1>4, <2>1, <2>3 DEF Wanted, Reads
    <3> QED  BY <1>4, <2>1, <2>3, <3>1, <3>2, <3>3, TakenWhole
  <2>5. \A i \in 1 .. Len(r) : Remaining(r[i]) = 0 => r[i].frame \in sent
    <3> SUFFICES ASSUME NEW i \in 1 .. Len(r), Remaining(r[i]) = 0
                 PROVE  r[i].frame \in sent
      OBVIOUS
    <3>1. Len(all) + i \in 1 .. Len(all \o r) /\ (all \o r)[Len(all) + i] = r[i]
      <4>1. all \in Seq(Unit) /\ r \in Seq(Unit)
        BY <1>3, <1>4
      <4> QED  BY <4>1, Joined
    <3> QED  BY <1>5, <3>1 DEF Lines
  <2>6. /\ Lines' /\ Orders' /\ (taken + cut <= MintedCount)'
        /\ taken' + cut' <= Ordinal(f)
    <3>1. place' \in {"decode", "client"} /\ Arrived' = buf' /\ buf' = r
      BY <1>2, <2>1, <2>2
    <3> QED  BY <1>1, <1>8, <2>1, <2>4, <2>5, <3>1, AfterWhole
  <2>7. Reads'
    BY <2>1 DEF Reads
  <2>8. Decodes'
    <3> SUFFICES ASSUME place' = "decode"
                 PROVE  Decodes'
      BY DEF Decodes
    <3>1. acc' = Units(f) /\ acc'[1].frame = f /\ acc' # <<>>
      BY <1>2, <1>4, <2>3, <2>4
    <3>2. FramesAreWhole'
      BY <3>1 DEF FramesAreWhole, Units
    <3>3. f \in sent' /\ Minted(f)' /\ previous' < f.id /\ (pipe' = "connected" => f.run = run')
      BY <1>1, <2>4 DEF Whole, Minted
    <3>4. \A k \in 1 .. Len(submitted') : Before(submitted'[k], f)
      BY <1>1, <2>4 DEF Whole
    <3>5. \A i \in 1 .. Len(Line') : Before(f, Line'[i].frame) /\ f.run = Line'[i].frame.run
      BY <2>4 DEF Whole
    <3> QED  BY <2>6, <3>1, <3>2, <3>3, <3>4, <3>5 DEF Decodes, Minted
  <2>9. Accounts'
    <3>1. EveryFrameCounted'
      <4>1. Len(submitted) \in Nat /\ Len(submitted') = Len(submitted) /\ place # "decode"
        BY <1>1, <2>1 DEF Types
      <4> QED  BY <1>1, <2>1, <4>1 DEF Accounts, EveryFrameCounted, Types
    <3>2. (read <= taken)'
      BY <2>1 DEF Accounts, Types
    <3> QED  BY <1>1, <2>6, <3>1, <3>2 DEF Accounts, SubmittedInOrder, Minted
  <2> QED  BY <1>9, <1>10, <1>11, <2>6, <2>7, <2>8, <2>9
<1> QED  BY <1>12, <1>13

-----------------------------------------------------------------------------

LEMMA InitLink == NoseInit => LinkInv
<1> SUFFICES ASSUME NoseInit
             PROVE  LinkInv
  OBVIOUS
<1> USE DEF NoseInit
<1>1. <<>> \in Seq(Unit) /\ <<>> \in Seq(Frame) /\ Len(<<>>) = 0
  OBVIOUS
<1>2. Types
  <2>1. /\ run \in 0 .. MaxRuns /\ seq \in 0 .. MaxEvents /\ previous \in 0 .. MaxEvents
        /\ read \in Nat /\ rejected \in Nat /\ dropped \in Nat
        /\ taken \in Nat /\ cut \in Nat
    BY Positive
  <2>2. acc \in Seq(Unit) /\ buf \in Seq(Unit) /\ out \in Seq(Unit) /\ submitted \in Seq(Frame)
    BY <1>1
  <2>3. /\ up \in BOOLEAN /\ handle \in BOOLEAN /\ canSetMode \in BOOLEAN /\ stop \in BOOLEAN
        /\ sent \in SUBSET Frame
    OBVIOUS
  <2> QED  BY <2>1, <2>2, <2>3 DEF Types
<1>3. Links
  BY <1>1, Positive DEF Links, Reading, Serving
<1>4. Line = <<>> /\ Arrived = <<>>
  BY <1>2, <1>3, LineEmpty
<1>5. Outs /\ Reads /\ Decodes
  BY <1>1 DEF Outs, Reads, Decodes
<1>6. Lines
  BY <1>1, <1>4, EmptyLine DEF Lines
<1>7. Orders
  BY <1>1, <1>4 DEF Orders, Serving, Reading
<1>8. Accounts
  BY <1>1 DEF Accounts, EveryFrameCounted, SubmittedInOrder, MintedCount, ToSet
<1> QED  BY <1>2, <1>3, <1>5, <1>6, <1>7, <1>8 DEF LinkInv

LEMMA StutterKeeps == LinkInv /\ UNCHANGED noseVars => LinkInv'
<1> SUFFICES ASSUME LinkInv, UNCHANGED noseVars
             PROVE  LinkInv'
  OBVIOUS
<1> USE DEF LinkInv, noseVars, writer, wire, counts, reader
<1>1. Kept' = Kept /\ Arrived' = Arrived /\ Line' = Line
  BY DEF Kept, Arrived, Coming, Line
<1>2. Types' /\ Links'
  BY DEF Types, Links
<1>3. Outs' /\ Reads' /\ Lines'
  BY <1>1 DEF Outs, Reads, Lines, Follows, OneRun, Remaining, Minted
<1>4. Orders' /\ Decodes'
  BY <1>1 DEF Orders, Doomed, Decodes, FramesAreWhole, Units, Minted
<1>5. Accounts'
  BY DEF Accounts, EveryFrameCounted, SubmittedInOrder, Minted, MintedCount
<1> QED  BY <1>2, <1>3, <1>4, <1>5

\* The link, for every number of capture processes and events, every size of
\* the pipe and every length of the frames.
THEOREM NoseInvariance == NoseSpec => []LinkInv
<1>1. LinkInv /\ [NoseNext]_noseVars => LinkInv'
  <2> SUFFICES ASSUME LinkInv, [NoseNext]_noseVars
               PROVE  LinkInv'
    OBVIOUS
  <2>1. CASE Nose
    BY <2>1, StartNoseKeeps, SendUnconnectedKeeps, SendKeeps, WriteSomeKeeps,
       WriteFailsKeeps, StopNoseKeeps DEF Nose
  <2>2. CASE Reader
    BY <2>2, CreateServerKeeps, LoopTestKeeps, ConnectKeeps, SetModeKeeps, ClientTestKeeps,
       ReadSomeKeeps, ReadFailsKeeps, DecodeKeeps, DisconnectKeeps DEF Reader
  <2>3. CASE RequestStop
    BY <2>3, RequestStopKeeps
  <2>4. CASE UNCHANGED noseVars
    BY <2>4, StutterKeeps
  <2> QED  BY <2>1, <2>2, <2>3, <2>4 DEF NoseNext
<1> QED  BY <1>1, InitLink, PTL DEF NoseSpec

\* A frame is decoded only whole, and each frame taken off the pipe, or cut
\* short by a stop, is counted once (readExact and the counters of the reader).
THEOREM FramesAreAccountedFor == NoseSpec => []FramesAccounted
<1>1. LinkInv => FramesAccounted
  <2> SUFFICES ASSUME LinkInv
               PROVE  FramesAccounted
    OBVIOUS
  <2> USE DEF LinkInv
  <2>1. FramesAreWhole
    BY DEF Decodes, FramesAreWhole
  <2>2. NoseTypeOK
    <3>1. PICK most \in Nat : most = MaxRuns * MaxEvents /\ taken + cut <= most
      <4>1. MintedCount \in 0 .. MaxRuns * MaxEvents /\ taken + cut <= MintedCount
        BY MintedBounded DEF Accounts
      <4>2. MaxRuns * MaxEvents \in Nat /\ taken + cut \in Nat
        BY Positive DEF Types
      <4> QED  BY <4>1, <4>2
    <3>2. {taken, cut, read} \subseteq 0 .. most
      BY <3>1 DEF Types, Accounts
    <3>3. {rejected, dropped} \subseteq 0 .. most
      <4>1. Len(submitted) \in Nat
        BY DEF Types
      <4>2. rejected + dropped <= most
        BY <3>1, <4>1 DEF Types, Accounts, EveryFrameCounted
      <4> QED  BY <3>1, <4>2 DEF Types
    <3>4. regressions \in 0 .. most
      BY DEF Accounts
    <3>5. {read, rejected, dropped, regressions, taken, cut} \subseteq 0 .. MaxRuns * MaxEvents
      BY <3>1, <3>2, <3>3, <3>4
    <3> QED  BY <3>5 DEF NoseTypeOK, Types, Links
  <2> QED  BY <2>1, <2>2 DEF FramesAccounted, Accounts
<1> QED  BY <1>1, NoseInvariance, PTL

\* The detector is handed frames that were sent whole, each once and in the
\* order they were made, over any reconnections (Decode and Disconnect).
THEOREM FramesAreInOrder == NoseSpec => []SubmittedInOrder
<1>1. LinkInv => SubmittedInOrder
  BY DEF LinkInv, Accounts
<1> QED  BY <1>1, NoseInvariance, PTL

\* A capture process that restarts is not reported as a regression of its event
\* ids: previous_connection_event_id begins again with each connection.
THEOREM RestartIsNoRegression == NoseSpec => []NoFalseRegression
<1>1. LinkInv => NoFalseRegression
  BY DEF LinkInv, Accounts, NoFalseRegression
<1> QED  BY <1>1, NoseInvariance, PTL
=============================================================================

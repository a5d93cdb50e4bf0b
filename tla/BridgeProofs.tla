---------------------------- MODULE BridgeProofs ----------------------------
(***************************************************************************)
(* Theorems about Bridge for a queue of any capacity, any packets, any     *)
(* updates and any number of calls: the queue is the queue of records that *)
(* RecordFifo describes, the counters behind the DEFCON level are those of *)
(* the events it took, and what the parser hands on lies in the buffer.    *)
(*                                                                         *)
(* The tail is where the head and the count say (Linked): with it a push   *)
(* appends to the contents and a pop takes the first of them, and what was *)
(* delivered and what waits are together all that was taken.               *)
(***************************************************************************)
EXTENDS Bridge, FiniteSetTheorems, SequenceTheorems, TLAPS

Linked ==
  /\ tail = (head + count) % Capacity
  /\ ~initialized => delivered = <<>>

IInv == TypeOK /\ Linked /\ AlertsAreEvents /\ LabelAgrees

-----------------------------------------------------------------------------
(* Lemmas: positions of the queue *)

\* Below two laps, one at most is taken off a position.
LEMMA Reduce ==
  ASSUME NEW n \in Nat, n < 2 * Capacity
  PROVE  /\ Capacity \in Nat \ {0}
         /\ n % Capacity = IF n < Capacity THEN n ELSE n - Capacity
         /\ n % Capacity \in Slot
<1>1. Capacity \in Nat /\ Capacity > 0
  BY BridgeAssumption
<1> DEFINE q == n \div Capacity
           m == n % Capacity
<1>2. q \in Int /\ m \in 0 .. Capacity - 1 /\ n = Capacity * q + m
  BY <1>1
<1> HIDE DEF q, m
<1>3. q = 0 \/ q = 1
  <2>1. q >= 0
    BY <1>1, <1>2
  <2>2. q <= 1
    BY <1>1, <1>2
  <2> QED  BY <1>2, <2>1, <2>2
<1>4. CASE q = 0
  <2>1. n = m
    BY <1>1, <1>2, <1>4
  <2> QED  BY <1>1, <1>2, <2>1 DEF m, Slot
<1>5. CASE q = 1
  <2>1. n = Capacity + m
    BY <1>1, <1>2, <1>5
  <2> QED  BY <1>1, <1>2, <2>1 DEF m, Slot
<1> QED  BY <1>3, <1>4, <1>5

\* The events that wait are in slots of their own, and the tail is in none.
LEMMA Positions ==
  ASSUME NEW h \in Slot, NEW n \in 0 .. Capacity
  PROVE  /\ h \in Nat /\ n \in Nat /\ (h + n) % Capacity \in Slot
         /\ NextSlot((h + n) % Capacity) = (h + (n + 1)) % Capacity
         /\ NextSlot(h) \in Slot
         /\ n # 0 => (NextSlot(h) + (n - 1)) % Capacity = (h + n) % Capacity
         /\ \A i \in 1 .. n : (h + i - 1) % Capacity \in Slot
         /\ n < Capacity =>
              \A i \in 1 .. n : (h + i - 1) % Capacity # (h + n) % Capacity
         /\ h % Capacity = h
<1>1. Capacity \in Nat \ {0} /\ h \in 0 .. Capacity - 1
  BY BridgeAssumption DEF Slot
<1>2. \A k \in 0 .. 2 * Capacity - 1 :
        /\ k % Capacity = IF k < Capacity THEN k ELSE k - Capacity
        /\ k % Capacity \in Slot
  BY <1>1, Reduce
<1>3. h + n \in 0 .. 2 * Capacity - 1 /\ h + 1 \in 0 .. 2 * Capacity - 1
      /\ h \in 0 .. 2 * Capacity - 1
  BY <1>1
<1>4. (h + n) % Capacity \in Slot /\ NextSlot(h) \in Slot /\ h % Capacity = h
  BY <1>1, <1>2, <1>3 DEF NextSlot
<1>5. NextSlot((h + n) % Capacity) = (h + (n + 1)) % Capacity
  <2>1. CASE h + n < Capacity
    BY <1>1, <1>2, <1>3, <2>1 DEF NextSlot
  <2>2. CASE h + n >= Capacity
    <3>1. (h + n) % Capacity = h + n - Capacity
      BY <1>1, <1>2, <1>3, <2>2
    <3>2. h + n - Capacity + 1 \in 0 .. 2 * Capacity - 1 /\ h + n - Capacity + 1 <= Capacity
      BY <1>1, <2>2
    <3>3. CASE h + n + 1 = 2 * Capacity
      <4>1. (2 * Capacity) % Capacity = 0 /\ Capacity % Capacity = 0
        BY <1>1
      <4>2. h + (n + 1) = 2 * Capacity /\ h + n - Capacity + 1 = Capacity
        BY <1>1, <3>3
      <4> QED  BY <3>1, <4>1, <4>2 DEF NextSlot
    <3>4. CASE h + n + 1 # 2 * Capacity
      <4>1. h + (n + 1) \in 0 .. 2 * Capacity - 1 /\ h + (n + 1) >= Capacity
        BY <1>1, <2>2, <3>4
      <4>2. (h + (n + 1)) % Capacity = h + (n + 1) - Capacity
        BY <1>1, <1>2, <4>1
      <4>3. (h + n - Capacity + 1) % Capacity = h + n - Capacity + 1
        BY <1>1, <1>2, <3>2, <4>1
      <4> QED  BY <1>1, <3>1, <4>2, <4>3 DEF NextSlot
    <3> QED  BY <3>3, <3>4
  <2> QED  BY <1>1, <2>1, <2>2
<1>6. n # 0 => (NextSlot(h) + (n - 1)) % Capacity = (h + n) % Capacity
  <2> SUFFICES ASSUME n # 0
               PROVE  (NextSlot(h) + (n - 1)) % Capacity = (h + n) % Capacity
    OBVIOUS
  <2>1. CASE h + 1 < Capacity
    <3>1. NextSlot(h) = h + 1
      BY <1>1, <1>2, <1>3, <2>1 DEF NextSlot
    <3>2. (h + 1) + (n - 1) = h + n
      BY <1>1
    <3> QED  BY <3>1, <3>2
  <2>2. CASE h + 1 = Capacity
    <3>1. NextSlot(h) = 0
      BY <1>1, <1>2, <1>3, <2>2 DEF NextSlot
    <3>2. 0 + (n - 1) = h + n - Capacity /\ n - 1 \in 0 .. Capacity - 1 /\ h + n >= Capacity
      BY <1>1, <2>2
    <3>3. (n - 1) % Capacity = n - 1 /\ (h + n) % Capacity = h + n - Capacity
      BY <1>1, <1>2, <1>3, <3>2
    <3> QED  BY <3>1, <3>2, <3>3
  <2> QED  BY <1>1, <2>1, <2>2
<1>7. \A i \in 1 .. n : (h + i - 1) % Capacity \in Slot
  BY <1>1, <1>2
<1>8. ASSUME n < Capacity, NEW i \in 1 .. n
      PROVE  (h + i - 1) % Capacity # (h + n) % Capacity
  <2>1. PICK a \in Nat, b \in Nat : a = h + i - 1 /\ b = h + n
    BY <1>1
  <2>2. a < 2 * Capacity /\ b < 2 * Capacity /\ a < b /\ b < a + Capacity
    BY <1>1, <1>8, <2>1
  <2>3. a % Capacity = IF a < Capacity THEN a ELSE a - Capacity
    BY <2>2, Reduce
  <2>4. b % Capacity = IF b < Capacity THEN b ELSE b - Capacity
    BY <2>2, Reduce
  <2>5. a % Capacity # b % Capacity
    BY <1>1, <2>2, <2>3, <2>4
  <2> QED  BY <2>1, <2>5
<1> QED  BY <1>1, <1>4, <1>5, <1>6, <1>7, <1>8

LEMMA ContentsTyped ==
  ASSUME TypeOK
  PROVE  /\ Contents \in Seq(Event) /\ Len(Contents) = count /\ count \in Nat
         /\ \A i \in 1 .. count : Contents[i] = buffer[(head + i - 1) % Capacity]
<1>1. \A i \in 1 .. count : buffer[(head + i - 1) % Capacity] \in Event
  BY Positions DEF TypeOK
<1>2. count \in Nat
  BY BridgeAssumption DEF TypeOK
<1>3. Contents \in [1 .. count -> Event]
  BY <1>1 DEF Contents
<1>4. Contents \in Seq(Event) /\ Len(Contents) = count
  BY <1>2, <1>3
<1> QED  BY <1>2, <1>4 DEF Contents

\* SharedRingBuffer::Push on a queue that is not full.
LEMMA PushAppends ==
  ASSUME TypeOK, TypeOK', Linked, count < Capacity, Accepted, UNCHANGED head
  PROVE  Contents' = Append(Contents, event) /\ tail' = (head' + count') % Capacity
<1>1. /\ buffer' = [buffer EXCEPT ![tail] = event] /\ count' = count + 1 /\ head' = head
      /\ tail' = NextSlot(tail) /\ tail = (head + count) % Capacity
      /\ head \in Slot /\ count \in 0 .. Capacity /\ buffer \in [Slot -> Event]
      /\ event \in Event
  BY DEF Accepted, Linked, TypeOK
<1>2. /\ tail \in Slot /\ count \in Nat
      /\ NextSlot(tail) = (head + (count + 1)) % Capacity
      /\ \A i \in 1 .. count : /\ (head + i - 1) % Capacity \in Slot
                               /\ (head + i - 1) % Capacity # tail
  BY <1>1, Positions
<1>3. /\ Contents \in Seq(Event) /\ Len(Contents) = count
      /\ \A i \in 1 .. count : Contents[i] = buffer[(head + i - 1) % Capacity]
  BY ContentsTyped
<1>4. Contents' = [i \in 1 .. count + 1 |-> buffer'[(head + i - 1) % Capacity]]
  BY <1>1 DEF Contents
<1>5. \A i \in 1 .. count : buffer'[(head + i - 1) % Capacity] = Contents[i]
  BY <1>1, <1>2, <1>3
<1>6. buffer'[(head + (count + 1) - 1) % Capacity] = event
  <2>1. head + (count + 1) - 1 = head + count
    BY <1>1, BridgeAssumption DEF Slot
  <2> QED  BY <1>1, <1>2, <2>1
<1>7. /\ Append(Contents, event) \in Seq(Event) /\ Len(Append(Contents, event)) = count + 1
      /\ \A i \in 1 .. count : Append(Contents, event)[i] = Contents[i]
      /\ Append(Contents, event)[count + 1] = event
  BY <1>1, <1>3, AppendProperties
<1>8. \A i \in 1 .. count + 1 : i \in 1 .. count \/ i = count + 1
  BY <1>2
<1>9. \A i \in 1 .. count + 1 :
         /\ buffer'[(head + i - 1) % Capacity] = Append(Contents, event)[i]
         /\ buffer'[(head + i - 1) % Capacity] \in Event
  <2> SUFFICES ASSUME NEW i \in 1 .. count + 1
               PROVE  /\ buffer'[(head + i - 1) % Capacity] = Append(Contents, event)[i]
                      /\ buffer'[(head + i - 1) % Capacity] \in Event
    OBVIOUS
  <2>1. CASE i \in 1 .. count
    <3>1. Contents[i] \in Event
      BY <1>3, <2>1, ElementOfSeq
    <3> QED  BY <1>5, <1>7, <2>1, <3>1
  <2>2. CASE i = count + 1
    BY <1>1, <1>6, <1>7, <2>2
  <2> QED  BY <1>8, <2>1, <2>2
<1>10. Contents' \in Seq(Event) /\ Len(Contents') = count + 1
  <2>1. Contents' \in [1 .. count + 1 -> Event]
    BY <1>4, <1>9
  <2> QED  BY <1>2, <2>1
<1>11. \A i \in 1 .. count + 1 : Contents'[i] = Append(Contents, event)[i]
  BY <1>4, <1>9
<1>12. Contents' = Append(Contents, event)
  BY <1>7, <1>10, <1>11, SeqEqual
<1> QED  BY <1>1, <1>2, <1>12

\* SharedRingBuffer::Pop
LEMMA PopTakesFirst ==
  ASSUME TypeOK, TypeOK', Linked, PopEvent
  PROVE  /\ Contents' = SubSeq(Contents, 2, Len(Contents))
         /\ delivered' = Append(delivered, Contents[1])
         /\ tail' = (head' + count') % Capacity /\ 1 <= Len(Contents)
<1>1. /\ count # 0 /\ head' = NextSlot(head) /\ count' = count - 1
      /\ delivered' = Append(delivered, buffer[head])
      /\ UNCHANGED <<buffer, tail>> /\ tail = (head + count) % Capacity
      /\ head \in Slot /\ count \in 0 .. Capacity /\ head' \in Slot /\ count' \in 0 .. Capacity
  BY DEF PopEvent, Linked, TypeOK
<1>2. /\ Contents \in Seq(Event) /\ Len(Contents) = count /\ count \in Nat \ {0}
      /\ \A i \in 1 .. count : Contents[i] = buffer[(head + i - 1) % Capacity]
  BY <1>1, ContentsTyped
<1>3. buffer[head] = Contents[1]
  <2>1. 1 \in 1 .. count /\ head + 1 - 1 = head
    BY <1>1, <1>2, BridgeAssumption DEF Slot
  <2>2. head % Capacity = head
    BY <1>1, Positions
  <2> QED  BY <1>2, <2>1, <2>2
<1>4. tail' = (head' + count') % Capacity
  <2>1. (NextSlot(head) + (count - 1)) % Capacity = (head + count) % Capacity
    BY <1>1, Positions
  <2> QED  BY <1>1, <2>1
<1>5. Contents' = [i \in 1 .. count - 1 |-> buffer[(NextSlot(head) + i - 1) % Capacity]]
  BY <1>1 DEF Contents
<1>6. \A i \in 1 .. count - 1 :
        buffer[(NextSlot(head) + i - 1) % Capacity] = Contents[i + 1]
  <2> SUFFICES ASSUME NEW i \in 1 .. count - 1
               PROVE  buffer[(NextSlot(head) + i - 1) % Capacity] = Contents[i + 1]
    OBVIOUS
  <2>1. i \in 0 .. Capacity /\ i # 0 /\ i + 1 \in 1 .. count
    BY <1>1, <1>2, BridgeAssumption
  <2>2. (NextSlot(head) + (i - 1)) % Capacity = (head + i) % Capacity
    BY <1>1, <2>1, Positions
  <2>3. NextSlot(head) + i - 1 = NextSlot(head) + (i - 1) /\ head + (i + 1) - 1 = head + i
    <3>1. NextSlot(head) \in Nat /\ head \in Nat
      BY <1>1, BridgeAssumption DEF Slot
    <3> QED  BY <2>1, <3>1
  <2> QED  BY <1>2, <2>1, <2>2, <2>3
<1>7. SubSeq(Contents, 2, Len(Contents)) = [i \in 1 .. count - 1 |-> Contents[i + 1]]
  BY <1>2
<1>8. Contents' = SubSeq(Contents, 2, Len(Contents))
  BY <1>5, <1>6, <1>7
<1> QED  BY <1>1, <1>2, <1>3, <1>4, <1>8

-----------------------------------------------------------------------------
(* Lemmas: how many of the events that were taken are of a kind *)

Which(s, E) == {i \in DOMAIN s : s[i] \in E}
Critical == {e \in Event : e.critical}
Kernel == {e \in Event : e.kernel}

\* The counters that the events s amount to.
Amounts(s) ==
  [critical |-> Cardinality(Which(s, Critical)), blocked |-> 0,
   kernel |-> Cardinality(Which(s, Kernel)), total |-> Len(s)]

LEMMA CountsAre ==
  ASSUME NEW s \in Seq(Event)
  PROVE  /\ HowMany(s, LAMBDA e : e.critical) = Cardinality(Which(s, Critical))
         /\ HowMany(s, LAMBDA e : e.kernel) = Cardinality(Which(s, Kernel))
<1>1. \A i \in DOMAIN s : s[i] \in Event
  BY ElementOfSeq, LenProperties
<1>2. {i \in DOMAIN s : s[i].critical} = Which(s, Critical)
  BY <1>1 DEF Which, Critical
<1>3. {i \in DOMAIN s : s[i].kernel} = Which(s, Kernel)
  BY <1>1 DEF Which, Kernel
<1> QED  BY <1>2, <1>3 DEF HowMany, Quantify

LEMMA OneMore ==
  ASSUME NEW s \in Seq(Event), NEW e \in Event, NEW E
  PROVE  /\ Cardinality(Which(s, E)) \in Nat
         /\ Cardinality(Which(Append(s, e), E))
              = Cardinality(Which(s, E)) + (IF e \in E THEN 1 ELSE 0)
<1>1. PICK n \in Nat : n = Len(s) /\ DOMAIN s = 1 .. n
  BY LenProperties
<1>2. IsFiniteSet(Which(s, E))
  <2>1. Which(s, E) \subseteq 1 .. n
    BY <1>1 DEF Which
  <2>2. IsFiniteSet(1 .. n)
    BY FS_Interval
  <2> QED  BY <2>1, <2>2, FS_Subset
<1>3. /\ DOMAIN Append(s, e) = 1 .. n + 1 /\ Append(s, e)[n + 1] = e
      /\ \A i \in 1 .. n : Append(s, e)[i] = s[i]
  BY <1>1, AppendProperties, LenProperties
<1>4. Which(Append(s, e), E) = Which(s, E) \cup (IF e \in E THEN {n + 1} ELSE {})
  <2>1. \A i : i \in 1 .. n + 1 <=> i \in 1 .. n \/ i = n + 1
    OBVIOUS
  <2>2. n + 1 \notin 1 .. n
    OBVIOUS
  <2> QED  BY <1>1, <1>3, <2>1, <2>2 DEF Which
<1>5. n + 1 \notin Which(s, E)
  BY <1>1 DEF Which
<1>6. CASE e \in E
  <2>1. Which(Append(s, e), E) = Which(s, E) \cup {n + 1}
    BY <1>4, <1>6
  <2> QED  BY <1>2, <1>5, <1>6, <2>1, FS_AddElement, FS_CardinalityType
<1>7. CASE e \notin E
  <2>1. Which(Append(s, e), E) = Which(s, E)
    BY <1>4, <1>7
  <2> QED  BY <1>2, <1>7, <2>1, FS_CardinalityType
<1> QED  BY <1>6, <1>7

LEMMA CountedIs ==
  ASSUME NEW c \in Counters, NEW e \in Event
  PROVE  Counted(c, e)
           = [critical |-> c.critical + One(e.critical), blocked |-> c.blocked,
              kernel |-> c.kernel + One(e.kernel), total |-> c.total + 1]
<1>1. PICK x \in Nat, b \in Nat, k \in Nat, t \in Nat :
        c = [critical |-> x, blocked |-> b, kernel |-> k, total |-> t]
  BY DEF Counters
<1>2. c.critical = x /\ c.blocked = b /\ c.kernel = k /\ c.total = t
  BY <1>1
<1>3. Counted(c, e) = [c EXCEPT !.total = t + 1, !.critical = x + One(e.critical),
                                !.kernel = k + One(e.kernel)]
  BY <1>2 DEF Counted
<1> QED  BY <1>1, <1>2, <1>3

\* aegis_bridge_push_event adds to the counters what its event adds to them.
LEMMA CountsGrow ==
  ASSUME NEW s \in Seq(Event), NEW e \in Event
  PROVE  Counted(Amounts(s), e) = Amounts(Append(s, e))
<1>1. /\ e.critical \in BOOLEAN /\ e.kernel \in BOOLEAN
      /\ e \in Critical <=> e.critical
      /\ e \in Kernel <=> e.kernel
  BY DEF Event, Critical, Kernel
<1>2. /\ Cardinality(Which(Append(s, e), Critical))
           = Cardinality(Which(s, Critical)) + One(e.critical)
      /\ Cardinality(Which(Append(s, e), Kernel))
           = Cardinality(Which(s, Kernel)) + One(e.kernel)
  BY <1>1, OneMore DEF One
<1>3. Len(Append(s, e)) = Len(s) + 1
  BY AppendProperties
<1>4. Counted(Amounts(s), e)
        = [critical |-> Cardinality(Which(s, Critical)) + One(e.critical), blocked |-> 0,
           kernel |-> Cardinality(Which(s, Kernel)) + One(e.kernel), total |-> Len(s) + 1]
  <2>1. Amounts(s) \in Counters
    BY OneMore DEF Amounts, Counters
  <2> QED  BY <2>1, CountedIs DEF Amounts
<1> QED  BY <1>2, <1>3, <1>4 DEF Amounts

LEMMA NothingAmounts == Amounts(<<>>) = NoAlerts
<1>1. Which(<<>>, Critical) = {} /\ Which(<<>>, Kernel) = {}
  BY DEF Which
<1>2. Cardinality({}) = 0
  BY FS_EmptySet
<1> QED  BY <1>1, <1>2 DEF Amounts, NoAlerts

\* The events that were taken since the start, those that left and those that wait.
Taken == delivered \o Contents

LEMMA AlertsAre ==
  ASSUME TypeOK
  PROVE  /\ Taken \in Seq(Event)
         /\ AlertsAreEvents <=> (initialized /\ ~overwritten => counters = Amounts(Taken))
<1>1. delivered \in Seq(Event) /\ Contents \in Seq(Event)
  BY ContentsTyped DEF TypeOK
<1>2. Taken \in Seq(Event)
  BY <1>1, ConcatProperties DEF Taken
<1> QED  BY <1>2, CountsAre DEF AlertsAreEvents, Taken, Amounts

LEMMA AlertsAny ==
  TypeOK /\ (initialized /\ ~overwritten => counters = Amounts(Taken)) => AlertsAreEvents
BY AlertsAre

LEMMA AlertsNext ==
  (TypeOK /\ (initialized /\ ~overwritten => counters = Amounts(Taken)) => AlertsAreEvents)'
BY AlertsAny, PTL

-----------------------------------------------------------------------------
(* The invariant *)

LEMMA LevelTyped == ASSUME NEW c PROVE LevelOf(c) \in 1 .. 5
BY DEF LevelOf

LEMMA CountedTyped ==
  ASSUME NEW c \in Counters, NEW e \in Event
  PROVE  Counted(c, e) \in Counters /\ Counted(c, e).total # 0
<1>1. One(e.critical) \in Nat /\ One(e.kernel) \in Nat
  BY DEF One
<1>2. c.total \in Nat /\ c.critical \in Nat /\ c.kernel \in Nat /\ c.blocked \in Nat
  BY DEF Counters
<1>3. Counted(c, e) = [critical |-> c.critical + One(e.critical), blocked |-> c.blocked,
                       kernel |-> c.kernel + One(e.kernel), total |-> c.total + 1]
  BY CountedIs
<1> QED  BY <1>1, <1>2, <1>3 DEF Counters

LEMMA TypeStep ==
  ASSUME TypeOK, [Next]_vars
  PROVE  TypeOK'
<1>1. Capacity \in Nat \ {0} /\ 0 \in Slot /\ Updates \subseteq Counters
  BY BridgeAssumption DEF Slot
<1> USE DEF TypeOK, queue, defcon, bounds, history
<1>2. \A i \in Slot : NextSlot(i) \in Slot
  BY <1>1, Positions
<1>3. CASE Start
  <2>1. NoAlerts \in Counters /\ Zeroed \in Event
    BY DEF NoAlerts, Counters, Zeroed, Event
  <2>2. [i \in Slot |-> Zeroed] \in [Slot -> Event]
    BY <2>1
  <2>3. head' \in Slot /\ tail' \in Slot /\ count' \in 0 .. Capacity
    BY <1>1, <1>3 DEF Start
  <2> QED  BY <1>1, <1>3, <2>1, <2>2, <2>3 DEF Start
<1>4. CASE Shutdown
  <2>1. <<>> \in Seq(Event)
    OBVIOUS
  <2> QED  BY <1>4, <2>1 DEF Shutdown
<1>5. CASE FillEvent
  BY <1>5 DEF FillEvent
<1>6. CASE ParsePacket
  <2>1. event' \in Event
    <3>1. PICK found \in Heuristics :
            event' = [critical |-> found.sled,
                      kernel |-> ~found.http /\ (found.sled \/ event.kernel)]
      BY <1>6 DEF ParsePacket
    <3>2. found.sled \in BOOLEAN
      <4>1. PICK s \in Spans : found \in [sled : SledFound(s.length), http : HTTPFound(s.length)]
        BY DEF Heuristics
      <4>2. found.sled \in SledFound(s.length)
        BY <4>1
      <4> QED  BY <4>2 DEF SledFound
    <3>3. (~found.http /\ (found.sled \/ event.kernel)) \in BOOLEAN
      OBVIOUS
    <3> QED  BY <3>1, <3>2, <3>3 DEF Event
  <2> QED  BY <1>6, <2>1 DEF ParsePacket
<1>7. CASE PushEvent
  <2>1. level' \in 1 .. 5 /\ counters' \in Counters
    BY <1>7, LevelTyped, CountedTyped DEF PushEvent
  <2>2. /\ buffer' \in [Slot -> Event] /\ tail' \in Slot /\ count' \in 0 .. Capacity
        /\ dropped' \in Nat
    BY <1>1, <1>2, <1>7 DEF PushEvent, Refused, Accepted
  <2> QED  BY <1>7, <2>1, <2>2 DEF PushEvent
<1>8. CASE PopEvent
  <2>1. buffer[head] \in Event
    OBVIOUS
  <2>2. delivered' \in Seq(Event)
    BY <1>8, <2>1, AppendProperties DEF PopEvent
  <2>3. head' \in Slot /\ count' \in 0 .. Capacity /\ event' \in Event
    BY <1>1, <1>2, <1>8, <2>1 DEF PopEvent
  <2> QED  BY <1>8, <2>2, <2>3 DEF PopEvent
<1>9. CASE GetDefcon
  BY <1>9, LevelTyped DEF GetDefcon
<1>10. CASE UpdateDefcon
  BY <1>1, <1>10, LevelTyped DEF UpdateDefcon
<1>11. CASE UNCHANGED vars
  BY <1>11 DEF vars
<1> QED  BY <1>3, <1>4, <1>5, <1>6, <1>7, <1>8, <1>9, <1>10, <1>11 DEF Next

LEMMA LinkedStep ==
  ASSUME TypeOK, TypeOK', Linked, [Next]_vars
  PROVE  Linked'
<1>1. CASE Start
  <2>1. Capacity \in Nat \ {0}
    BY BridgeAssumption
  <2>2. 0 % Capacity = 0
    BY <2>1
  <2> QED  BY <1>1, <2>2 DEF Start, Linked
<1>2. CASE Shutdown
  BY <1>2 DEF Shutdown, Linked, queue
<1>3. CASE PushEvent
  <2>1. CASE Refused /\ UNCHANGED defcon
    BY <1>3, <2>1 DEF PushEvent, Refused, Linked, history
  <2>2. CASE count < Capacity /\ Accepted
    BY <1>3, <2>2, PushAppends DEF PushEvent, Linked, history
  <2> QED  BY <1>3, <2>1, <2>2 DEF PushEvent
<1>4. CASE PopEvent
  BY <1>4, PopTakesFirst DEF PopEvent, Linked
<1>5. CASE FillEvent \/ ParsePacket \/ GetDefcon \/ UpdateDefcon \/ UNCHANGED vars
  BY <1>5 DEF FillEvent, ParsePacket, GetDefcon, UpdateDefcon, vars, queue, history, Linked
<1> QED  BY <1>1, <1>2, <1>3, <1>4, <1>5 DEF Next

LEMMA LabelStep ==
  ASSUME TypeOK, TypeOK', LabelAgrees, [Next]_vars
  PROVE  LabelAgrees'
<1>1. CASE Start
  BY <1>1 DEF Start, LabelAgrees, NoAlerts
<1>2. CASE Shutdown
  BY <1>2 DEF Shutdown, LabelAgrees
<1>3. CASE PushEvent \/ GetDefcon \/ UpdateDefcon
  <2>1. level' = LevelOf(counters') \/ UNCHANGED <<initialized, defcon>>
    BY <1>3 DEF PushEvent, GetDefcon, UpdateDefcon
  <2> QED  BY <2>1, <1>3 DEF LabelAgrees, defcon, PushEvent, GetDefcon, UpdateDefcon
<1>4. CASE FillEvent \/ ParsePacket \/ PopEvent \/ UNCHANGED vars
  BY <1>4 DEF FillEvent, ParsePacket, PopEvent, vars, defcon, LabelAgrees
<1> QED  BY <1>1, <1>2, <1>3, <1>4 DEF Next

\* The queue took an event and the counters took it too; one that leaves the
\* queue is still one that was taken.
LEMMA TakenGrows ==
  ASSUME TypeOK, TypeOK', Linked, count < Capacity, Accepted, UNCHANGED <<head, delivered>>
  PROVE  Taken' = Append(Taken, event)
<1>1. Contents' = Append(Contents, event) /\ delivered' = delivered
  BY PushAppends
<1>2. delivered \in Seq(Event) /\ Contents \in Seq(Event) /\ event \in Event
  BY ContentsTyped DEF TypeOK
<1>3. delivered \o Append(Contents, event) = Append(delivered \o Contents, event)
  BY <1>2
<1> QED  BY <1>1, <1>3 DEF Taken

LEMMA TakenStays ==
  ASSUME TypeOK, TypeOK', Linked, PopEvent
  PROVE  Taken' = Taken
<1>1. /\ Contents' = SubSeq(Contents, 2, Len(Contents)) /\ 1 <= Len(Contents)
      /\ delivered' = Append(delivered, Contents[1])
  BY PopTakesFirst
<1>2. delivered \in Seq(Event) /\ Contents \in Seq(Event)
  BY ContentsTyped DEF TypeOK
<1>3. ASSUME NEW d \in Seq(Event), NEW c \in Seq(Event), 1 <= Len(c)
      PROVE  Append(d, c[1]) \o SubSeq(c, 2, Len(c)) = d \o c
  <2> DEFINE r == SubSeq(c, 2, Len(c))
             a == Append(d, c[1])
  <2>1. PICK m \in Nat, n \in Nat : m = Len(d) /\ n = Len(c) /\ n >= 1
    BY <1>3
  <2>2. c[1] \in Event
    BY <1>3, ElementOfSeq
  <2>3. r = [i \in 1 .. n - 1 |-> c[i + 1]]
    BY <1>3, <2>1
  <2> HIDE DEF r
  <2>4. \A i \in 1 .. n - 1 : r[i] = c[i + 1] /\ r[i] \in Event
    BY <2>1, <2>3, ElementOfSeq
  <2>5. r \in Seq(Event) /\ Len(r) = n - 1
    <3>1. n - 1 \in Nat
      BY <2>1
    <3>2. r \in [1 .. n - 1 -> Event]
      BY <2>3, <2>4
    <3> QED  BY <3>1, <3>2
  <2>6. /\ a \in Seq(Event) /\ Len(a) = m + 1 /\ a[m + 1] = c[1]
        /\ \A i \in 1 .. m : a[i] = d[i]
    BY <2>1, <2>2, AppendProperties
  <2> HIDE DEF a
  <2>7. /\ a \o r \in Seq(Event) /\ Len(a \o r) = m + n
        /\ d \o c \in Seq(Event) /\ Len(d \o c) = m + n
    <3>1. (m + 1) + (n - 1) = m + n
      OBVIOUS
    <3>2. d \o c \in Seq(Event) /\ Len(d \o c) = m + n
      BY <2>1, ConcatProperties
    <3>3. a \o r \in Seq(Event) /\ Len(a \o r) = Len(a) + Len(r)
      BY <2>5, <2>6, ConcatProperties
    <3> QED  BY <2>5, <2>6, <3>1, <3>2, <3>3
  <2>8. ASSUME NEW i \in 1 .. m + n
        PROVE  (a \o r)[i] = (d \o c)[i]
    <3>1. (a \o r)[i] = IF i <= m + 1 THEN a[i] ELSE r[i - (m + 1)]
      <4>1. i \in 1 .. (m + 1) + (n - 1)
        OBVIOUS
      <4> QED  BY <2>5, <2>6, <4>1, ConcatProperties
    <3>2. (d \o c)[i] = IF i <= m THEN d[i] ELSE c[i - m]
      BY <2>1, ConcatProperties
    <3>3. CASE i <= m
      <4>1. i \in 1 .. m /\ i <= m + 1
        BY <3>3
      <4> QED  BY <2>6, <3>1, <3>2, <3>3, <4>1
    <3>4. CASE i = m + 1
      <4>1. i <= m + 1 /\ ~(i <= m) /\ i - m = 1
        BY <3>4
      <4> QED  BY <2>6, <3>1, <3>2, <3>4, <4>1
    <3>5. CASE i > m + 1
      <4>1. ~(i <= m + 1) /\ ~(i <= m) /\ i - (m + 1) \in 1 .. n - 1
            /\ (i - (m + 1)) + 1 = i - m
        BY <3>5
      <4> QED  BY <2>4, <3>1, <3>2, <4>1
    <3>6. i <= m \/ i = m + 1 \/ i > m + 1
      OBVIOUS
    <3> QED  BY <3>3, <3>4, <3>5, <3>6
  <2>9. a \o r = d \o c
    BY <2>7, <2>8, SeqEqual
  <2> QED  BY <2>9 DEF a, r
<1> QED  BY <1>1, <1>2, <1>3 DEF Taken

LEMMA AlertsStep ==
  ASSUME IInv, TypeOK', [Next]_vars
  PROVE  AlertsAreEvents'
<1>1. TypeOK /\ Linked
  BY DEF IInv
<1>2. initialized /\ ~overwritten => counters = Amounts(Taken)
  BY <1>1, AlertsAre DEF IInv
<1>3. Taken \in Seq(Event) /\ event \in Event
  BY <1>1, AlertsAre DEF TypeOK
<1>4. (initialized /\ ~overwritten => counters = Amounts(Taken))'
  <2>1. CASE Start
    <3>1. count' = 0 /\ delivered' = <<>> /\ counters' = NoAlerts
      BY <1>1, <2>1 DEF Start, Linked
    <3>2. Taken' = <<>>
      BY <3>1 DEF Taken, Contents
    <3> QED  BY <3>1, <3>2, NothingAmounts
  <2>2. CASE Shutdown
    BY <2>2 DEF Shutdown
  <2>3. CASE PushEvent
    <3>1. CASE Refused /\ UNCHANGED defcon
      <4>1. UNCHANGED <<buffer, head, count, delivered, counters, initialized, overwritten>>
        BY <2>3, <3>1 DEF PushEvent, Refused, defcon, history
      <4>2. Taken' = Taken
        BY <4>1 DEF Taken, Contents
      <4> QED  BY <1>2, <4>1, <4>2
    <3>2. CASE count < Capacity /\ Accepted /\ counters' = Counted(counters, event)
      <4>1. UNCHANGED <<head, delivered, initialized, overwritten>>
        BY <2>3 DEF PushEvent, history
      <4>2. Taken' = Append(Taken, event)
        BY <1>1, <3>2, <4>1, TakenGrows
      <4> QED  BY <1>2, <1>3, <3>2, <4>1, <4>2, CountsGrow
    <3> QED  BY <2>3, <3>1, <3>2 DEF PushEvent
  <2>4. CASE PopEvent
    <3>1. Taken' = Taken
      BY <1>1, <2>4, TakenStays
    <3>2. UNCHANGED <<counters, initialized, overwritten>>
      BY <2>4 DEF PopEvent, defcon
    <3> QED  BY <1>2, <3>1, <3>2
  <2>5. CASE FillEvent \/ ParsePacket \/ GetDefcon \/ UNCHANGED vars
    <3>1. UNCHANGED <<buffer, head, count, delivered, counters, initialized, overwritten>>
      BY <2>5 DEF FillEvent, ParsePacket, GetDefcon, vars, queue, defcon, history
    <3>2. Taken' = Taken
      BY <3>1 DEF Taken, Contents
    <3> QED  BY <1>2, <3>1, <3>2
  <2>6. CASE UpdateDefcon
    BY <2>6 DEF UpdateDefcon
  <2> QED  BY <2>1, <2>2, <2>3, <2>4, <2>5, <2>6 DEF Next
<1> QED  BY <1>4, AlertsNext

LEMMA InitIInv == Init => IInv
<1> SUFFICES ASSUME Init PROVE IInv
  OBVIOUS
<1>1. Capacity \in Nat \ {0} /\ 0 % Capacity = 0 /\ 0 \in Slot
  BY BridgeAssumption DEF Slot
<1>2. TypeOK
  <2>1. Zeroed \in Event /\ NoAlerts \in Counters /\ <<>> \in Seq(Event)
    BY DEF Zeroed, Event, NoAlerts, Counters
  <2>2. [i \in Slot |-> Zeroed] \in [Slot -> Event]
    BY <2>1
  <2>3. count \in 0 .. Capacity
    BY <1>1 DEF Init
  <2> QED  BY <1>1, <2>1, <2>2, <2>3 DEF Init, TypeOK
<1> QED  BY <1>1, <1>2 DEF Init, IInv, Linked, AlertsAreEvents, LabelAgrees

LEMMA NextIInv == IInv /\ [Next]_vars => IInv'
<1> SUFFICES ASSUME IInv, [Next]_vars PROVE IInv'
  OBVIOUS
<1>1. TypeOK'
  BY TypeStep DEF IInv
<1>2. Linked'
  BY <1>1, LinkedStep DEF IInv
<1>3. LabelAgrees'
  BY <1>1, LabelStep DEF IInv
<1>4. AlertsAreEvents'
  BY <1>1, AlertsStep
<1> QED  BY <1>1, <1>2, <1>3, <1>4 DEF IInv

(* Between any two calls, whatever was called before: the queue's positions  *)
(* agree with its count, and the counters with all that the queue took.      *)
THEOREM Invariance == Spec => []IInv
BY InitIInv, NextIInv, PTL DEF Spec

(* Whatever the capacity, the packets and the updates, the counters behind   *)
(* the level of alert are those of the events the queue took since the start *)
(* (until a client overwrites them), and the label is what they amount to.   *)
THEOREM CountersAreTrue == Spec => []CountersAgree
<1>1. IInv => CountersAgree
  BY DEF IInv, CountersAgree
<1> QED  BY <1>1, Invariance, PTL

-----------------------------------------------------------------------------
(* The refinement *)

LEMMA InitRefines == Init => Fifo!Init
BY DEF Init, Fifo!Init

LEMMA PushRefines ==
  ASSUME IInv, TypeOK', PushEvent
  PROVE  [Fifo!Next]_(Fifo!vars)
<1>1. TypeOK /\ Linked /\ initialized /\ initialized' /\ UNCHANGED <<head, delivered>>
  BY DEF IInv, PushEvent, history
<1>2. Contents \in Seq(Event) /\ Len(Contents) = count /\ count \in 0 .. Capacity
      /\ Capacity \in Nat /\ event \in Event
  BY <1>1, ContentsTyped, BridgeAssumption DEF TypeOK
<1>3. CASE count >= Capacity /\ Refused
  <2>1. Contents' = Contents /\ dropped' = dropped + 1
    BY <1>1, <1>3 DEF Refused, Contents
  <2>2. Len(Contents) = Capacity
    BY <1>2, <1>3
  <2>3. Fifo!Drop
    BY <1>1, <2>1, <2>2 DEF Fifo!Drop
  <2> QED  BY <2>3 DEF Fifo!Next
<1>4. CASE count < Capacity /\ Accepted
  <2>1. Contents' = Append(Contents, event) /\ dropped' = dropped
    BY <1>1, <1>4, PushAppends DEF Accepted
  <2>2. Fifo!Put(event)
    BY <1>1, <1>2, <1>4, <2>1 DEF Fifo!Put
  <2> QED  BY <1>2, <2>2 DEF Fifo!Next
<1> QED  BY <1>3, <1>4 DEF PushEvent

LEMMA PopRefines ==
  ASSUME IInv, TypeOK', PopEvent
  PROVE  [Fifo!Next]_(Fifo!vars)
<1>1. TypeOK /\ Linked /\ initialized /\ initialized' /\ dropped' = dropped
  BY DEF IInv, PopEvent
<1>2. /\ Contents' = SubSeq(Contents, 1 + 1, Len(Contents)) /\ 1 <= Len(Contents)
      /\ delivered' = Append(delivered, Contents[1])
  BY <1>1, PopTakesFirst
<1>3. /\ delivered \in Seq(Event) /\ Contents \in Seq(Event)
      /\ Len(Contents) = count /\ count \in 0 .. Capacity /\ Capacity \in Nat
  BY <1>1, ContentsTyped, BridgeAssumption DEF TypeOK
<1>4. ASSUME NEW d \in Seq(Event), NEW c \in Seq(Event), 1 <= Len(c)
      PROVE  Append(d, c[1]) = d \o SubSeq(c, 1, 1)
  BY <1>4
<1>5. delivered' = delivered \o SubSeq(Contents, 1, 1)
  BY <1>2, <1>3, <1>4
<1>6. Fifo!Take(1)
  BY <1>1, <1>2, <1>5 DEF Fifo!Take
<1>7. 1 \in 1 .. Capacity
  BY <1>2, <1>3
<1> QED  BY <1>6, <1>7 DEF Fifo!Next

LEMMA StepRefines == IInv /\ TypeOK' /\ [Next]_vars => [Fifo!Next]_(Fifo!vars)
<1> SUFFICES ASSUME IInv, TypeOK', [Next]_vars PROVE [Fifo!Next]_(Fifo!vars)
  OBVIOUS
<1>1. CASE Start
  <2>1. ~initialized /\ initialized' /\ count' = 0 /\ dropped' = 0 /\ delivered' = <<>>
    BY <1>1 DEF Start, IInv, Linked
  <2>2. Contents' = <<>>
    BY <2>1 DEF Contents
  <2>3. Fifo!Discard
    BY <2>1, <2>2 DEF Fifo!Discard
  <2> QED  BY <2>3 DEF Fifo!Next
<1>2. CASE Shutdown
  <2>1. Fifo!Discard
    BY <1>2 DEF Shutdown, Fifo!Discard
  <2> QED  BY <2>1 DEF Fifo!Next
<1>3. CASE FillEvent \/ ParsePacket \/ GetDefcon \/ UpdateDefcon \/ UNCHANGED vars
  <2>1. UNCHANGED <<initialized, buffer, head, count, dropped, delivered>>
    BY <1>3 DEF FillEvent, ParsePacket, GetDefcon, UpdateDefcon, vars, queue, history
  <2>2. Contents' = Contents
    BY <2>1 DEF Contents
  <2> QED  BY <2>1, <2>2 DEF Fifo!vars
<1> QED  BY <1>1, <1>2, <1>3, PushRefines, PopRefines DEF Next

(* The bridge's queue behaves as the queue of records: an event that was     *)
(* taken is delivered once and in order, and one is dropped, and counted,    *)
(* only while the queue is full.                                             *)
THEOREM Refinement == Spec => RefinesRecordFifo
<1>1. IInv => TypeOK
  BY DEF IInv
<1> QED  BY <1>1, InitRefines, StepRefines, Invariance, PTL DEF Spec, RefinesRecordFifo, Fifo!Spec

-----------------------------------------------------------------------------
(* The packet parser *)

\* A length that is within the buffer does not wrap.
LEMMA NoWrap == ASSUME NEW n \in 0 .. SizeValues - 1 PROVE SizeT(n) = n
<1>1. SizeValues \in Nat \ {0}
  BY BridgeAssumption
<1> QED  BY <1>1 DEF SizeT

LEMMA SpanLiesInside == ASSUME NEW s \in Spans PROVE Inside(s)
<1>1. PICK p \in Packets :
        /\ Parsed(p)
        /\ s = [len |-> p.len, transport |-> Transport(p), payload |-> Payload(p),
                length |-> PayloadLength(p)]
  BY DEF Spans
<1>2. PICK n \in 0 .. SizeValues - 1, i \in 0 .. 15, d \in 0 .. 15 :
        n = p.len /\ i = p.ihl /\ d = p.dataOffset
  BY BridgeAssumption DEF AnyPacket
<1>3. SizeValues \in Nat
  BY BridgeAssumption
<1>4. i >= 5 /\ n >= i * 4 /\ Transport(p) = i * 4
  BY <1>1, <1>2 DEF Parsed, IPv4OK, Transport
<1>5. TransportLen(p) = n - i * 4
  <2>1. n - i * 4 \in 0 .. SizeValues - 1
    BY <1>3, <1>4
  <2> QED  BY <1>2, <1>4, <2>1, NoWrap DEF TransportLen
<1>6. PICK h \in Nat : h = TransportHeader(p) /\ h >= 8 /\ h <= n - i * 4
  <2>1. CASE p.protocol = "tcp"
    BY <1>1, <1>2, <1>5, <2>1 DEF Parsed, TCPOK, TransportHeader
  <2>2. CASE p.protocol # "tcp"
    BY <1>1, <1>5, <2>2 DEF Parsed, TransportHeader, ShortHeader
  <2> QED  BY <2>1, <2>2
<1>7. PayloadLength(p) = n - i * 4 - h
  <2>1. n - i * 4 - h \in 0 .. SizeValues - 1
    BY <1>3, <1>4, <1>6
  <2> QED  BY <1>5, <1>6, <2>1, NoWrap DEF PayloadLength
<1>8. s.len = n /\ s.transport = i * 4 /\ s.payload = i * 4 + h /\ s.length = n - i * 4 - h
  BY <1>1, <1>2, <1>4, <1>6, <1>7 DEF Payload
<1> QED  BY <1>3, <1>4, <1>6, <1>8 DEF Inside, IPv4Header, ShortHeader

(* Whatever lengths the headers of a packet claim, what the parser hands on  *)
(* of a packet it accepts lies inside the buffer, and no length has wrapped. *)
THEOREM SpansStay == Spec => SpansInsideBuffer
<1>1. ParsePacket => \A s \in Spans : Inside(s)
  BY SpanLiesInside
<1>2. [Next]_vars => [ParsePacket => \A s \in Spans : Inside(s)]_vars
  BY <1>1
<1> QED  BY <1>2, PTL DEF Spec, SpansInsideBuffer
=============================================================================

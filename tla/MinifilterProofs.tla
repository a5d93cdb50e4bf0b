-------------------------- MODULE MinifilterProofs --------------------------
(***************************************************************************)
(* Proofs about Minifilter: for any threads, any sizes of the ring and of  *)
(* a record, and any number of loads, the driver's ring and hooks live as  *)
(* long as their users, and the ring of bytes is a queue of whole records. *)
(***************************************************************************)
EXTENDS Minifilter, SequenceTheorems, TLAPS

-----------------------------------------------------------------------------
(* What each place of DriverEntry and of the unload owns *)

Owns ==
  /\ allocated <=> driver # "unloaded"
  /\ registered => driver \notin {"unloaded", "register", "destroyRing"}
  /\ filtering => driver \notin {"unloaded", "register", "notify", "start", "destroyRing"}
  /\ notifying => driver \notin {"unloaded", "register", "notify", "unregister",
                                 "destroyRing"}
  /\ serverPort => driver \in {"loaded", "closeClient", "closeServer"}
  /\ clientPort => driver \in {"loaded", "closeClient", "closeServer", "removeNotify",
                               "unregister"}

(* Windows has drained the callbacks whose hook is gone. *)
Out ==
  /\ driver \in {"unloaded", "register", "destroyRing"} => Drained(ProcessCallbacks)
  /\ driver = "unloaded" => Drained(Threads)

(* The ring holds the records s from the tail on, whole and in order, and the
   total says so. *)
Live(cells, t, s) ==
  \A i \in 1 .. Len(s) : \A k \in 0 .. RecordSize - 1 :
    cells[(t + ((i - 1) * RecordSize + k)) % Size] = <<s[i], k>>

Holds(s) ==
  /\ s \in Seq(Nat)
  /\ Used = Len(s) * RecordSize
  /\ total = Len(delivered) + Len(s)
  /\ Live(data, tail, s)

Whole == \E s : Holds(s)

IInv == TypeOK /\ Owns /\ Out /\ Whole

-----------------------------------------------------------------------------
(* Lemmas: positions of the ring *)

LEMMA Sizes ==
  /\ Size \in Nat /\ Size > 0 /\ Cell = 0 .. Size - 1
  /\ RecordSize \in Nat /\ RecordSize > 0 /\ RecordSize < Size
BY MinifilterAssumption DEF Cell

(* One lap at most is taken off a position. *)
LEMMA OneLap ==
  ASSUME NEW n \in 0 .. 2 * Size - 1
  PROVE  /\ n % Size \in Cell
         /\ n < Size => n % Size = n
         /\ n >= Size => n % Size = n - Size
<1>1. Size \in Nat /\ Size > 0 /\ Cell = 0 .. Size - 1
  BY Sizes
<1> DEFINE p == n \div Size
           m == n % Size
<1>2. p \in Int /\ m \in 0 .. Size - 1 /\ n = Size * p + m
  BY <1>1
<1> HIDE DEF p, m
<1>3. CASE p <= -1
  BY <1>1, <1>2, <1>3
<1>4. CASE p = 0
  <2>1. n = m
    BY <1>1, <1>2, <1>4
  <2>2. QED
    BY <2>1, <1>1, <1>2 DEF m
<1>5. CASE p = 1
  <2>1. n = Size + m
    BY <1>1, <1>2, <1>5
  <2>2. QED
    BY <2>1, <1>1, <1>2 DEF m
<1>6. CASE p >= 2
  BY <1>1, <1>2, <1>6
<1>7. QED
  BY <1>2, <1>3, <1>4, <1>5, <1>6

(* The bytes used, as a distance from the tail. *)
Distance(h, t) == IF h >= t THEN h - t ELSE Size - t + h

LEMMA DistanceOf ==
  ASSUME NEW h \in Cell, NEW t \in Cell
  PROVE  /\ Distance(h, t) \in Cell
         /\ h = (t + Distance(h, t)) % Size
         /\ \A u \in Cell : (t + u) % Size = h => u = Distance(h, t)
<1> DEFINE D == Distance(h, t)
<1>1. h \in 0 .. Size - 1 /\ t \in 0 .. Size - 1 /\ Size \in Nat /\ Cell = 0 .. Size - 1
  BY Sizes
<1>2. /\ D \in 0 .. Size - 1
      /\ h >= t => D = h - t
      /\ h < t => D = Size - t + h
  BY <1>1 DEF Distance
<1> HIDE DEF D
<1>3. ASSUME NEW u \in 0 .. Size - 1
      PROVE  /\ t + u < Size => (t + u) % Size = t + u
             /\ t + u >= Size => (t + u) % Size = (t + u) - Size
  <2>1. t + u \in 0 .. 2 * Size - 1
    BY <1>1
  <2>2. QED
    BY <2>1, OneLap
<1>4. h = (t + D) % Size
  BY <1>1, <1>2, <1>3
<1>5. ASSUME NEW u \in Cell, (t + u) % Size = h PROVE u = D
  <2>1. u \in 0 .. Size - 1
    BY <1>1
  <2>2. QED
    BY <2>1, <1>1, <1>2, <1>3, <1>5
<1>6. QED
  BY <1>1, <1>2, <1>4, <1>5 DEF D

LEMMA UsedIsDistance ==
  ASSUME TypeOK
  PROVE  /\ Used \in Cell
         /\ Used = Distance(head, tail)
         /\ head = (tail + Used) % Size
<1>1. Used = Distance(head, tail)
  BY DEF Used, Distance
<1>2. head \in Cell /\ tail \in Cell
  BY DEF TypeOK
<1>3. QED
  BY <1>1, <1>2, DistanceOf

(* Distances add up, around the end of the buffer. *)
LEMMA Distances ==
  ASSUME NEW t \in Cell, NEW a \in Cell, NEW b \in Nat, a + b < Size
  PROVE  (((t + a) % Size) + b) % Size = (t + (a + b)) % Size
<1>1. t \in 0 .. Size - 1 /\ a \in 0 .. Size - 1 /\ Size \in Nat
  BY Sizes
<1>2. t + a \in 0 .. 2 * Size - 1 /\ t + (a + b) \in 0 .. 2 * Size - 1
  BY <1>1
<1> DEFINE x == (t + a) % Size
           y == (t + (a + b)) % Size
<1>3. /\ x \in 0 .. Size - 1
      /\ t + a < Size => x = t + a
      /\ t + a >= Size => x = (t + a) - Size
  BY <1>2, OneLap, Sizes
<1>4. /\ y \in 0 .. Size - 1
      /\ t + (a + b) < Size => y = t + (a + b)
      /\ t + (a + b) >= Size => y = (t + (a + b)) - Size
  BY <1>2, OneLap, Sizes
<1> HIDE DEF x, y
<1>5. x + b \in 0 .. 2 * Size - 1
  BY <1>1, <1>3
<1>6. /\ x + b < Size => (x + b) % Size = x + b
      /\ x + b >= Size => (x + b) % Size = (x + b) - Size
  BY <1>5, OneLap
<1>7. (x + b) % Size = y
  BY <1>1, <1>3, <1>4, <1>5, <1>6
<1>8. QED
  BY <1>7 DEF x, y

(* A record written at the head lies behind the bytes used, and nothing else
   that counts is changed. *)
LEMMA WrittenAt ==
  ASSUME TypeOK, Fits, NEW r, NEW d \in Cell
  PROVE  Written(r)[(tail + d) % Size]
           = IF Used <= d /\ d < Used + RecordSize THEN <<r, d - Used>>
             ELSE data[(tail + d) % Size]
<1>1. head \in 0 .. Size - 1 /\ tail \in 0 .. Size - 1 /\ d \in 0 .. Size - 1
  BY Sizes DEF TypeOK
<1>2. Size \in Nat /\ RecordSize \in Nat /\ RecordSize > 0 /\ RecordSize < Size
  BY Sizes
<1>3. Used \in 0 .. Size - 1 /\ (Used = head - tail \/ Used = Size - tail + head)
  BY <1>1, <1>2 DEF Used
<1>4. Size - Used - 1 >= RecordSize
  BY DEF Fits, FreeSpace
<1> DEFINE i == (tail + d) % Size
           o == (i + Size - head) % Size
<1>5. /\ i \in 0 .. Size - 1 /\ i \in Cell
      /\ tail + d < Size => i = tail + d
      /\ tail + d >= Size => i = (tail + d) - Size
  <2>1. tail + d \in 0 .. 2 * Size - 1
    BY <1>1, <1>2
  <2>2. QED
    BY <2>1, OneLap, Sizes
<1>6. Written(r)[i] = IF o < RecordSize THEN <<r, o>> ELSE data[i]
  BY <1>5 DEF Written
<1> HIDE DEF i
<1>7. /\ o \in 0 .. Size - 1
      /\ i + Size - head < Size => o = i + Size - head
      /\ i + Size - head >= Size => o = (i + Size - head) - Size
  <2>1. i + Size - head \in 0 .. 2 * Size - 1
    BY <1>1, <1>2, <1>5
  <2>2. QED
    BY <2>1, OneLap, Sizes
<1> HIDE DEF o
<1>8. CASE d >= Used
  <2>1. o = d - Used
    BY <1>1, <1>2, <1>3, <1>5, <1>7, <1>8 DEF Used
  <2>2. QED
    BY <2>1, <1>1, <1>2, <1>3, <1>6, <1>8 DEF i
<1>9. CASE d < Used
  <2>1. o >= RecordSize
    BY <1>1, <1>2, <1>3, <1>4, <1>5, <1>7, <1>9 DEF Used
  <2>2. QED
    BY <2>1, <1>1, <1>2, <1>3, <1>6, <1>7, <1>9 DEF i
<1>10. QED
  BY <1>1, <1>3, <1>8, <1>9

-----------------------------------------------------------------------------
(* Lemmas: whole records *)

LEMMA Product ==
  ASSUME NEW a \in Nat, NEW b \in Nat
  PROVE  a * b \in Nat
OBVIOUS

LEMMA ProductOrder ==
  ASSUME NEW a \in Nat, NEW b \in Nat
  PROVE  /\ a < b => a * RecordSize + RecordSize <= b * RecordSize
         /\ a * RecordSize <= b * RecordSize => a <= b
<1>1. RecordSize \in Nat /\ RecordSize > 0
  BY Sizes
<1>2. ASSUME NEW x \in Nat, NEW y \in Nat, x < y
      PROVE  x * RecordSize + RecordSize <= y * RecordSize
  <2>1. y = x + 1 + (y - x - 1) /\ y - x - 1 \in Nat
    BY <1>2
  <2> DEFINE c == y - x - 1
  <2>2. y * RecordSize = x * RecordSize + RecordSize + c * RecordSize
    <3>1. y = x + 1 + c /\ c \in Nat
      BY <2>1
    <3> HIDE DEF c
    <3>2. QED
      BY <3>1, <1>1
  <2>3. c * RecordSize \in Nat
    BY <2>1, <1>1, Product
  <2>4. x * RecordSize \in Nat
    BY <1>1, Product
  <2> HIDE DEF c
  <2>5. QED
    BY <2>2, <2>3, <2>4, <1>1
<1>3. a < b => a * RecordSize + RecordSize <= b * RecordSize
  BY <1>2
<1>4. ASSUME a * RecordSize <= b * RecordSize PROVE a <= b
  <2>1. a * RecordSize \in Nat /\ b * RecordSize \in Nat
    BY <1>1, Product
  <2>2. b < a => b * RecordSize + RecordSize <= a * RecordSize
    BY <1>2
  <2>3. QED
    BY <1>1, <1>4, <2>1, <2>2
<1>5. QED
  BY <1>3, <1>4

(* As many whole records as fit into a number of bytes. *)
LEMMA Quotient ==
  ASSUME NEW n \in Nat
  PROVE  /\ n \div RecordSize \in Nat
         /\ (n \div RecordSize) * RecordSize <= n
         /\ n < (n \div RecordSize) * RecordSize + RecordSize
         /\ \A q \in Nat : n = q * RecordSize => n \div RecordSize = q /\ n % RecordSize = 0
<1>1. RecordSize \in Nat /\ RecordSize > 0
  BY Sizes
<1> DEFINE d == n \div RecordSize
           m == n % RecordSize
<1>2. d \in Int /\ m \in 0 .. RecordSize - 1 /\ n = RecordSize * d + m
  BY <1>1
<1> HIDE DEF d, m
<1>3. d \in Nat
  <2>1. CASE d <= -1
    <3>1. RecordSize * d <= -RecordSize
      BY <2>1, <1>1, <1>2
    <3>2. QED
      BY <3>1, <1>1, <1>2
  <2>2. QED
    BY <2>1, <1>2
<1>4. RecordSize * d = d * RecordSize /\ d * RecordSize \in Nat
  BY <1>1, <1>3, Product
<1>5. d * RecordSize <= n /\ n < d * RecordSize + RecordSize
  BY <1>1, <1>2, <1>4
<1>6. ASSUME NEW q \in Nat, n = q * RecordSize PROVE d = q /\ m = 0
  <2>1. q * RecordSize \in Nat
    BY <1>1, Product
  <2>2. d <= q
    BY <1>3, <1>5, <1>6, ProductOrder
  <2>3. ~(d < q)
    <3>1. d < q => d * RecordSize + RecordSize <= q * RecordSize
      BY <1>3, ProductOrder
    <3>2. QED
      BY <3>1, <2>1, <1>1, <1>2, <1>4, <1>6
  <2>4. d = q
    BY <2>2, <2>3, <1>3
  <2>5. QED
    BY <2>4, <2>1, <1>1, <1>2, <1>4, <1>6
<1>7. QED
  BY <1>3, <1>5, <1>6 DEF d, m

(* A read takes no more records than there are. *)
LEMMA ReadableRecords ==
  ASSUME TypeOK, NEW size \in 1 .. 2 * RecordSize
  PROVE  /\ Readable(size) \in Nat
         /\ Readable(size) * RecordSize <= Used
<1>1. Used \in Nat /\ size \in Nat
  BY UsedIsDistance, Sizes
<1>2. CASE Used < size
  BY <1>1, <1>2, Quotient DEF Readable
<1>3. CASE ~(Used < size)
  <2>1. Readable(size) = size \div RecordSize
    BY <1>3 DEF Readable
  <2>2. size \div RecordSize \in Nat /\ (size \div RecordSize) * RecordSize <= size
    BY <1>1, Quotient
  <2> DEFINE x == (size \div RecordSize) * RecordSize
  <2>3. x \in Nat /\ x <= size
    BY <2>2, Sizes, Product
  <2> HIDE DEF x
  <2>4. x <= Used
    BY <2>3, <1>1, <1>3
  <2>5. QED
    BY <2>1, <2>2, <2>4 DEF x
<1>4. QED
  BY <1>2, <1>3

(* What is read is a sequence of numbers, one for each record. *)
LEMMA FunctionIsSeq ==
  ASSUME NEW S, NEW n \in Nat, NEW f \in [1 .. n -> S]
  PROVE  f \in Seq(S) /\ Len(f) = n
<1>1. f \in Seq(S)
  OBVIOUS
<1>2. DOMAIN f = 1 .. n /\ DOMAIN f = 1 .. Len(f) /\ Len(f) \in Nat
  BY <1>1, LenProperties
<1>3. QED
  BY <1>1, <1>2

LEMMA RecordsAreNumbers ==
  ASSUME TypeOK, NEW t \in Nat, NEW n \in Nat
  PROVE  /\ RecordsFrom(t, n) \in Seq(Nat)
         /\ Len(RecordsFrom(t, n)) = n
<1>1. ASSUME NEW p \in Nat PROVE RecordAt(p) \in Nat
  <2>1. data[(p + 0) % Size] \in Nat \X Nat
    <3>1. (p + 0) % Size \in Cell
      BY Sizes
    <3>2. QED
      BY <3>1 DEF TypeOK
  <2>2. data[(p + 0) % Size][1] \in Nat
    BY <2>1
  <2>3. QED
    BY <2>2 DEF RecordAt
<1>2. \A i \in 1 .. n : t + (i - 1) * RecordSize \in Nat
  <2> SUFFICES ASSUME NEW i \in 1 .. n PROVE t + (i - 1) * RecordSize \in Nat
    OBVIOUS
  <2>1. (i - 1) * RecordSize \in Nat
    BY Sizes, Product
  <2>2. QED
    BY <2>1
<1>3. RecordsFrom(t, n) \in [1 .. n -> Nat]
  BY <1>1, <1>2 DEF RecordsFrom
<1>4. QED
  BY <1>3, FunctionIsSeq

-----------------------------------------------------------------------------
(* Type correctness *)

LEMMA EmptyCells ==
  /\ [i \in Cell |-> <<0, 0>>] \in [Cell -> Nat \X Nat]
  /\ 0 \in Cell
BY Sizes

LEMMA EmptyRingHolds ==
  ASSUME Used = 0, total = 0, Len(delivered) = 0
  PROVE  Holds(<<>>)
<1>1. <<>> \in Seq(Nat) /\ Len(<<>>) = 0 /\ 0 * RecordSize = 0
  BY Sizes
<1>2. Live(data, tail, <<>>)
  BY <1>1 DEF Live
<1>3. QED
  BY <1>1, <1>2 DEF Holds

LEMMA InitIInv == Init => IInv
<1> SUFFICES ASSUME Init PROVE IInv
  OBVIOUS
<1>1. TypeOK
  <2>1. data \in [Cell -> Nat \X Nat] /\ 0 \in Cell /\ delivered \in Seq(Nat)
    BY Sizes, EmptyCells DEF Init
  <2>2. QED
    BY <2>1 DEF Init, TypeOK
<1>2. Owns
  BY DEF Init, Owns
<1>3. Out
  BY DEF Init, Out, Drained, Threads, Callbacks
<1>4. Whole
  <2>1. Used = 0 /\ total = 0 /\ Len(delivered) = 0
    BY DEF Init, Used
  <2>2. Holds(<<>>)
    BY <2>1, EmptyRingHolds
  <2>3. QED
    BY <2>2 DEF Whole
<1>5. QED
  BY <1>1, <1>2, <1>3, <1>4 DEF IInv

LEMMA WriteType ==
  ASSUME TypeOK, NEW t \in Threads, WriteEvent(t)
  PROVE  TypeOK'
<1> USE DEF fields, ring, ports, hooks, history
<1>1. made' \in Nat /\ driver' = driver /\ pc' \in [Threads -> {"out", "in"}]
  BY DEF TypeOK, WriteEvent
<1>2. CASE Fits
  <2>1. data' \in [Cell -> Nat \X Nat]
    <3>1. \A i \in Cell : (i + Size - head) % Size \in Nat
      BY Sizes DEF TypeOK
    <3>2. QED
      BY <3>1, <1>2 DEF TypeOK, WriteEvent, Written
  <2>2. head' \in Cell
    BY Sizes, <1>2 DEF TypeOK, WriteEvent, Advance
  <2>3. total' \in Nat /\ dropped' \in Nat
    BY <1>2 DEF TypeOK, WriteEvent
  <2>4. tail' \in Cell /\ delivered' \in Seq(Nat) /\ loads' \in Nat
    BY DEF TypeOK, WriteEvent
  <2>5. {allocated', registered', filtering', notifying', serverPort', clientPort'} \subseteq BOOLEAN
    BY DEF TypeOK, WriteEvent
  <2>6. QED
    BY <1>1, <2>1, <2>2, <2>3, <2>4, <2>5 DEF TypeOK
<1>3. CASE ~Fits
  BY <1>1, <1>3 DEF TypeOK, WriteEvent
<1>4. QED
  BY <1>2, <1>3

LEMMA ReadType ==
  ASSUME TypeOK, NEW t \in Threads, ReadEvents(t)
  PROVE  TypeOK'
<1> USE DEF fields, ring, ports, hooks, history
<1>1. PICK size \in 1 .. 2 * RecordSize :
        /\ tail' = Advance(tail, Readable(size) * RecordSize)
        /\ delivered' = delivered \o RecordsFrom(tail, Readable(size))
  BY DEF ReadEvents
<1>2. Readable(size) \in Nat /\ tail \in Nat /\ RecordSize \in Nat
  <2>1. Readable(size) \in Nat
    BY ReadableRecords
  <2>2. QED
    BY <2>1, Sizes DEF TypeOK
<1>3. tail' \in Cell
  <2> DEFINE x == Readable(size) * RecordSize
  <2>1. x \in Nat
    BY <1>2, Product
  <2>2. tail' = (tail + x) % Size
    BY <1>1 DEF Advance
  <2> HIDE DEF x
  <2>3. QED
    BY <1>2, <2>1, <2>2, Sizes
<1>4. delivered' \in Seq(Nat)
  <2>1. RecordsFrom(tail, Readable(size)) \in Seq(Nat)
    BY <1>2, RecordsAreNumbers
  <2>2. QED
    BY <2>1, <1>1 DEF TypeOK
<1>5. pc' \in [Threads -> {"out", "in"}]
  BY DEF TypeOK, ReadEvents
<1>6. QED
  BY <1>3, <1>4, <1>5 DEF TypeOK, ReadEvents

LEMMA TypeStep ==
  ASSUME TypeOK, [Next]_vars
  PROVE  TypeOK'
<1> USE DEF fields, ring, ports, hooks, history
<1>1. ASSUME NEW t \in Threads, FileCallback(t) \/ ProcessCallback(t) \/ Message(t)
      PROVE  TypeOK'
  BY <1>1 DEF TypeOK, FileCallback, ProcessCallback, Message, EnterDriver
<1>2. ASSUME NEW t \in Threads, Ends(t) PROVE TypeOK'
  <2>1. CASE NotReported(t) \/ NoEventsAsked(t) \/ NoRecordLeft(t)
    BY <2>1 DEF TypeOK, NotReported, NoEventsAsked, NoRecordLeft, Leave
  <2>2. QED
    BY <1>2, <2>1, WriteType, ReadType DEF Ends
<1>3. CASE ClientConnects \/ ClientDisconnects
  BY <1>3 DEF TypeOK, ClientConnects, ClientDisconnects
<1>4. CASE EntryRing
  <2>1. CASE UNCHANGED <<driver, ring, delivered>>
    BY <1>4, <2>1 DEF TypeOK, EntryRing
  <2>2. CASE EmptyRing
    <3>1. data' \in [Cell -> Nat \X Nat] /\ head' \in Cell /\ tail' \in Cell
      BY <2>2, EmptyCells DEF EmptyRing
    <3>2. total' \in Nat /\ dropped' \in Nat
      BY <2>2 DEF EmptyRing
    <3>3. driver' \in {"unloaded", "register"} /\ loads' \in Nat /\ made' \in Nat
          /\ pc' \in [Threads -> {"out", "in"}]
      BY <1>4 DEF TypeOK, EntryRing
    <3>5. delivered' \in Seq(Nat)
      <4>1. delivered' = <<>> \/ delivered' = delivered
        BY <1>4 DEF EntryRing
      <4>2. <<>> \in Seq(Nat)
        OBVIOUS
      <4>3. QED
        BY <4>1, <4>2 DEF TypeOK
    <3>4. {allocated', registered', filtering', notifying', serverPort', clientPort'} \subseteq BOOLEAN
      BY <1>4 DEF TypeOK, EntryRing
    <3>7. QED
      BY <3>1, <3>2, <3>3, <3>4, <3>5 DEF TypeOK
  <2>3. QED
    BY <1>4, <2>1, <2>2 DEF EntryRing
<1>5. CASE EntryRegister \/ EntryNotify \/ EntryStart \/ EntryPort
  BY <1>5 DEF TypeOK, EntryRegister, EntryNotify, EntryStart, EntryPort
<1>6. CASE Unload \/ CloseClientPort \/ CloseServerPort \/ RemoveNotify \/ Unregister
  BY <1>6 DEF TypeOK, Unload, CloseClientPort, CloseServerPort, RemoveNotify, Unregister
<1>7. CASE DestroyRing
  <2>1. data' \in [Cell -> Nat \X Nat] /\ head' \in Cell /\ tail' \in Cell
    BY <1>7, EmptyCells DEF DestroyRing, EmptyRing
  <2>2. total' \in Nat /\ dropped' \in Nat
    BY <1>7 DEF DestroyRing, EmptyRing
  <2>3. driver' = "unloaded" /\ loads' \in Nat /\ made' \in Nat
        /\ delivered' \in Seq(Nat) /\ pc' \in [Threads -> {"out", "in"}]
    BY <1>7 DEF TypeOK, DestroyRing
  <2>4. {allocated', registered', filtering', notifying', serverPort', clientPort'} \subseteq BOOLEAN
    BY <1>7 DEF TypeOK, DestroyRing
  <2>5. QED
    BY <2>1, <2>2, <2>3, <2>4 DEF TypeOK
<1>8. CASE UNCHANGED vars
  BY <1>8 DEF TypeOK, vars
<1>9. QED
  BY <1>1, <1>2, <1>3, <1>4, <1>5, <1>6, <1>7, <1>8 DEF Next, DriverStep

-----------------------------------------------------------------------------
(* Ownership and draining *)

LEMMA OwnsStep ==
  ASSUME TypeOK, Owns, Out, [Next]_vars
  PROVE  Owns'
<1> USE DEF fields, ring, ports, hooks, history
<1>1. ASSUME NEW t \in Threads,
             FileCallback(t) \/ ProcessCallback(t) \/ Message(t) \/ Ends(t)
      PROVE  Owns'
  BY <1>1 DEF Owns, FileCallback, ProcessCallback, Message, EnterDriver, Ends,
              NotReported, NoEventsAsked, NoRecordLeft, Leave, WriteEvent, ReadEvents
<1>2. CASE ClientConnects \/ ClientDisconnects
  BY <1>2 DEF Owns, ClientConnects, ClientDisconnects
<1>3. CASE EntryRing
  BY <1>3 DEF Owns, EntryRing
<1>4. CASE EntryRegister \/ EntryNotify \/ EntryStart \/ EntryPort
  BY <1>4 DEF Owns, EntryRegister, EntryNotify, EntryStart, EntryPort
<1>5. CASE Unload \/ CloseClientPort \/ CloseServerPort \/ RemoveNotify \/ Unregister
  BY <1>5 DEF Owns, Unload, CloseClientPort, CloseServerPort, RemoveNotify, Unregister
<1>6. CASE DestroyRing
  BY <1>6 DEF Owns, DestroyRing
<1>7. CASE UNCHANGED vars
  BY <1>7 DEF Owns, vars
<1>8. QED
  BY <1>1, <1>2, <1>3, <1>4, <1>5, <1>6, <1>7 DEF Next, DriverStep

LEMMA OutStep ==
  ASSUME TypeOK, Owns, Out, [Next]_vars
  PROVE  Out'
<1> USE DEF fields, ring, ports, hooks, history
<1>1. ASSUME NEW t \in Threads, EnterDriver(t), driver # "unloaded",
             t \in ProcessCallbacks => notifying
      PROVE  Out'
  <2>1. driver' = driver /\ \A u \in Threads : u # t => pc'[u] = pc[u]
    BY <1>1 DEF EnterDriver, TypeOK
  <2>2. driver \in {"register", "destroyRing"} => t \notin ProcessCallbacks
    BY <1>1 DEF Owns
  <2>3. ProcessCallbacks \subseteq Threads
    BY DEF Threads, Callbacks
  <2>4. QED
    BY <1>1, <2>1, <2>2, <2>3 DEF Out, Drained
<1>2. ASSUME NEW t \in Threads, FileCallback(t) \/ ProcessCallback(t) \/ Message(t)
      PROVE  Out'
  <2>1. EnterDriver(t) /\ driver # "unloaded"
    BY <1>2 DEF FileCallback, ProcessCallback, Message, EnterDriver, Owns
  <2>2. t \in ProcessCallbacks => notifying
    BY <1>2, MinifilterAssumption DEF FileCallback, ProcessCallback, Message, Callbacks
  <2>3. QED
    BY <1>1, <2>1, <2>2
<1>3. ASSUME NEW t \in Threads, Ends(t) PROVE Out'
  <2>1. driver' = driver /\ pc' = [pc EXCEPT ![t] = "out"]
    BY <1>3 DEF Ends, NotReported, NoEventsAsked, NoRecordLeft, Leave, WriteEvent, ReadEvents
  <2>2. \A u \in Threads : pc[u] = "out" => pc'[u] = "out"
    BY <2>1 DEF TypeOK
  <2>3. ProcessCallbacks \subseteq Threads
    BY DEF Threads, Callbacks
  <2>4. QED
    BY <2>1, <2>2, <2>3 DEF Out, Drained
<1>4. CASE ClientConnects \/ ClientDisconnects
  BY <1>4 DEF Out, Drained, ClientConnects, ClientDisconnects
<1>5. CASE EntryRing
  BY <1>5 DEF Out, Drained, EntryRing
<1>6. CASE EntryRegister \/ EntryNotify \/ EntryStart \/ EntryPort
  BY <1>6 DEF Out, Drained, EntryRegister, EntryNotify, EntryStart, EntryPort
<1>7. CASE Unload \/ CloseClientPort \/ CloseServerPort \/ RemoveNotify
  BY <1>7 DEF Out, Drained, Unload, CloseClientPort, CloseServerPort, RemoveNotify
<1>8. CASE Unregister
  BY <1>8 DEF Out, Drained, Unregister
<1>9. CASE DestroyRing
  BY <1>9 DEF Out, Drained, DestroyRing, Threads, Callbacks
<1>10. CASE UNCHANGED vars
  BY <1>10 DEF Out, Drained, vars
<1>11. QED
  BY <1>2, <1>3, <1>4, <1>5, <1>6, <1>7, <1>8, <1>9, <1>10 DEF Next, DriverStep

-----------------------------------------------------------------------------
(* The ring as a queue *)

(* What a record reads as, in cells that hold it whole. *)
LEMMA ReadsWhole ==
  ASSUME NEW p \in Nat, NEW r,
         \A k \in 0 .. RecordSize - 1 : data[(p + k) % Size] = <<r, k>>
  PROVE  RecordAt(p) = r
<1>1. 0 \in 0 .. RecordSize - 1
  BY Sizes
<1>2. data[(p + 0) % Size] = <<r, 0>>
  BY <1>1
<1>3. data[(p + 0) % Size][1] = r
  BY <1>2
<1>4. QED
  BY <1>3 DEF RecordAt

(* The first n records from the tail are those of s. *)
LEMMA RecordsAre ==
  ASSUME TypeOK, NEW s, Holds(s), NEW n \in Nat, n <= Len(s)
  PROVE  RecordsFrom(tail, n) = [i \in 1 .. n |-> s[i]]
<1>1. Len(s) \in Nat /\ tail \in Nat /\ RecordSize \in Nat
  BY Sizes DEF Holds, TypeOK
<1>2. ASSUME NEW i \in 1 .. n PROVE RecordAt(tail + (i - 1) * RecordSize) = s[i]
  <2> DEFINE x == (i - 1) * RecordSize
  <2>1. x \in Nat
    BY <1>1, Product
  <2>2. \A k \in 0 .. RecordSize - 1 : data[(tail + (x + k)) % Size] = <<s[i], k>>
    <3>1. i \in 1 .. Len(s)
      BY <1>1
    <3>2. QED
      BY <3>1 DEF Holds, Live
  <2> HIDE DEF x
  <2>3. \A k \in 0 .. RecordSize - 1 : tail + (x + k) = (tail + x) + k
    BY <1>1, <2>1
  <2>4. \A k \in 0 .. RecordSize - 1 : data[((tail + x) + k) % Size] = <<s[i], k>>
    BY <2>2, <2>3
  <2>5. tail + x \in Nat
    BY <1>1, <2>1
  <2>6. RecordAt(tail + x) = s[i]
    BY <2>4, <2>5, ReadsWhole
  <2>7. QED
    BY <2>6 DEF x
<1>3. QED
  BY <1>2 DEF RecordsFrom

Queue == RecordsFrom(tail, Used \div RecordSize)

LEMMA QueueIs ==
  ASSUME TypeOK, NEW s, Holds(s)
  PROVE  Queue = s
<1>1. Len(s) \in Nat /\ s \in Seq(Nat) /\ Used = Len(s) * RecordSize
  BY DEF Holds
<1>2. Used \in Nat
  BY UsedIsDistance, Sizes
<1>3. Used \div RecordSize = Len(s)
  BY <1>1, <1>2, Quotient
<1>4. Queue = [i \in 1 .. Len(s) |-> s[i]]
  BY <1>1, <1>3, RecordsAre DEF Queue
<1>5. s = [i \in 1 .. Len(s) |-> s[i]]
  BY <1>1, LenProperties
<1>6. QED
  BY <1>4, <1>5

(* A step that leaves the ring's fields and what was read. *)
LEMMA HoldsUnchanged ==
  ASSUME NEW s, Holds(s), UNCHANGED <<data, head, tail, total, delivered>>
  PROVE  Holds(s)'
BY DEF Holds, Used

(* A record that fits is put behind the others. *)
LEMMA WriteHolds ==
  ASSUME TypeOK, TypeOK', NEW t \in Threads, WriteEvent(t), Fits,
         NEW s, Holds(s), NEW s2, s2 = Append(s, made + 1)
  PROVE  Holds(s2)'
<1> DEFINE q == Len(s)
           r == made + 1
           y == q * RecordSize
<1>1. q \in Nat /\ r \in Nat /\ s \in Seq(Nat) /\ RecordSize \in Nat /\ Size \in Nat
  <2>1. s \in Seq(Nat)
    BY DEF Holds
  <2>2. q \in Nat
    BY <2>1
  <2>3. r \in Nat
    <3>1. made \in Nat
      BY DEF TypeOK
    <3>2. QED
      BY <3>1
  <2>4. QED
    BY <2>1, <2>2, <2>3, Sizes
<1>2. Used = y /\ Used \in Cell /\ Used \in Nat /\ Cell = 0 .. Size - 1 /\ RecordSize > 0
  BY UsedIsDistance, Sizes DEF Holds
<1>3. Used + RecordSize < Size
  BY <1>1, <1>2 DEF Fits, FreeSpace
<1>4. /\ data' = Written(r) /\ head' = (head + RecordSize) % Size /\ tail' = tail
      /\ total' = total + 1 /\ delivered' = delivered
  BY DEF WriteEvent, Advance
<1>5. s2 \in Seq(Nat) /\ Len(s2) = q + 1 /\ s2[q + 1] = r /\ \A i \in 1 .. q : s2[i] = s[i]
  BY <1>1
<1>6. Used' = Used + RecordSize
  <2>1. head = (tail + Used) % Size /\ tail \in Cell /\ head' \in Cell
    BY UsedIsDistance DEF TypeOK
  <2>2. head' = (tail + (Used + RecordSize)) % Size
    BY <2>1, <1>1, <1>2, <1>3, <1>4, Distances
  <2>3. Used + RecordSize \in Cell
    BY <1>1, <1>2, <1>3
  <2>4. Used + RecordSize = Distance(head', tail)
    BY <2>1, <2>2, <2>3, DistanceOf
  <2>5. Used' = Distance(head', tail)
    BY <1>4 DEF Used, Distance
  <2>6. QED
    BY <2>4, <2>5
<1>7. (q + 1) * RecordSize = y + RecordSize
  BY <1>1
<1>8. ASSUME NEW i \in 1 .. q + 1, NEW k \in 0 .. RecordSize - 1
      PROVE  data'[(tail + ((i - 1) * RecordSize + k)) % Size] = <<s2[i], k>>
  <2> DEFINE x == (i - 1) * RecordSize
             d == x + k
  <2>1. x \in Nat /\ k \in Nat /\ k < RecordSize
    BY <1>1, Product
  <2>2. CASE i = q + 1
    <3>1. x = y
      BY <2>2, <1>1
    <3> HIDE DEF x, y
    <3>2. d \in Cell /\ Used <= d /\ d < Used + RecordSize /\ d - Used = k
      BY <3>1, <2>1, <1>1, <1>2, <1>3
    <3> HIDE DEF d, r
    <3>3. Written(r)[(tail + d) % Size] = <<r, k>>
      BY <3>2, WrittenAt
    <3>4. data'[(tail + d) % Size] = <<s2[i], k>>
      BY <3>3, <1>4, <1>5, <2>2
    <3>5. QED
      BY <3>4 DEF d, x
  <2>3. CASE i \in 1 .. q
    <3>1. x + RecordSize <= y
      <4>1. i - 1 \in Nat /\ i - 1 < q
        BY <2>3, <1>1
      <4>2. QED
        BY <4>1, <1>1, ProductOrder
    <3> HIDE DEF x, y
    <3>2. d \in Cell /\ ~(Used <= d)
      BY <3>1, <2>1, <1>1, <1>2, <1>3
    <3>3. data[(tail + d) % Size] = <<s[i], k>>
      BY <2>3 DEF Holds, Live, d, x
    <3> HIDE DEF d, r
    <3>4. Written(r)[(tail + d) % Size] = data[(tail + d) % Size]
      BY <3>2, WrittenAt
    <3>5. data'[(tail + d) % Size] = <<s2[i], k>>
      BY <3>3, <3>4, <1>4, <1>5, <2>3
    <3>6. QED
      BY <3>5 DEF d, x
  <2>4. QED
    BY <2>2, <2>3, <1>1
<1>9. Live(data', tail', s2)
  BY <1>4, <1>5, <1>8 DEF Live
<1>10. total' = Len(delivered') + Len(s2)
  <2>1. total = Len(delivered) + q /\ Len(delivered) \in Nat
    BY DEF Holds, TypeOK
  <2>2. QED
    BY <2>1, <1>1, <1>4, <1>5
<1>11. Used' = Len(s2) * RecordSize
  BY <1>2, <1>5, <1>6, <1>7
<1>12. QED
  BY <1>5, <1>9, <1>10, <1>11 DEF Holds

(* A read takes the first n records and leaves the others. *)
LEMMA ReadHolds ==
  ASSUME TypeOK, TypeOK', NEW s, Holds(s), NEW n \in Nat, n <= Len(s),
         tail' = Advance(tail, n * RecordSize),
         delivered' = delivered \o RecordsFrom(tail, n),
         UNCHANGED <<data, head, total>>,
         NEW s2, s2 = SubSeq(s, n + 1, Len(s))
  PROVE  Holds(s2)'
<1> DEFINE q == Len(s)
           m == q - n
           y == n * RecordSize
           z == m * RecordSize
<1>1. s \in Seq(Nat) /\ q \in Nat /\ m \in Nat /\ RecordSize \in Nat /\ RecordSize > 0 /\ Size \in Nat
  <2>1. s \in Seq(Nat)
    BY DEF Holds
  <2>2. QED
    BY <2>1, Sizes
<1>2. y \in Nat /\ z \in Nat /\ Used = y + z /\ Used < Size
  <2>1. q * RecordSize = y + z
    BY <1>1
  <2>2. Used = q * RecordSize
    BY DEF Holds
  <2>3. Used \in 0 .. Size - 1
    BY UsedIsDistance, Sizes
  <2>4. y \in Nat /\ z \in Nat
    BY <1>1, Product
  <2> HIDE DEF y, z
  <2>5. QED
    BY <2>1, <2>2, <2>3, <2>4, <1>1
<1>3. s2 \in Seq(Nat) /\ Len(s2) = m /\ \A i \in 1 .. m : s2[i] = s[n + i]
  <2>1. \A i \in n + 1 .. q : s[i] \in Nat
    BY <1>1
  <2>2. n + 1 \in Int /\ q \in Int
    BY <1>1
  <2>3. /\ SubSeq(s, n + 1, q) \in Seq(Nat)
        /\ Len(SubSeq(s, n + 1, q)) = IF n + 1 <= q THEN q - (n + 1) + 1 ELSE 0
        /\ \A i \in 1 .. q - (n + 1) + 1 : SubSeq(s, n + 1, q)[i] = s[(n + 1) + i - 1]
    BY <2>1, <2>2, SubSeqProperties
  <2> HIDE DEF q
  <2>4. s2 = SubSeq(s, n + 1, q)
    BY DEF q
  <2>5. Len(s2) = m
    BY <2>3, <2>4, <1>1 DEF q
  <2>6. \A i \in 1 .. m : s2[i] = s[n + i]
    <3>1. q - (n + 1) + 1 = m /\ \A i \in 1 .. m : (n + 1) + i - 1 = n + i
      BY <2>2, <1>1 DEF q
    <3>2. QED
      BY <2>3, <2>4, <3>1
  <2>7. QED
    BY <2>3, <2>4, <2>5, <2>6
<1>4. tail \in Cell /\ head \in Cell /\ tail' \in Cell /\ tail' = (tail + y) % Size
  BY DEF TypeOK, Advance
<1>5. Used' = z
  <2>1. head = (tail + (y + z)) % Size
    BY <1>2, UsedIsDistance
  <2>2. y \in Cell /\ z \in Cell /\ y + z < Size
    BY <1>1, <1>2, Sizes
  <2> HIDE DEF y, z
  <2>3. head = (tail' + z) % Size
    BY <2>1, <2>2, <1>2, <1>4, Distances
  <2>4. z = Distance(head, tail')
    BY <2>2, <2>3, <1>4, DistanceOf
  <2>5. Used' = Distance(head, tail')
    BY DEF Used, Distance
  <2>6. QED
    BY <2>4, <2>5
<1>6. ASSUME NEW i \in 1 .. m, NEW k \in 0 .. RecordSize - 1
      PROVE  data'[(tail' + ((i - 1) * RecordSize + k)) % Size] = <<s2[i], k>>
  <2> DEFINE x == (i - 1) * RecordSize
             d == x + k
  <2>1. x \in Nat /\ k \in Nat /\ k < RecordSize
    BY <1>1, Product
  <2>2. x + RecordSize <= z
    <3>1. i - 1 \in Nat /\ i - 1 < m
      BY <1>1
    <3>2. QED
      BY <3>1, <1>1, ProductOrder
  <2>3. ((n + i) - 1) * RecordSize = y + x
    BY <1>1
  <2>4. data[(tail + (((n + i) - 1) * RecordSize + k)) % Size] = <<s[n + i], k>>
    <3>1. n + i \in 1 .. Len(s)
      BY <1>1
    <3>2. QED
      BY <3>1 DEF Holds, Live
  <2> HIDE DEF x, y, z
  <2>5. data[(tail + ((y + x) + k)) % Size] = <<s[n + i], k>>
    BY <2>3, <2>4
  <2>6. d \in Nat /\ y + d < Size /\ (y + x) + k = y + d /\ y \in Cell
    BY <2>1, <2>2, <1>1, <1>2, Sizes
  <2> HIDE DEF d
  <2>7. (tail' + d) % Size = (tail + (y + d)) % Size
    BY <2>6, <1>4, Distances
  <2>8. data'[(tail' + d) % Size] = <<s2[i], k>>
    BY <2>5, <2>6, <2>7, <1>3
  <2>9. QED
    BY <2>8 DEF d, x
<1>7. Live(data', tail', s2)
  BY <1>3, <1>6 DEF Live
<1>8. total' = Len(delivered') + Len(s2)
  <2>1. RecordsFrom(tail, n) \in Seq(Nat) /\ Len(RecordsFrom(tail, n)) = n
    <3>1. tail \in Nat
      BY <1>4, Sizes
    <3>2. QED
      BY <3>1, RecordsAreNumbers
  <2>2. delivered \in Seq(Nat) /\ total = Len(delivered) + q
    BY DEF TypeOK, Holds
  <2>3. Len(delivered') = Len(delivered) + n
    BY <2>1, <2>2
  <2>4. Len(delivered) \in Nat
    BY <2>2
  <2>5. total' = total
    OBVIOUS
  <2> HIDE DEF q
  <2>6. total' = Len(delivered') + (q - n)
    BY <2>2, <2>3, <2>4, <2>5, <1>1
  <2>7. QED
    BY <2>6, <1>3 DEF q
<1>9. Used' = Len(s2) * RecordSize
  BY <1>3, <1>5
<1>10. QED
  BY <1>3, <1>7, <1>8, <1>9 DEF Holds

(* A read takes no more records than there are. *)
LEMMA ReadableWhole ==
  ASSUME TypeOK, NEW s, Holds(s), NEW size \in 1 .. 2 * RecordSize
  PROVE  Readable(size) \in Nat /\ Readable(size) <= Len(s)
<1>1. s \in Seq(Nat) /\ Used = Len(s) * RecordSize
  BY DEF Holds
<1>2. Len(s) \in Nat
  BY <1>1
<1>3. Readable(size) \in Nat /\ Readable(size) * RecordSize <= Used
  BY ReadableRecords
<1>4. Readable(size) <= Len(s)
  BY <1>1, <1>2, <1>3, ProductOrder
<1>5. QED
  BY <1>3, <1>4

LEMMA WholeStep ==
  ASSUME TypeOK, TypeOK', Whole, [Next]_vars
  PROVE  Whole'
<1> USE DEF fields, ring, ports, hooks, history
<1>0. PICK s : Holds(s)
  BY DEF Whole
<1>1. ASSUME UNCHANGED <<data, head, tail, total, delivered>> PROVE Whole'
  BY <1>0, <1>1, HoldsUnchanged DEF Whole
<1>2. ASSUME EmptyRing, delivered' = <<>> PROVE Whole'
  <2>1. head' = 0 /\ tail' = 0 /\ total' = 0 /\ Len(delivered') = 0
    BY <1>2 DEF EmptyRing
  <2>2. Used' = 0
    BY <2>1 DEF Used
  <2>3. <<>> \in Seq(Nat) /\ Len(<<>>) = 0 /\ 0 * RecordSize = 0
    BY Sizes
  <2>4. Live(data', tail', <<>>)
    BY <2>3 DEF Live
  <2>5. Holds(<<>>)'
    BY <2>1, <2>2, <2>3, <2>4 DEF Holds
  <2>6. QED
    BY <2>5 DEF Whole
<1>3. ASSUME NEW t \in Threads, FileCallback(t) \/ ProcessCallback(t) \/ Message(t)
      PROVE  Whole'
  BY <1>1, <1>3 DEF FileCallback, ProcessCallback, Message, EnterDriver
<1>4. ASSUME NEW t \in Threads, WriteEvent(t) PROVE Whole'
  <2>1. CASE Fits
    <3>1. PICK s2 : s2 = Append(s, made + 1)
      OBVIOUS
    <3>2. Holds(s2)'
      BY <1>0, <1>4, <2>1, <3>1, WriteHolds
    <3>3. QED
      BY <3>2 DEF Whole
  <2>2. CASE ~Fits
    BY <1>1, <1>4, <2>2 DEF WriteEvent
  <2>3. QED
    BY <2>1, <2>2
<1>5. ASSUME NEW t \in Threads, ReadEvents(t) PROVE Whole'
  <2>1. PICK size \in 1 .. 2 * RecordSize :
          /\ tail' = Advance(tail, Readable(size) * RecordSize)
          /\ delivered' = delivered \o RecordsFrom(tail, Readable(size))
    BY <1>5 DEF ReadEvents
  <2>2. PICK n : n = Readable(size)
    OBVIOUS
  <2>3. n \in Nat /\ n <= Len(s)
    BY <1>0, <2>2, ReadableWhole
  <2>4. PICK s2 : s2 = SubSeq(s, n + 1, Len(s))
    OBVIOUS
  <2>5. UNCHANGED <<data, head, total>>
    BY <1>5 DEF ReadEvents
  <2>6. Holds(s2)'
    BY <1>0, <2>1, <2>2, <2>3, <2>4, <2>5, ReadHolds
  <2>7. QED
    BY <2>6 DEF Whole
<1>6. ASSUME NEW t \in Threads, Ends(t) PROVE Whole'
  <2>1. CASE NotReported(t) \/ NoEventsAsked(t) \/ NoRecordLeft(t)
    BY <1>1, <2>1 DEF NotReported, NoEventsAsked, NoRecordLeft, Leave
  <2>2. QED
    BY <1>4, <1>5, <1>6, <2>1 DEF Ends
<1>7. CASE ClientConnects \/ ClientDisconnects
  BY <1>1, <1>7 DEF ClientConnects, ClientDisconnects
<1>8. CASE EntryRing
  BY <1>1, <1>2, <1>8 DEF EntryRing
<1>9. CASE EntryRegister \/ EntryNotify \/ EntryStart \/ EntryPort
  BY <1>1, <1>9 DEF EntryRegister, EntryNotify, EntryStart, EntryPort
<1>10. CASE Unload \/ CloseClientPort \/ CloseServerPort \/ RemoveNotify \/ Unregister
  BY <1>1, <1>10 DEF Unload, CloseClientPort, CloseServerPort, RemoveNotify, Unregister
<1>11. CASE DestroyRing
  BY <1>2, <1>11 DEF DestroyRing
<1>12. CASE UNCHANGED vars
  BY <1>1, <1>12 DEF vars
<1>13. QED
  BY <1>3, <1>6, <1>7, <1>8, <1>9, <1>10, <1>11, <1>12 DEF Next, DriverStep

-----------------------------------------------------------------------------
(* Theorems *)

LEMMA Invariance == Spec => []IInv
<1>1. IInv /\ [Next]_vars => IInv'
  <2> SUFFICES ASSUME IInv, [Next]_vars PROVE IInv'
    OBVIOUS
  <2>1. TypeOK'
    BY TypeStep DEF IInv
  <2>2. Owns' /\ Out'
    BY OwnsStep, OutStep DEF IInv
  <2>3. Whole'
    BY <2>1, WholeStep DEF IInv
  <2>4. QED
    BY <2>1, <2>2, <2>3 DEF IInv
<1>2. QED
  BY <1>1, InitIInv, PTL DEF Spec

(* No callback and no message loses its ring, and a driver that is not loaded
   leaves nothing behind: DriverEntry's rollbacks and the unload, for any
   number of threads and loads. *)
THEOREM Lifetimes == Spec => []LifetimesNest
<1>1. IInv => LifetimesNest
  <2> SUFFICES ASSUME IInv PROVE LifetimesNest
    OBVIOUS
  <2>1. RingOutlivesItsUsers
    BY DEF IInv, Owns, Out, Drained, RingOutlivesItsUsers
  <2>2. NothingLeftBehind
    BY DEF IInv, Owns, NothingLeftBehind
  <2>3. QED
    BY <2>1, <2>2 DEF IInv, LifetimesNest
<1>2. QED
  BY <1>1, Invariance, PTL

(* AegisRingGetStats tells the truth: every record it counts was read or is in
   the ring, whole. *)
THEOREM Statistics == Spec => []StatsAgree
<1>1. IInv => StatsAgree
  <2> SUFFICES ASSUME IInv PROVE StatsAgree
    OBVIOUS
  <2>1. PICK s : Holds(s)
    BY DEF IInv, Whole
  <2>2. s \in Seq(Nat) /\ Used = Len(s) * RecordSize /\ total = Len(delivered) + Len(s)
    BY <2>1 DEF Holds
  <2>3. Used \in Nat /\ Len(s) \in Nat
    BY <2>2, UsedIsDistance, Sizes DEF IInv
  <2>4. Used \div RecordSize = Len(s) /\ Used % RecordSize = 0
    BY <2>2, <2>3, Quotient
  <2>5. QED
    BY <2>2, <2>4 DEF StatsAgree
<1>2. QED
  BY <1>1, Invariance, PTL

-----------------------------------------------------------------------------
(* Refinement *)

LEMMA QueueIsAny == \A s : TypeOK /\ Holds(s) => Queue = s
BY QueueIs

LEMMA QueueIsNext == (\A s : TypeOK /\ Holds(s) => Queue = s)'
BY QueueIsAny, PTL

LEMMA FifoQueue == Fifo!vars = <<Queue, delivered, dropped>>
BY DEF Fifo!vars, Queue

(* How full the ring is in records, and whether another fits, agree. *)
LEMMA FullMeansFull ==
  ASSUME TypeOK, NEW s, Holds(s)
  PROVE  /\ Len(s) <= (Size - 1) \div RecordSize
         /\ Fits <=> Len(s) < (Size - 1) \div RecordSize
<1> DEFINE q == Len(s)
           c == (Size - 1) \div RecordSize
           x == q * RecordSize
           y == c * RecordSize
<1>1. q \in Nat /\ RecordSize \in Nat /\ Size - 1 \in Nat /\ Size \in Nat
  <2>1. s \in Seq(Nat)
    BY DEF Holds
  <2>2. QED
    BY <2>1, Sizes
<1>2. c \in Nat /\ y <= Size - 1 /\ Size - 1 < y + RecordSize
  BY <1>1, Quotient
<1>3. /\ q < c => x + RecordSize <= y
      /\ x <= y => q <= c
      /\ c < q => y + RecordSize <= x
  BY <1>1, <1>2, ProductOrder
<1>4. x \in Nat /\ y \in Nat
  BY <1>1, <1>2, Product
<1>5. x <= Size - 1 /\ (Fits <=> Size - x - 1 >= RecordSize)
  <2>1. Used = x
    BY DEF Holds
  <2>2. Used \in 0 .. Size - 1
    BY UsedIsDistance, Sizes
  <2>3. QED
    BY <2>1, <2>2 DEF Fits, FreeSpace
<1> HIDE DEF q, c, x, y
<1>6. q <= c
  BY <1>1, <1>2, <1>3, <1>4, <1>5
<1>7. Fits <=> q < c
  <2>1. CASE q < c
    BY <2>1, <1>1, <1>2, <1>3, <1>4, <1>5
  <2>2. CASE q = c
    <3>1. x = y
      BY <2>2 DEF x, y
    <3>2. QED
      BY <3>1, <2>2, <1>1, <1>2, <1>4, <1>5
  <2>3. QED
    BY <2>1, <2>2, <1>1, <1>2, <1>6
<1>8. QED
  BY <1>6, <1>7 DEF q, c

LEMMA WriteRefines ==
  ASSUME IInv, TypeOK', NEW t \in Threads, WriteEvent(t)
  PROVE  [Fifo!Next]_(Fifo!vars)
<1> USE DEF fields, ring, ports, hooks, history
<1>1. PICK s : Holds(s)
  BY DEF IInv, Whole
<1>2. TypeOK
  BY DEF IInv
<1>3. Queue = s /\ s \in Seq(Nat) /\ Len(s) \in Nat
  BY <1>1, <1>2, QueueIs DEF Holds
<1>4. delivered' = delivered
  BY DEF WriteEvent
<1>5. CASE Fits
  <2>1. PICK s2 : s2 = Append(s, made + 1)
    OBVIOUS
  <2>2. Holds(s2)'
    BY <1>1, <1>2, <1>5, <2>1, WriteHolds
  <2>3. Queue' = Append(Queue, made + 1)
    BY <1>3, <2>1, <2>2, QueueIsNext
  <2>4. made + 1 \in 1 .. MaxRecords
    <3>1. made \in Nat /\ made < MaxRecords /\ MaxRecords \in Nat
      BY <1>2, MinifilterAssumption DEF TypeOK, WriteEvent
    <3>2. QED
      BY <3>1
  <2>5. Len(Queue) < (Size - 1) \div RecordSize
    BY <1>1, <1>2, <1>3, <1>5, FullMeansFull
  <2>6. dropped' = dropped
    BY <1>5 DEF WriteEvent
  <2>7. Fifo!Put(made + 1)
    BY <1>4, <2>3, <2>5, <2>6 DEF Fifo!Put, Queue
  <2>8. QED
    BY <2>4, <2>7 DEF Fifo!Next
<1>6. CASE ~Fits
  <2>1. Queue' = Queue
    BY <1>6 DEF WriteEvent, Queue, RecordsFrom, RecordAt, Used
  <2>2. Len(Queue) = (Size - 1) \div RecordSize
    <3>1. (Size - 1) \div RecordSize \in Nat
      BY Quotient, Sizes
    <3>2. QED
      BY <3>1, <1>1, <1>2, <1>3, <1>6, FullMeansFull
  <2>3. dropped' = dropped + 1
    BY <1>6 DEF WriteEvent
  <2>4. Fifo!Drop
    BY <1>4, <2>1, <2>2, <2>3 DEF Fifo!Drop, Queue
  <2>5. QED
    BY <2>4 DEF Fifo!Next
<1>7. QED
  BY <1>5, <1>6

LEMMA ReadRefines ==
  ASSUME IInv, TypeOK', NEW t \in Threads, ReadEvents(t)
  PROVE  [Fifo!Next]_(Fifo!vars)
<1> USE DEF fields, ring, ports, hooks, history
<1>1. PICK s : Holds(s)
  BY DEF IInv, Whole
<1>2. TypeOK
  BY DEF IInv
<1>3. Queue = s /\ s \in Seq(Nat) /\ Len(s) \in Nat
  BY <1>1, <1>2, QueueIs DEF Holds
<1>4. PICK size \in 1 .. 2 * RecordSize :
        /\ tail' = Advance(tail, Readable(size) * RecordSize)
        /\ delivered' = delivered \o RecordsFrom(tail, Readable(size))
  BY DEF ReadEvents
<1>5. PICK n : n = Readable(size)
  OBVIOUS
<1>6. n \in Nat /\ n <= Len(s)
  BY <1>1, <1>2, <1>5, ReadableWhole
<1>7. UNCHANGED <<data, head, total, dropped>>
  BY DEF ReadEvents
<1>8. PICK s2 : s2 = SubSeq(s, n + 1, Len(s))
  OBVIOUS
<1>9. Holds(s2)'
  BY <1>1, <1>2, <1>4, <1>5, <1>6, <1>7, <1>8, ReadHolds
<1>10. Queue' = SubSeq(Queue, n + 1, Len(Queue))
  BY <1>3, <1>8, <1>9, QueueIsNext
<1>11. delivered' = delivered \o SubSeq(Queue, 1, n)
  <2>1. RecordsFrom(tail, n) = [i \in 1 .. n |-> s[i]]
    BY <1>1, <1>2, <1>6, RecordsAre
  <2>2. SubSeq(s, 1, n) = [i \in 1 .. n |-> s[i]]
    BY <1>3, <1>6
  <2>3. QED
    BY <2>1, <2>2, <1>3, <1>4, <1>5
<1>12. CASE n = 0
  <2>1. Queue' = Queue
    <3>1. SubSeq(s, 0 + 1, Len(s)) = s
      BY <1>3
    <3>2. QED
      BY <3>1, <1>3, <1>10, <1>12
  <2>2. delivered' = delivered
    <3>1. SubSeq(Queue, 1, 0) = <<>>
      BY <1>3
    <3>2. delivered \in Seq(Nat)
      BY <1>2 DEF TypeOK
    <3>3. QED
      BY <3>1, <3>2, <1>11, <1>12
  <2>3. QED
    BY <2>1, <2>2, <1>7, FifoQueue DEF Fifo!vars, Queue
<1>13. CASE n # 0
  <2>1. n \in 1 .. (Size - 1) \div RecordSize
    <3>1. Len(s) <= (Size - 1) \div RecordSize /\ (Size - 1) \div RecordSize \in Nat
      BY <1>1, <1>2, FullMeansFull, Quotient, Sizes
    <3>2. QED
      BY <3>1, <1>3, <1>6, <1>13
  <2>2. Fifo!Take(n)
    BY <1>3, <1>6, <1>7, <1>10, <1>11 DEF Fifo!Take, Queue
  <2>3. QED
    BY <2>1, <2>2 DEF Fifo!Next
<1>14. QED
  BY <1>12, <1>13

LEMMA StepRefines ==
  ASSUME IInv, TypeOK', [Next]_vars
  PROVE  [Fifo!Next]_(Fifo!vars)
<1> USE DEF fields, ring, ports, hooks, history
<1>1. ASSUME UNCHANGED <<data, head, tail, delivered, dropped>>
      PROVE  [Fifo!Next]_(Fifo!vars)
  BY <1>1 DEF Fifo!vars, RecordsFrom, RecordAt, Used
<1>2. ASSUME EmptyRing, delivered' = <<>>
      PROVE  [Fifo!Next]_(Fifo!vars)
  <2>1. head' = 0 /\ tail' = 0 /\ dropped' = 0
    BY <1>2 DEF EmptyRing
  <2>2. Used' = 0
    BY <2>1 DEF Used
  <2>3. 0 \div RecordSize = 0
    <3>1. 0 = 0 * RecordSize
      BY Sizes
    <3>2. QED
      BY <3>1, Quotient
  <2>4. Queue' = <<>>
    BY <2>2, <2>3 DEF Queue, RecordsFrom
  <2>5. Fifo!Discard
    BY <1>2, <2>1, <2>4 DEF Fifo!Discard, Queue
  <2>6. QED
    BY <2>5 DEF Fifo!Next
<1>3. ASSUME NEW t \in Threads, FileCallback(t) \/ ProcessCallback(t) \/ Message(t)
      PROVE  [Fifo!Next]_(Fifo!vars)
  BY <1>1, <1>3 DEF FileCallback, ProcessCallback, Message, EnterDriver
<1>4. ASSUME NEW t \in Threads, Ends(t)
      PROVE  [Fifo!Next]_(Fifo!vars)
  <2>1. CASE NotReported(t) \/ NoEventsAsked(t) \/ NoRecordLeft(t)
    BY <1>1, <2>1 DEF NotReported, NoEventsAsked, NoRecordLeft, Leave
  <2>2. QED
    BY <1>4, <2>1, WriteRefines, ReadRefines DEF Ends
<1>5. CASE ClientConnects \/ ClientDisconnects
  BY <1>1, <1>5 DEF ClientConnects, ClientDisconnects
<1>6. CASE EntryRing
  BY <1>1, <1>2, <1>6 DEF EntryRing
<1>7. CASE EntryRegister \/ EntryNotify \/ EntryStart \/ EntryPort
  BY <1>1, <1>7 DEF EntryRegister, EntryNotify, EntryStart, EntryPort
<1>8. CASE Unload \/ CloseClientPort \/ CloseServerPort \/ RemoveNotify \/ Unregister
  BY <1>1, <1>8 DEF Unload, CloseClientPort, CloseServerPort, RemoveNotify, Unregister
<1>9. CASE DestroyRing
  BY <1>2, <1>9 DEF DestroyRing
<1>10. CASE UNCHANGED vars
  BY <1>1, <1>10 DEF vars
<1>11. QED
  BY <1>3, <1>4, <1>5, <1>6, <1>7, <1>8, <1>9, <1>10 DEF Next, DriverStep

(* The driver's ring of bytes implements the queue of records RecordFifo, for
   any sizes: no record is torn, lost, repeated or overtaken, whatever the
   sizes of the reads and wherever the buffer wraps, and one is dropped only
   while the ring is as full as it can be. *)
THEOREM Refinement == Spec => RefinesRecordFifo
<1>1. Init => Fifo!Init
  <2> SUFFICES ASSUME Init PROVE Fifo!Init
    OBVIOUS
  <2>1. Used = 0
    BY DEF Init, Used
  <2>2. Used \div RecordSize = 0
    <3>1. 0 = 0 * RecordSize
      BY Sizes
    <3>2. QED
      BY <2>1, <3>1, Quotient
  <2>3. RecordsFrom(tail, Used \div RecordSize) = <<>>
    BY <2>2 DEF RecordsFrom
  <2>4. QED
    BY <2>3 DEF Fifo!Init, Init
<1>2. IInv /\ IInv' /\ [Next]_vars => [Fifo!Next]_(Fifo!vars)
  BY StepRefines DEF IInv
<1>3. QED
  BY <1>1, <1>2, Invariance, PTL DEF Spec, RefinesRecordFifo, Fifo!Spec

=============================================================================

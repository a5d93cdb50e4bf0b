----------------------------- MODULE Minifilter -----------------------------
(***************************************************************************)
(* The file-system driver (src/drivers/minifilter/): DriverEntry and its   *)
(* rollback, the callbacks Windows runs in the context of any process, the *)
(* event ring between them and the client of the communication port, and   *)
(* the unload.                                                             *)
(*                                                                         *)
(* The ring is modelled byte by byte: a cell holds a record's number and   *)
(* the offset of a byte in it, so that a record torn or shifted by the     *)
(* wrap-around is seen.                                                    *)
(***************************************************************************)
EXTENDS Integers, Sequences, FiniteSets

CONSTANTS
  FileCallbacks,     \* threads in AegisPostOperation
  ProcessCallbacks,  \* threads in AegisProcessCallback
  Messages,          \* threads in AegisFilterMessageNotify
  Size,              \* AEGIS_RING_SIZE
  RecordSize,        \* sizeof(AEGIS_EVENT_RECORD)
  MaxRecords,        \* bound: records reported in a behaviour
  MaxLoads           \* bound: loads of the driver

Callbacks == FileCallbacks \cup ProcessCallbacks
Threads == Callbacks \cup Messages
Cell == 0 .. Size - 1

ASSUME MinifilterAssumption ==
  /\ Size \in Nat \ {0} /\ RecordSize \in 1 .. Size - 1
  /\ MaxRecords \in Nat /\ MaxLoads \in Nat
  /\ FileCallbacks \cap ProcessCallbacks = {} /\ Callbacks \cap Messages = {}

VARIABLES
  driver,      \* the thread in DriverEntry or AegisFilterUnload: what is next
  loads,       \* DriverEntry calls
  allocated,   \* g_EventRing # NULL
  data, head, tail, total, dropped,  \* the ring's fields
  registered,  \* the filter is registered with the filter manager
  filtering,   \* FltStartFiltering has been called
  notifying,   \* the process callback is registered
  serverPort,  \* g_ServerPort # NULL
  clientPort,  \* g_ClientPort # NULL: a client is connected
  pc,          \* "out" of the driver, or "in": past the test of g_EventRing
  made,        \* history: records reported
  delivered    \* history: records read since the ring was made

fields == <<data, head, tail, total, dropped>>
ring == <<allocated, fields>>
ports == <<serverPort, clientPort>>
hooks == <<registered, filtering, notifying>>
history == <<made, delivered>>
vars == <<driver, loads, ring, hooks, ports, pc, history>>

EmptyRing ==
  /\ data' = [i \in Cell |-> <<0, 0>>]
  /\ head' = 0 /\ tail' = 0
  /\ total' = 0 /\ dropped' = 0

Init ==
  /\ driver = "unloaded"
  /\ loads = 0
  /\ allocated = FALSE
  /\ data = [i \in Cell |-> <<0, 0>>]
  /\ head = 0 /\ tail = 0
  /\ total = 0 /\ dropped = 0
  /\ registered = FALSE /\ filtering = FALSE /\ notifying = FALSE
  /\ serverPort = FALSE /\ clientPort = FALSE
  /\ pc = [t \in Threads |-> "out"]
  /\ made = 0
  /\ delivered = <<>>

-----------------------------------------------------------------------------
(* The ring: AEGIS_RING_USED, RingWriteBytes, RingReadBytes *)

Used == IF head >= tail THEN head - tail ELSE Size - tail + head

\* One cell stays free, so that a full ring is not taken for an empty one.
FreeSpace == Size - Used - 1

Advance(position, bytes) == (position + bytes) % Size

WrittenUnwrapped(record) ==
  [i \in Cell |->
     IF i \in head .. head + RecordSize - 1 THEN <<record, i - head>> ELSE data[i]]

\* What the cells hold after a record is written at the head.
Written(record) ==
  [i \in Cell |->
     LET offset == (i + Size - head) % Size
     IN  IF offset < RecordSize THEN <<record, offset>> ELSE data[i]]

\* The bytes at a position, which are a record if they are one record's, in
\* order, and 0 if they are not.
RecordAt(position) ==
  LET byte(k) == data[(position + k) % Size]
  IN  IF \A k \in 0 .. RecordSize - 1 : byte(k) = <<byte(0)[1], k>>
      THEN byte(0)[1]
      ELSE 0

RecordsFrom(position, n) ==
  [i \in 1 .. n |-> RecordAt(position + (i - 1) * RecordSize)]

\* AegisRingReadEvents takes whole records while there are some and the
\* caller's buffer has room.
Readable(outSize) ==
  IF Used < outSize THEN Used \div RecordSize ELSE outSize \div RecordSize

-----------------------------------------------------------------------------
(* Callbacks and messages.  The test of g_EventRing takes no lock.          *)

EnterDriver(t) ==
  /\ pc[t] = "out"
  /\ allocated
  /\ pc' = [pc EXCEPT ![t] = "in"]
  /\ UNCHANGED <<driver, loads, ring, hooks, ports, history>>

\* AegisPostOperation, after a create
FileCallback(t) == t \in FileCallbacks /\ filtering /\ EnterDriver(t)

\* AegisProcessCallback
ProcessCallback(t) == t \in ProcessCallbacks /\ notifying /\ EnterDriver(t)

\* AegisFilterMessageNotify
Message(t) == t \in Messages /\ clientPort /\ EnterDriver(t)

Leave(t) ==
  /\ pc[t] = "in"
  /\ pc' = [pc EXCEPT ![t] = "out"]
  /\ UNCHANGED <<driver, loads, ring, hooks, ports, history>>

\* The create failed, or Windows has no name for the file.
NotReported(t) == t \in FileCallbacks /\ Leave(t)

\* Another command than READ_EVENTS, or a malformed one.
NoEventsAsked(t) == t \in Messages /\ Leave(t)

\* The bound: no record is left for this behaviour.
NoRecordLeft(t) == made = MaxRecords /\ Leave(t)

Fits == FreeSpace >= RecordSize

\* AegisRingWriteEvent, from the lock to its release.
WriteEvent(t) ==
  /\ t \in Callbacks
  /\ pc[t] = "in"
  /\ made < MaxRecords
  /\ made' = made + 1
  /\ IF Fits
     THEN /\ data' = Written(made + 1)
          /\ head' = Advance(head, RecordSize)
          /\ total' = total + 1
          /\ UNCHANGED dropped
     ELSE /\ dropped' = dropped + 1
          /\ UNCHANGED <<data, head, total>>
  /\ pc' = [pc EXCEPT ![t] = "out"]
  /\ UNCHANGED <<driver, loads, allocated, tail, hooks, ports, delivered>>

\* AEGIS_MSG_READ_EVENTS with a buffer of outSize bytes.
ReadEvents(t) ==
  /\ t \in Messages
  /\ pc[t] = "in"
  /\ \E outSize \in 1 .. 2 * RecordSize :
       LET n == Readable(outSize)
       IN  /\ tail' = Advance(tail, n * RecordSize)
           /\ delivered' = delivered \o RecordsFrom(tail, n)
  /\ pc' = [pc EXCEPT ![t] = "out"]
  /\ UNCHANGED <<driver, loads, allocated, data, head, total, dropped, hooks,
                 ports, made>>

\* AegisFilterConnectNotify; one connection at a time.
ClientConnects ==
  /\ serverPort /\ ~clientPort
  /\ clientPort' = TRUE
  /\ UNCHANGED <<driver, loads, ring, hooks, serverPort, pc, history>>

\* AegisFilterDisconnectNotify
ClientDisconnects ==
  /\ clientPort
  /\ clientPort' = FALSE
  /\ UNCHANGED <<driver, loads, ring, hooks, serverPort, pc, history>>

-----------------------------------------------------------------------------
(* DriverEntry: each step may fail; what follows then undoes the others.    *)

EntryRing ==
  /\ driver = "unloaded"
  /\ loads < MaxLoads
  /\ loads' = loads + 1
  /\ \/ /\ driver' = "register"
        /\ allocated' = TRUE
        /\ EmptyRing
        /\ delivered' = <<>>
     \/ UNCHANGED <<driver, ring, delivered>>
  /\ UNCHANGED <<hooks, ports, pc, made>>

EntryRegister ==
  /\ driver = "register"
  /\ \/ driver' = "notify" /\ registered' = TRUE
     \/ driver' = "destroyRing" /\ UNCHANGED registered
  /\ UNCHANGED <<loads, ring, filtering, notifying, ports, pc, history>>

EntryNotify ==
  /\ driver = "notify"
  /\ \/ driver' = "start" /\ notifying' = TRUE
     \/ driver' = "unregister" /\ UNCHANGED notifying
  /\ UNCHANGED <<loads, ring, registered, filtering, ports, pc, history>>

EntryStart ==
  /\ driver = "start"
  /\ \/ driver' = "port" /\ filtering' = TRUE
     \/ driver' = "removeNotify" /\ UNCHANGED filtering
  /\ UNCHANGED <<loads, ring, registered, notifying, ports, pc, history>>

\* Without its port the driver works on, and nobody can read the ring.
EntryPort ==
  /\ driver = "port"
  /\ driver' = "loaded"
  /\ serverPort' \in BOOLEAN
  /\ UNCHANGED <<loads, ring, hooks, clientPort, pc, history>>

-----------------------------------------------------------------------------
(* AegisFilterUnload, whose tail is also DriverEntry's rollback *)

\* The test of g_ClientPort, apart from its use.
Unload ==
  /\ driver = "loaded"
  /\ driver' = IF clientPort THEN "closeClient" ELSE "closeServer"
  /\ UNCHANGED <<loads, ring, hooks, ports, pc, history>>

CloseClientPort ==
  /\ driver = "closeClient"
  /\ driver' = "closeServer"
  /\ clientPort' = FALSE
  /\ UNCHANGED <<loads, ring, hooks, serverPort, pc, history>>

CloseServerPortForgotten ==
  /\ driver = "closeServer"
  /\ driver' = "removeNotify"
  /\ UNCHANGED <<loads, ring, hooks, ports, pc, history>>

CloseServerPort ==
  /\ driver = "closeServer"
  /\ driver' = "removeNotify"
  /\ serverPort' = FALSE
  /\ UNCHANGED <<loads, ring, hooks, clientPort, pc, history>>

RemoveNotifyForgotten ==
  /\ driver = "removeNotify"
  /\ driver' = "unregister"
  /\ UNCHANGED <<loads, ring, hooks, ports, pc, history>>

\* Windows calls no more process callbacks.
RemoveNotify ==
  /\ driver = "removeNotify"
  /\ notifying' = FALSE
  /\ driver' = "unregister"
  /\ UNCHANGED <<loads, ring, registered, filtering, ports, pc, history>>

Drained(threads) == \A t \in threads : pc[t] = "out"

\* The removal above has waited for the process callbacks that ran; the filter
\* manager lets no more file callbacks and messages in, and closes a connection
\* that was made since the client port was closed.
Unregister ==
  /\ driver = "unregister"
  /\ Drained(ProcessCallbacks)
  /\ registered' = FALSE
  /\ filtering' = FALSE
  /\ clientPort' = FALSE
  /\ driver' = "destroyRing"
  /\ UNCHANGED <<loads, ring, notifying, serverPort, pc, history>>

\* FltUnregisterFilter has waited for the rest, and would wait for ever on an
\* open server port.  AegisRingDestroy; unread records go with the ring.
DestroyRing ==
  /\ driver = "destroyRing"
  /\ Drained(FileCallbacks \cup Messages) /\ ~serverPort
  /\ allocated' = FALSE
  /\ EmptyRing
  /\ delivered' = <<>>
  /\ driver' = "unloaded"
  /\ UNCHANGED <<loads, hooks, ports, pc, made>>

DriverStep ==
  \/ EntryRegister \/ EntryNotify \/ EntryStart \/ EntryPort
  \/ CloseClientPort \/ CloseServerPort \/ RemoveNotify \/ Unregister \/ DestroyRing

\* Every way out of a callback or a message.
Ends(t) ==
  NotReported(t) \/ NoEventsAsked(t) \/ NoRecordLeft(t) \/ WriteEvent(t) \/ ReadEvents(t)

Next ==
  \/ EntryRing \/ Unload \/ DriverStep
  \/ ClientConnects \/ ClientDisconnects
  \/ \E t \in Threads : FileCallback(t) \/ ProcessCallback(t) \/ Message(t) \/ Ends(t)

\* A call of the driver that has begun ends, and so does every callback.
Fairness ==
  /\ WF_vars(DriverStep)
  /\ \A t \in Threads : WF_vars(Ends(t))

Spec == Init /\ [][Next]_vars /\ Fairness

-----------------------------------------------------------------------------
TypeOK ==
  /\ driver \in {"unloaded", "register", "notify", "start", "port", "loaded",
                 "closeClient", "closeServer", "removeNotify", "unregister",
                 "destroyRing"}
  /\ {loads, total, dropped, made} \subseteq Nat
  /\ {allocated, registered, filtering, notifying, serverPort, clientPort} \subseteq BOOLEAN
  /\ data \in [Cell -> Nat \X Nat]
  /\ head \in Cell /\ tail \in Cell
  /\ pc \in [Threads -> {"out", "in"}]
  /\ delivered \in Seq(Nat)

(* A callback or a message that has found the ring there still finds it when *)
(* it takes the lock: neither the unload nor a rollback frees the ring under *)
(* a thread that is past the unlocked test of g_EventRing.                   *)
RingOutlivesItsUsers == \A t \in Threads : pc[t] = "in" => allocated

(* However far DriverEntry came, and whatever a client does during the       *)
(* unload, a driver that is not loaded leaves nothing behind that Windows    *)
(* would call or that holds memory.                                          *)
NothingLeftBehind ==
  driver = "unloaded" =>
    ~(allocated \/ registered \/ filtering \/ notifying \/ serverPort \/ clientPort)

(* The ring, and every hook into Windows, lives as long as its users.        *)
LifetimesNest == TypeOK /\ RingOutlivesItsUsers /\ NothingLeftBehind

(* AegisRingGetStats, from which a reader tells loss from silence: the total *)
(* is what was read and what the used bytes still hold, in whole records.    *)
StatsAgree ==
  /\ total = Len(delivered) + Used \div RecordSize
  /\ Used % RecordSize = 0

(* The ring implements the record queue: records leave whole, once, in order *)
(* and are dropped only when the ring is full.                               *)
Fifo == INSTANCE RecordFifo
          WITH Records <- 1 .. MaxRecords,
               Capacity <- (Size - 1) \div RecordSize,
               queue <- RecordsFrom(tail, Used \div RecordSize)
RefinesRecordFifo == Fifo!Spec

(* An unload that has begun completes.                                       *)
UnloadCompletes ==
  driver \in {"closeClient", "closeServer"} ~> driver = "unloaded"
=============================================================================

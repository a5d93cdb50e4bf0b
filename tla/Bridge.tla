------------------------------- MODULE Bridge -------------------------------
(***************************************************************************)
(* The bridge library (src/bridge/, aegis_ipc) under a client that calls   *)
(* it from one thread, as the self-test, the console and the tests do:     *)
(* start and shutdown, the event queue, the DEFCON aggregator, and the     *)
(* packet parser, which finds the headers and the payload of a packet in   *)
(* a caller's buffer and fills the event the caller then pushes.           *)
(*                                                                         *)
(* Of an event only what the aggregator looks at is kept: whether its      *)
(* severity is critical and whether its tier makes it a kernel threat.     *)
(***************************************************************************)
EXTENDS Integers, Sequences, FiniteSetsExt, Functions

CONSTANTS
  Capacity,   \* kEventQueueCapacity
  SizeValues, \* how many values a size_t has
  Packets,    \* headers and lengths of the packets that are parsed
  Updates,    \* what a client passes to aegis_bridge_update_defcon
  MaxPushes,  \* bound: calls of push_event
  MaxInits    \* bound: calls of init

Event == [critical : BOOLEAN, kernel : BOOLEAN]
Slot == 0 .. Capacity - 1
Counters == [critical : Nat, blocked : Nat, kernel : Nat, total : Nat]

\* The length of a buffer is a size_t; the two header lengths are 4 bits each.
AnyPacket ==
  [len : 0 .. SizeValues - 1, version : 0 .. 15, ihl : 0 .. 15, total : 0 .. 65535,
   protocol : {"tcp", "udp", "icmp", "other"}, dataOffset : 0 .. 15]

ASSUME BridgeAssumption ==
  /\ {Capacity, SizeValues} \subseteq Nat \ {0}
  /\ Packets \subseteq AnyPacket
  /\ MaxPushes \in Nat /\ MaxInits \in Nat
  /\ Updates \subseteq Counters

VARIABLES
  initialized,  \* g_initialized
  buffer, head, tail, count, dropped,  \* g_eventQueue
  counters,     \* g_defcon's four counters
  level,        \* g_defcon.m_currentLevel
  event,        \* the caller's IpcEvent
  pushes, inits,
  delivered,    \* history: events popped since the start
  overwritten   \* history: update_defcon has been called since the start

queue == <<buffer, head, tail, count, dropped>>
defcon == <<counters, level>>
bounds == <<pushes, inits>>
history == <<delivered, overwritten>>
vars == <<initialized, queue, defcon, event, bounds, history>>

NoAlerts == [critical |-> 0, blocked |-> 0, kernel |-> 0, total |-> 0]
Zeroed == [critical |-> FALSE, kernel |-> FALSE]

\* An IpcEvent on the caller's stack holds anything before it is filled.
Init ==
  /\ initialized = FALSE
  /\ buffer = [i \in Slot |-> Zeroed]
  /\ head = 0 /\ tail = 0 /\ count = 0 /\ dropped = 0
  /\ counters = NoAlerts /\ level = 5
  /\ event \in Event
  /\ pushes = 0 /\ inits = 0
  /\ delivered = <<>> /\ overwritten = FALSE

-----------------------------------------------------------------------------
(* The packet parser.  A packet is the length of the buffer it is in and    *)
(* the header fields the parser reads, each of which its sender chose.      *)

\* Arithmetic on size_t wraps.
SizeT(n) == n % SizeValues

IPv4Header == 20
TCPHeader == 20
ShortHeader == 8  \* UDPHeader and ICMPHeader

IPv4LengthUnchecked(p) ==
  /\ p.len >= IPv4Header
  /\ p.version = 4 /\ p.ihl >= 5
  /\ p.total >= p.ihl * 4

IPv4OK(p) ==
  /\ p.len >= IPv4Header
  /\ p.version = 4 /\ p.ihl >= 5
  /\ p.total >= p.ihl * 4 /\ p.len >= p.ihl * 4

\* Offset of the transport header, and what the buffer holds from there on.
Transport(p) == p.ihl * 4
TransportLen(p) == SizeT(p.len - Transport(p))

TCPOK(p) ==
  /\ TransportLen(p) >= TCPHeader
  /\ p.dataOffset >= 5
  /\ TransportLen(p) >= p.dataOffset * 4

TransportHeader(p) == IF p.protocol = "tcp" THEN p.dataOffset * 4 ELSE ShortHeader

Parsed(p) ==
  /\ IPv4OK(p)
  /\ CASE p.protocol = "tcp" -> TCPOK(p)
       [] p.protocol \in {"udp", "icmp"} -> TransportLen(p) >= ShortHeader
       [] OTHER -> FALSE

Payload(p) == Transport(p) + TransportHeader(p)
PayloadLength(p) == SizeT(TransportLen(p) - TransportHeader(p))

\* What the parser hands on: where things are in a buffer of len bytes.
Spans ==
  {[len |-> p.len, transport |-> Transport(p), payload |-> Payload(p),
    length |-> PayloadLength(p)] : p \in {q \in Packets : Parsed(q)}}

\* What the layer-7 heuristics may find: a payload of 4 bytes may begin with an
\* HTTP method, one of 5 hold a sled.
HTTPFound(n) == IF n >= 4 THEN BOOLEAN ELSE {FALSE}
SledFound(n) == IF n >= 5 THEN BOOLEAN ELSE {FALSE}
Heuristics == UNION {[sled : SledFound(s.length), http : HTTPFound(s.length)] : s \in Spans}

\* aegis_parse_packet; a packet that is refused leaves the event as it was.  If
\* both are found, the tier is HTTP's and the severity the sled's; a tier that
\* is not found is not written.
ParsePacket ==
  /\ \E found \in Heuristics :
       event' = [critical |-> found.sled,
                 kernel |-> ~found.http /\ (found.sled \/ event.kernel)]
  /\ UNCHANGED <<initialized, queue, defcon, bounds, history>>

\* A client may also fill the event by hand.
FillEvent ==
  /\ event' \in Event
  /\ UNCHANGED <<initialized, queue, defcon, bounds, history>>

-----------------------------------------------------------------------------
(* DefconAggregator *)

\* DefconAggregator::Calculate
LevelOf(c) ==
  CASE c.kernel > 0 \/ c.critical >= 10 \/ c.blocked >= 5 -> 1
    [] OTHER ->
       CASE c.critical >= 5 \/ c.blocked >= 3 -> 2
         [] OTHER ->
            CASE c.total >= 5 \/ c.critical >= 1 -> 3
              [] OTHER -> IF c.total >= 1 THEN 4 ELSE 5

One(b) == IF b THEN 1 ELSE 0

Counted(c, e) ==
  [c EXCEPT !.total = @ + 1, !.critical = @ + One(e.critical), !.kernel = @ + One(e.kernel)]

-----------------------------------------------------------------------------
(* The queue and the calls on it *)

NextSlot(i) == (i + 1) % Capacity

Start ==
  /\ ~initialized
  /\ inits < MaxInits
  /\ initialized' = TRUE
  /\ buffer' = [i \in Slot |-> Zeroed]
  /\ head' = 0 /\ tail' = 0 /\ count' = 0 /\ dropped' = 0
  /\ counters' = NoAlerts
  /\ inits' = inits + 1
  /\ overwritten' = FALSE
  /\ UNCHANGED <<level, event, pushes, delivered>>

\* The queue's memory goes and its fields stay; nothing reads them until a start.
Shutdown ==
  /\ initialized
  /\ initialized' = FALSE
  /\ delivered' = <<>>
  /\ UNCHANGED <<queue, defcon, event, bounds, overwritten>>

Refused == dropped' = dropped + 1 /\ UNCHANGED <<buffer, tail, count>>

Accepted ==
  /\ buffer' = [buffer EXCEPT ![tail] = event]
  /\ tail' = NextSlot(tail)
  /\ count' = count + 1
  /\ UNCHANGED dropped

CountsRefused ==
  /\ initialized
  /\ pushes < MaxPushes
  /\ pushes' = pushes + 1
  /\ IF count >= Capacity THEN Refused ELSE Accepted
  /\ counters' = Counted(counters, event)
  /\ level' = LevelOf(counters')
  /\ UNCHANGED <<initialized, head, event, inits, history>>

\* The aggregator sees only events the queue has taken.
PushEvent ==
  /\ initialized
  /\ pushes < MaxPushes
  /\ pushes' = pushes + 1
  /\ \/ count >= Capacity /\ Refused /\ UNCHANGED defcon
     \/ /\ count < Capacity
        /\ Accepted
        /\ counters' = Counted(counters, event)
        /\ level' = LevelOf(counters')
  /\ UNCHANGED <<initialized, head, event, inits, history>>

PopNewest ==
  /\ initialized
  /\ count # 0
  /\ event' = buffer[(tail - 1) % Capacity]
  /\ tail' = (tail - 1) % Capacity
  /\ count' = count - 1
  /\ delivered' = Append(delivered, event')
  /\ UNCHANGED <<initialized, buffer, head, dropped, defcon, bounds, overwritten>>

PopEvent ==
  /\ initialized
  /\ count # 0
  /\ event' = buffer[head]
  /\ head' = NextSlot(head)
  /\ count' = count - 1
  /\ delivered' = Append(delivered, buffer[head])
  /\ UNCHANGED <<initialized, buffer, tail, dropped, defcon, bounds, overwritten>>

\* aegis_bridge_get_defcon calculates, and so changes the level the label names.
GetDefcon ==
  /\ initialized
  /\ level' = LevelOf(counters)
  /\ UNCHANGED <<initialized, queue, counters, event, bounds, history>>

UpdateDefcon ==
  /\ initialized
  /\ counters' \in Updates
  /\ level' = LevelOf(counters')
  /\ overwritten' = TRUE
  /\ UNCHANGED <<initialized, queue, event, bounds, delivered>>

Next ==
  \/ Start \/ Shutdown
  \/ FillEvent \/ ParsePacket
  \/ PushEvent \/ PopEvent \/ GetDefcon \/ UpdateDefcon

Spec == Init /\ [][Next]_vars

-----------------------------------------------------------------------------
TypeOK ==
  /\ initialized \in BOOLEAN /\ overwritten \in BOOLEAN
  /\ buffer \in [Slot -> Event] /\ event \in Event
  /\ head \in Slot /\ tail \in Slot /\ count \in 0 .. Capacity
  /\ {dropped, pushes, inits} \subseteq Nat
  /\ counters \in Counters /\ level \in 1 .. 5
  /\ delivered \in Seq(Event)

Contents == [i \in 1 .. count |-> buffer[(head + i - 1) % Capacity]]

(* The queue implements the record queue: events leave once, in the order in *)
(* which they came, and one is dropped only while the queue is full.         *)
Fifo == INSTANCE RecordFifo
          WITH Records <- Event,
               queue <- IF initialized THEN Contents ELSE <<>>,
               dropped <- IF initialized THEN dropped ELSE 0
RefinesRecordFifo == Fifo!Spec

HowMany(s, Test(_)) == Quantify(DOMAIN s, LAMBDA i : Test(s[i]))

(* Until a client overwrites them, the counters behind the DEFCON level are  *)
(* those of the events the queue took: each is counted once, those that were *)
(* popped and those that wait, and one that was dropped is not.              *)
AlertsAreEvents ==
  initialized /\ ~overwritten =>
    LET taken == delivered \o Contents
    IN  counters = [critical |-> HowMany(taken, LAMBDA e : e.critical),
                    blocked |-> 0,
                    kernel |-> HowMany(taken, LAMBDA e : e.kernel),
                    total |-> Len(taken)]

(* The label of the last calculated level is that of the counters, except    *)
(* that a library started again keeps its old label until the first alert.   *)
LabelAgrees == initialized /\ counters.total # 0 => level = LevelOf(counters)

(* The level of alert and its label are what the events amount to.           *)
CountersAgree == TypeOK /\ AlertsAreEvents /\ LabelAgrees

(* Whatever lengths a packet's sender wrote into its headers, when a packet  *)
(* is parsed the headers and the payload the parser hands on lie inside the  *)
(* caller's buffer, one behind the other, and the payload's length has not   *)
(* wrapped.                                                                  *)
Inside(s) ==
  /\ IPv4Header <= s.transport
  /\ s.transport + ShortHeader <= s.payload
  /\ s.payload + s.length = s.len

SpansInsideBuffer == [][ParsePacket => \A s \in Spans : Inside(s)]_vars
=============================================================================

------------------------- MODULE ForensicRingProofs -------------------------
(***************************************************************************)
(* Proofs about ForensicRing: for a ring of any size, any sources, and any *)
(* number of events and requests, the chain of the retained records always *)
(* verifies and a search of the ring is exact.                             *)
(***************************************************************************)
EXTENDS ForensicRing, TLAPS

-----------------------------------------------------------------------------
(* Lemmas: positions and slots *)

LEMMA Remainder ==
  ASSUME NEW n \in Nat, NEW q \in Int, NEW r \in 0 .. Slots - 1, n = Slots * q + r
  PROVE  n % Slots = r
<1>1. Slots \in Nat /\ Slots > 0
  BY SlotsAssumption
<1> DEFINE p == n \div Slots
           m == n % Slots
<1>2. p \in Int /\ m \in 0 .. Slots - 1 /\ n = Slots * p + m
  BY <1>1
<1> HIDE DEF p, m
<1>3. r - m = Slots * (p - q)
  <2>1. r - m = Slots * p - Slots * q
    BY <1>1, <1>2
  <2>2. QED
    BY <2>1, <1>1, <1>2
<1>4. CASE p - q <= -1
  BY <1>1, <1>2, <1>3, <1>4
<1>5. CASE p - q >= 1
  BY <1>1, <1>2, <1>3, <1>5
<1>6. CASE p = q
  BY <1>1, <1>2, <1>3, <1>6
<1>7. QED
  BY <1>2, <1>4, <1>5, <1>6

(* Every position is at a slot, no further than itself. *)
LEMMA SlotOf ==
  ASSUME NEW n \in Nat
  PROVE  n % Slots \in Slot /\ n % Slots <= n
<1>1. Slots \in Nat /\ Slots > 0
  BY SlotsAssumption
<1>2. n % Slots \in Slot
  BY <1>1 DEF Slot
<1>3. CASE n < Slots
  <2>1. n = Slots * 0 + n /\ n \in 0 .. Slots - 1
    BY <1>1, <1>3
  <2>2. QED
    BY <2>1, <1>2, Remainder
<1>4. CASE n >= Slots
  BY <1>1, <1>2, <1>4 DEF Slot
<1>5. QED
  BY <1>1, <1>3, <1>4

(* In its first lap the ring fills its slots in order. *)
LEMMA FirstLap ==
  ASSUME NEW n \in Nat, n < Slots
  PROVE  n % Slots = n
<1>1. n = Slots * 0 + n /\ n \in 0 .. Slots - 1
  BY SlotsAssumption
<1>2. QED
  BY <1>1, Remainder

(* Positions a lap apart are at the same slot. *)
LEMMA LapApart ==
  ASSUME NEW n \in Nat
  PROVE  (n + Slots) % Slots = n % Slots
<1>1. Slots \in Nat /\ Slots > 0
  BY SlotsAssumption
<1> DEFINE p == n \div Slots
           m == n % Slots
<1>2. p \in Int /\ m \in 0 .. Slots - 1 /\ n = Slots * p + m
  BY <1>1
<1> HIDE DEF p, m
<1>3. n + Slots = Slots * (p + 1) + m
  BY <1>1, <1>2
<1>4. (n + Slots) % Slots = m
  BY <1>1, <1>2, <1>3, Remainder
<1>5. QED
  BY <1>4 DEF m

(* Positions at one slot, less than a lap apart, are the same. *)
LEMMA SamePosition ==
  ASSUME NEW a \in Nat, NEW b \in Nat, a % Slots = b % Slots,
         a < b + Slots, b < a + Slots
  PROVE  a = b
<1>1. Slots \in Nat /\ Slots > 0
  BY SlotsAssumption
<1> DEFINE p == a \div Slots
           q == b \div Slots
           m == a % Slots
<1>2. p \in Int /\ q \in Int /\ m \in Int /\ a = Slots * p + m /\ b = Slots * q + m
  BY <1>1
<1> HIDE DEF p, q, m
<1>3. b - a = Slots * (q - p)
  <2>1. b - a = Slots * q - Slots * p
    BY <1>1, <1>2
  <2>2. QED
    BY <2>1, <1>1, <1>2
<1>4. CASE q - p >= 1
  BY <1>1, <1>2, <1>3, <1>4
<1>5. CASE q - p <= -1
  BY <1>1, <1>2, <1>3, <1>5
<1>6. CASE q = p
  BY <1>2, <1>6
<1>7. QED
  BY <1>2, <1>4, <1>5, <1>6

-----------------------------------------------------------------------------
(* Type correctness *)

LEMMA HereIsSlot ==
  ASSUME TypeOK
  PROVE  Here \in Slot
BY SlotOf DEF TypeOK, Here

(* Embedding the hash, and then the CRC, changes nothing else of a record. *)
LEMMA EmbedInLiteral ==
  ASSUME NEW a, NEW b, NEW c, NEW d, NEW e, NEW f, NEW h
  PROVE  /\ [[seq |-> a, src |-> b, audit |-> c, prev |-> d, cur |-> e, crc |-> f] EXCEPT !.cur = h]
              = [seq |-> a, src |-> b, audit |-> c, prev |-> d, cur |-> h, crc |-> f]
         /\ [[seq |-> a, src |-> b, audit |-> c, prev |-> d, cur |-> e, crc |-> f] EXCEPT !.crc = h]
              = [seq |-> a, src |-> b, audit |-> c, prev |-> d, cur |-> e, crc |-> h]
OBVIOUS

LEMMA HashedRecord ==
  ASSUME NEW r, IsRecord(r), NEW h, NEW t, t = [r EXCEPT !.cur = h]
  PROVE  /\ IsRecord(t)
         /\ t.seq = r.seq /\ t.src = r.src /\ t.audit = r.audit
         /\ t.prev = r.prev /\ t.cur = h /\ t.crc = r.crc
<1> DEFINE a == r.seq
           b == r.src
           c == r.audit
           d == r.prev
           e == r.cur
           f == r.crc
<1>1. r = [seq |-> a, src |-> b, audit |-> c, prev |-> d, cur |-> e, crc |-> f]
  BY DEF IsRecord
<1>2. a \in Nat /\ b \in Sources /\ c \in Nat /\ f \in BOOLEAN
  BY DEF IsRecord
<1> HIDE DEF a, b, c, d, e, f
<1>3. t = [[seq |-> a, src |-> b, audit |-> c, prev |-> d, cur |-> e, crc |-> f] EXCEPT !.cur = h]
  BY <1>1, Zenon
<1>4. t = [seq |-> a, src |-> b, audit |-> c, prev |-> d, cur |-> h, crc |-> f]
  BY <1>3, EmbedInLiteral, Zenon
<1>5. t.seq = a /\ t.src = b /\ t.audit = c /\ t.prev = d /\ t.cur = h /\ t.crc = f
  BY <1>4
<1>6. IsRecord(t)
  BY <1>2, <1>4, <1>5 DEF IsRecord
<1>7. QED
  BY <1>5, <1>6 DEF a, b, c, d, e, f

LEMMA SealedRecord ==
  ASSUME NEW r, IsRecord(r), NEW t, t = [r EXCEPT !.crc = TRUE]
  PROVE  /\ IsRecord(t)
         /\ t.seq = r.seq /\ t.src = r.src /\ t.audit = r.audit
         /\ t.prev = r.prev /\ t.cur = r.cur /\ t.crc
<1> DEFINE a == r.seq
           b == r.src
           c == r.audit
           d == r.prev
           e == r.cur
           f == r.crc
<1>1. r = [seq |-> a, src |-> b, audit |-> c, prev |-> d, cur |-> e, crc |-> f]
  BY DEF IsRecord
<1>2. a \in Nat /\ b \in Sources /\ c \in Nat
  BY DEF IsRecord
<1> HIDE DEF a, b, c, d, e, f
<1>3. t = [[seq |-> a, src |-> b, audit |-> c, prev |-> d, cur |-> e, crc |-> f] EXCEPT !.crc = TRUE]
  BY <1>1, Zenon
<1>4. t = [seq |-> a, src |-> b, audit |-> c, prev |-> d, cur |-> e, crc |-> TRUE]
  BY <1>3, EmbedInLiteral, Zenon
<1>5. t.seq = a /\ t.src = b /\ t.audit = c /\ t.prev = d /\ t.cur = e /\ t.crc
  BY <1>4
<1>6. IsRecord(t)
  BY <1>2, <1>4, <1>5 DEF IsRecord
<1>7. QED
  BY <1>5, <1>6 DEF a, b, c, d, e

(* The types of the two variables every append rewrites. *)
LEMMA TypeOfStore ==
  ASSUME TypeOK, NEW r, IsRecord(r), store' = [store EXCEPT ![Here] = r]
  PROVE  /\ store' = [s \in Slot |-> store'[s]]
         /\ \A s \in Slot : IsRecord(store'[s])
         /\ store'[Here] = r
         /\ \A s \in Slot : s # Here => store'[s] = store[s]
<1>1. Here \in Slot /\ store = [s \in Slot |-> store[s]] /\ \A s \in Slot : IsRecord(store[s])
  BY HereIsSlot DEF TypeOK
<1>2. store' = [s \in Slot |-> IF s = Here THEN r ELSE store[s]]
  BY <1>1
<1>3. QED
  BY <1>1, <1>2

LEMMA TypeInit == Init => TypeOK
<1> SUFFICES ASSUME Init PROVE TypeOK
  OBVIOUS
<1>1. (CHOOSE s \in Sources : TRUE) \in Sources
  BY DEF Init
<1>2. IsRecord(Blank)
  BY <1>1 DEF IsRecord, Blank
<1>3. store = [s \in Slot |-> store[s]] /\ \A s \in Slot : IsRecord(store[s])
  BY <1>2 DEF Init
<1>4. log \in Seq([src : Sources, audit : Nat])
  BY DEF Init
<1>5. QED
  BY <1>3, <1>4 DEF Init, TypeOK, Threads, PipelineAt, ControlAt

LEMMA TypeStep == TypeOK /\ [Next]_vars => TypeOK'
<1> SUFFICES ASSUME TypeOK, [Next]_vars PROVE TypeOK'
  OBVIOUS
<1> USE DEF TypeOK, ring, replies, Threads, PipelineAt, ControlAt, AtPipeline, AtControl
<1>1. CASE LoadAuditId
  BY <1>1 DEF LoadAuditId, Load
<1>2. CASE LoadRequestId
  BY <1>2 DEF LoadRequestId, Load
<1>3. ASSUME NEW t \in Threads, Reread(t) PROVE TypeOK'
  BY <1>3 DEF Reread
<1>4. ASSUME NEW t \in Threads, Bump(t) PROVE TypeOK'
  BY <1>4 DEF Bump
<1>5. CASE Lock
  BY <1>5 DEF Lock
<1>6. ASSUME NEW src \in Sources, WriteSlot(src) PROVE TypeOK'
  <2> DEFINE r == [seq |-> nextSeq, src |-> src, audit |-> id["pipeline"],
                   prev |-> lastHash, cur |-> NoHash, crc |-> FALSE]
  <2>1. IsRecord(r)
    BY DEF IsRecord
  <2>2. store' = [store EXCEPT ![Here] = r]
    BY <1>6 DEF WriteSlot
  <2> HIDE DEF r
  <2>3. store' = [s \in Slot |-> store'[s]] /\ \A s \in Slot : IsRecord(store'[s])
    BY <2>1, <2>2, TypeOfStore
  <2>4. QED
    BY <1>6, <2>3 DEF WriteSlot
<1>7. CASE EmbedHash
  <2> DEFINE r == [store[Here] EXCEPT !.cur = Hash(store[Here])]
  <2>1. IsRecord(r)
    BY HereIsSlot, HashedRecord
  <2>2. store' = [store EXCEPT ![Here] = r]
    BY <1>7 DEF EmbedHash
  <2> HIDE DEF r
  <2>3. store' = [s \in Slot |-> store'[s]] /\ \A s \in Slot : IsRecord(store'[s])
    BY <2>1, <2>2, TypeOfStore
  <2>4. QED
    BY <1>7, <2>3 DEF EmbedHash
<1>8. CASE WriteCrc
  <2> DEFINE r == [store[Here] EXCEPT !.crc = TRUE]
  <2>1. IsRecord(r)
    BY HereIsSlot, SealedRecord
  <2>2. store' = [store EXCEPT ![Here] = r]
    BY <1>8 DEF WriteCrc
  <2> HIDE DEF r
  <2>3. store' = [s \in Slot |-> store'[s]] /\ \A s \in Slot : IsRecord(store'[s])
    BY <2>1, <2>2, TypeOfStore
  <2>4. QED
    BY <1>8, <2>3 DEF WriteCrc
<1>9. CASE Publish
  <2>1. store[Here].src \in Sources /\ store[Here].audit \in Nat
    BY HereIsSlot DEF IsRecord
  <2>2. log' \in Seq([src : Sources, audit : Nat])
    BY <1>9, <2>1 DEF Publish
  <2>3. QED
    BY <1>9, <2>2 DEF Publish
<1>10. CASE Verify
  BY <1>10 DEF Verify
<1>11. ASSUME NEW src \in Sources, StartSearch(src) PROVE TypeOK'
  <2>1. Oldest \in Nat
    BY SlotsAssumption DEF Oldest
  <2>2. QED
    BY <1>11, <2>1 DEF StartSearch
<1>12. CASE OtherRequest
  BY <1>12 DEF OtherRequest
<1>13. CASE Search
  <2>1. store[index % Slots].seq \in Nat
    BY SlotOf DEF IsRecord
  <2>2. QED
    BY <1>13, <2>1 DEF Search, Examine
<1>14. CASE EndSearch
  BY <1>14 DEF EndSearch
<1>15. CASE UNCHANGED vars
  BY <1>15 DEF vars
<1>16. QED
  BY <1>1, <1>2, <1>3, <1>4, <1>5, <1>6, <1>7, <1>8, <1>9, <1>10, <1>11,
     <1>12, <1>13, <1>14, <1>15 DEF Next, Pipeline, Control

(* TypeOK holds of every behaviour, for any ring size and any sources. *)
THEOREM TypeCorrect == Spec => []TypeOK
<1>1. QED
  BY TypeInit, TypeStep, PTL DEF Spec

-----------------------------------------------------------------------------
(***************************************************************************)
(* The inductive invariant.  A slot the ring has filled, and that append is*)
(* not in the middle of rewriting, holds a whole record: one of the last   *)
(* Slots, at its own slot, linked to the one before it if that one is still*)
(* there.                                                                  *)
(***************************************************************************)

Rewriting == pc["pipeline"] \in {"slotWritten", "hashed", "sealed"}

Filled(s) == s < written /\ ~(Rewriting /\ s = Here)

Counted == nextSeq = written /\ Len(log) = written

Whole(s) ==
    /\ store[s].seq < written
    /\ store[s].seq >= written - Slots
    /\ store[s].seq % Slots = s
    /\ store[s].src = log[store[s].seq + 1].src
    /\ store[s].crc
    /\ store[s].cur = Hash(store[s])

Linked(s, t) == store[t].seq = store[s].seq + 1 => store[t].prev = store[s].cur

LastLinked(s) == store[s].seq + 1 = written => lastHash = store[s].cur

\* The record being written.
Fresh ==
    /\ Rewriting => store[Here].seq = written /\ store[Here].prev = lastHash
    /\ pc["pipeline"] \in {"hashed", "sealed"} => store[Here].cur = Hash(store[Here])
    /\ pc["pipeline"] = "sealed" => store[Here].crc

RingInv ==
    /\ Counted
    /\ \A s \in Slot : Filled(s) => Whole(s) /\ LastLinked(s)
    /\ \A s, t \in Slot : Filled(s) /\ Filled(t) => Linked(s, t)
    /\ Fresh

\* What a running search has passed does not match.
Passed == \A i \in Retained : i < index => log[i + 1].src # query

SearchInv ==
    /\ index <= written
    /\ pc["control"] = "searching" => Passed

IInv == TypeOK /\ RingInv /\ SearchInv /\ ChainAlwaysVerifies

(* Every retained record is in its slot when the mutex is free. *)
LEMMA RetainedInSlot ==
  ASSUME TypeOK, RingInv, mutex = "free",
         NEW i \in Nat, i < written, i >= written - Slots
  PROVE  /\ i % Slots \in Slot
         /\ Filled(i % Slots)
         /\ store[i % Slots].seq = i
         /\ Whole(i % Slots)
<1>1. i % Slots \in Slot /\ i % Slots <= i /\ written \in Nat /\ Slots \in Nat
  BY SlotOf, SlotsAssumption DEF TypeOK
<1>2. ~Rewriting
  BY DEF TypeOK, Rewriting
<1>3. Filled(i % Slots)
  BY <1>1, <1>2 DEF Filled, Slot
<1>4. Whole(i % Slots)
  BY <1>1, <1>3 DEF RingInv
<1>5. store[i % Slots].seq \in Nat
  BY <1>1 DEF TypeOK, IsRecord
<1>6. store[i % Slots].seq = i
  BY <1>1, <1>4, <1>5, SamePosition, SlotsAssumption DEF Whole
<1>7. QED
  BY <1>1, <1>3, <1>4, <1>6

LEMMA RingInit == Init => RingInv /\ SearchInv /\ ChainAlwaysVerifies
<1> SUFFICES ASSUME Init PROVE RingInv /\ SearchInv /\ ChainAlwaysVerifies
  OBVIOUS
<1>1. \A s \in Slot : ~Filled(s)
  BY SlotsAssumption DEF Init, Filled, Slot
<1>2. Counted /\ Fresh
  BY DEF Init, Counted, Fresh, Rewriting, Threads
<1>3. SearchInv /\ ChainAlwaysVerifies
  BY DEF Init, SearchInv, Passed, ChainAlwaysVerifies, Threads
<1>4. QED
  BY <1>1, <1>2, <1>3 DEF RingInv

(* A step that leaves the ring and the pipeline thread's place alone, or   *)
(* only moves it outside append's writes, leaves the ring invariant.       *)
LEMMA RingUntouched ==
  ASSUME RingInv, UNCHANGED <<store, written, nextSeq, lastHash, log>>,
         \/ pc'["pipeline"] = pc["pipeline"]
         \/ ~Rewriting /\ pc'["pipeline"] \notin {"slotWritten", "hashed", "sealed"}
  PROVE  RingInv'
<1>1. Rewriting' = Rewriting
  BY DEF Rewriting
<1>2. Here' = Here
  BY DEF Here
<1>3. \A s \in Slot : Filled(s)' = Filled(s)
  BY <1>1, <1>2 DEF Filled
<1>4. \A s \in Slot : Whole(s)' = Whole(s) /\ LastLinked(s)' = LastLinked(s)
  BY DEF Whole, LastLinked, Hash
<1>5. \A s, t \in Slot : Linked(s, t)' = Linked(s, t)
  BY DEF Linked
<1>6. Counted'
  BY DEF RingInv, Counted
<1>7. Fresh'
  BY <1>1, <1>2 DEF RingInv, Fresh, Hash, Rewriting
<1>8. QED
  BY <1>3, <1>4, <1>5, <1>6, <1>7 DEF RingInv

(* Rewriting the slot at head leaves every other filled slot as it was.    *)
LEMMA RingRewritten ==
  ASSUME TypeOK, RingInv,
         NEW r, IsRecord(r), store' = [store EXCEPT ![Here] = r],
         UNCHANGED <<written, nextSeq, lastHash, log>>, Rewriting',
         Fresh'
  PROVE  RingInv'
<1>1. Here \in Slot /\ Here' = Here
  BY HereIsSlot DEF Here
<1>2. \A s \in Slot : s # Here => store'[s] = store[s]
  BY TypeOfStore
<1>3. ASSUME NEW s \in Slot, Filled(s)'
      PROVE  s # Here /\ Filled(s)
  BY <1>1, <1>3 DEF Filled
<1>4. \A s \in Slot : Filled(s)' => Whole(s)' /\ LastLinked(s)'
  BY <1>2, <1>3 DEF RingInv, Whole, LastLinked, Hash
<1>5. \A s, t \in Slot : Filled(s)' /\ Filled(t)' => Linked(s, t)'
  BY <1>2, <1>3 DEF RingInv, Linked
<1>6. Counted'
  BY DEF RingInv, Counted
<1>7. QED
  BY <1>4, <1>5, <1>6 DEF RingInv

LEMMA RingWriteSlot ==
  ASSUME TypeOK, RingInv, NEW src \in Sources, WriteSlot(src)
  PROVE  RingInv'
<1> DEFINE r == [seq |-> nextSeq, src |-> src, audit |-> id["pipeline"],
                 prev |-> lastHash, cur |-> NoHash, crc |-> FALSE]
<1>1. IsRecord(r) /\ r.seq = written /\ r.prev = lastHash
  BY DEF TypeOK, IsRecord, Threads, RingInv, Counted
<1>2. store' = [store EXCEPT ![Here] = r] /\ UNCHANGED <<written, nextSeq, lastHash, log>>
  BY DEF WriteSlot
<1> HIDE DEF r
<1>3. pc'["pipeline"] = "slotWritten"
  BY DEF WriteSlot, AtPipeline, TypeOK, Threads
<1>4. Rewriting' /\ Here' = Here
  BY <1>2, <1>3 DEF Rewriting, Here
<1>5. store'[Here] = r
  BY <1>1, <1>2, TypeOfStore
<1>6. Fresh'
  BY <1>1, <1>2, <1>3, <1>4, <1>5 DEF Fresh
<1>7. QED
  BY <1>1, <1>2, <1>4, <1>6, RingRewritten

LEMMA RingEmbedHash ==
  ASSUME TypeOK, RingInv, EmbedHash
  PROVE  RingInv'
<1> DEFINE r == [store[Here] EXCEPT !.cur = Hash(store[Here])]
<1>1. IsRecord(store[Here])
  BY HereIsSlot DEF TypeOK
<1>2. /\ IsRecord(r) /\ r.seq = store[Here].seq /\ r.prev = store[Here].prev
      /\ r.src = store[Here].src /\ r.audit = store[Here].audit
      /\ r.cur = Hash(store[Here])
  BY <1>1, HashedRecord
<1>3. r.cur = Hash(r)
  BY <1>2 DEF Hash
<1>4. store' = [store EXCEPT ![Here] = r] /\ UNCHANGED <<written, nextSeq, lastHash, log>>
  BY DEF EmbedHash
<1> HIDE DEF r
<1>5. pc["pipeline"] = "slotWritten" /\ pc'["pipeline"] = "hashed"
  BY DEF EmbedHash, AtPipeline, TypeOK, Threads
<1>6. Rewriting /\ Rewriting' /\ Here' = Here
  BY <1>4, <1>5 DEF Rewriting, Here
<1>7. store'[Here] = r
  BY <1>2, <1>4, TypeOfStore
<1>8. store[Here].seq = written /\ store[Here].prev = lastHash
  BY <1>6 DEF RingInv, Fresh
<1>9. Hash(store[Here])' = Hash(r)
  BY <1>6, <1>7 DEF Hash
<1>10. Fresh'
  BY <1>2, <1>3, <1>4, <1>5, <1>6, <1>7, <1>8, <1>9 DEF Fresh
<1>11. QED
  BY <1>2, <1>4, <1>6, <1>10, RingRewritten

LEMMA RingWriteCrc ==
  ASSUME TypeOK, RingInv, WriteCrc
  PROVE  RingInv'
<1> DEFINE r == [store[Here] EXCEPT !.crc = TRUE]
<1>1. IsRecord(store[Here])
  BY HereIsSlot DEF TypeOK
<1>2. /\ IsRecord(r) /\ r.seq = store[Here].seq /\ r.prev = store[Here].prev
      /\ r.src = store[Here].src /\ r.audit = store[Here].audit
      /\ r.cur = store[Here].cur /\ r.crc
  BY <1>1, SealedRecord
<1>3. Hash(r) = Hash(store[Here])
  BY <1>2 DEF Hash
<1>4. store' = [store EXCEPT ![Here] = r] /\ UNCHANGED <<written, nextSeq, lastHash, log>>
  BY DEF WriteCrc
<1> HIDE DEF r
<1>5. pc["pipeline"] = "hashed" /\ pc'["pipeline"] = "sealed"
  BY DEF WriteCrc, AtPipeline, TypeOK, Threads
<1>6. Rewriting /\ Rewriting' /\ Here' = Here
  BY <1>4, <1>5 DEF Rewriting, Here
<1>7. store'[Here] = r
  BY <1>2, <1>4, TypeOfStore
<1>8. store[Here].seq = written /\ store[Here].prev = lastHash /\ store[Here].cur = Hash(store[Here])
  BY <1>5, <1>6 DEF RingInv, Fresh
<1>9. Hash(store[Here])' = Hash(r)
  BY <1>6, <1>7 DEF Hash
<1>10. Fresh'
  BY <1>2, <1>3, <1>4, <1>5, <1>6, <1>7, <1>8, <1>9 DEF Fresh
<1>11. QED
  BY <1>2, <1>4, <1>6, <1>10, RingRewritten

LEMMA RingPublish ==
  ASSUME TypeOK, RingInv, Publish
  PROVE  RingInv'
<1>1. /\ store' = store /\ written' = written + 1 /\ nextSeq' = nextSeq + 1
      /\ lastHash' = store[Here].cur
      /\ log' = Append(log, [src |-> store[Here].src, audit |-> store[Here].audit])
      /\ pc["pipeline"] = "sealed" /\ pc'["pipeline"] = "idle"
  BY DEF Publish, AtPipeline, TypeOK, Threads
<1>2. Rewriting /\ ~Rewriting'
  BY <1>1 DEF Rewriting
<1>3. Here \in Slot /\ written \in Nat /\ Slots \in Nat /\ Slots > 0
  BY HereIsSlot, SlotsAssumption DEF TypeOK
<1>4. /\ store[Here].seq = written /\ store[Here].prev = lastHash
      /\ store[Here].cur = Hash(store[Here]) /\ store[Here].crc
  BY <1>1, <1>2 DEF RingInv, Fresh
<1>5. \A s \in Slot : store[s].seq \in Nat
  BY DEF TypeOK, IsRecord
<1>6. /\ Len(log') = written + 1
      /\ \A i \in 1 .. written : log'[i] = log[i]
      /\ log'[written + 1].src = store[Here].src
  BY <1>1, <1>3 DEF RingInv, Counted, TypeOK
<1>7. ASSUME NEW s \in Slot, Filled(s)', s # Here
      PROVE  Filled(s)
  <2>1. s < written + 1 /\ s < Slots /\ s \in Nat
    BY <1>1, <1>3, <1>7 DEF Filled, Slot
  <2>2. s # written
    BY <1>7, <2>1, FirstLap DEF Here
  <2>3. QED
    BY <1>3, <1>7, <2>1, <2>2 DEF Filled
<1>8. ASSUME NEW s \in Slot, Filled(s)', s # Here
      PROVE  Whole(s)' /\ LastLinked(s)' /\ store[s].seq < written /\ LastLinked(s)
  <2> DEFINE q == store[s].seq
  <2>1. Whole(s) /\ LastLinked(s) /\ q \in Nat
    BY <1>5, <1>7, <1>8 DEF RingInv
  <2>2. q + Slots # written
    BY <1>8, <2>1, LapApart DEF Whole, Here
  <2>3. q < written /\ q < written' /\ q >= written' - Slots /\ q + 1 # written'
    <3>1. q < written /\ q >= written - Slots
      BY <2>1 DEF Whole
    <3> HIDE DEF q
    <3>2. QED
      BY <1>1, <1>3, <2>1, <2>2, <3>1
  <2>4. log'[q + 1] = log[q + 1]
    BY <1>3, <1>6, <2>1, <2>3
  <2>5. QED
    BY <1>1, <2>1, <2>3, <2>4 DEF Whole, LastLinked, Hash
<1>9. ASSUME NEW s \in Slot, s = Here
      PROVE  Whole(s)' /\ LastLinked(s)'
  <2>1. /\ store[s].seq = written /\ store[s].crc /\ store[s].cur = Hash(store[s])
        /\ lastHash' = store[s].cur /\ log'[written + 1].src = store[s].src
        /\ written % Slots = s
    BY <1>1, <1>4, <1>6, <1>9 DEF Here
  <2>2. written < written' /\ written >= written' - Slots
    BY <1>1, <1>3
  <2>3. QED
    BY <1>1, <2>1, <2>2 DEF Whole, LastLinked, Hash
<1>10. \A s \in Slot : Filled(s)' => Whole(s)' /\ LastLinked(s)'
  BY <1>8, <1>9
<1>11. ASSUME NEW s \in Slot, NEW t \in Slot, Filled(s)', Filled(t)',
              store[t].seq = store[s].seq + 1
       PROVE  store[t].prev = store[s].cur
  <2>1. s # Here
    BY <1>3, <1>4, <1>5, <1>8, <1>11
  <2>2. CASE t = Here
    BY <1>4, <1>8, <1>11, <2>1, <2>2 DEF LastLinked
  <2>3. CASE t # Here
    BY <1>7, <1>11, <2>1, <2>3 DEF RingInv, Linked
  <2>4. QED
    BY <2>2, <2>3
<1>12. \A s, t \in Slot : Filled(s)' /\ Filled(t)' => Linked(s, t)'
  BY <1>1, <1>11 DEF Linked
<1>13. Counted' /\ Fresh'
  BY <1>1, <1>2, <1>6 DEF RingInv, Counted, Fresh
<1>14. QED
  BY <1>10, <1>12, <1>13 DEF RingInv

LEMMA RingStep == TypeOK /\ RingInv /\ [Next]_vars => RingInv'
<1> SUFFICES ASSUME TypeOK, RingInv, [Next]_vars PROVE RingInv'
  OBVIOUS
<1> USE DEF ring, replies, Threads, AtPipeline, AtControl
<1>1. CASE LoadAuditId
  BY <1>1, RingUntouched DEF LoadAuditId, Load, Rewriting, TypeOK
<1>2. CASE LoadRequestId
  <2>1. UNCHANGED <<store, written, nextSeq, lastHash, log>>
    BY <1>2 DEF LoadRequestId, Load, TypeOK
  <2>2. pc'["pipeline"] = pc["pipeline"]
    BY <1>2 DEF LoadRequestId, Load, TypeOK
  <2>3. QED
    BY <2>1, <2>2, RingUntouched
<1>3. ASSUME NEW t \in Threads, Reread(t) PROVE RingInv'
  <2>1. UNCHANGED <<store, written, nextSeq, lastHash, log>>
    BY <1>3 DEF Reread, Rewriting, TypeOK
  <2>2. \/ pc'["pipeline"] = pc["pipeline"]
        \/ ~Rewriting /\ pc'["pipeline"] \notin {"slotWritten", "hashed", "sealed"}
    BY <1>3 DEF Reread, Rewriting, TypeOK
  <2>3. QED
    BY <2>1, <2>2, RingUntouched
<1>4. ASSUME NEW t \in Threads, Bump(t) PROVE RingInv'
  <2>1. UNCHANGED <<store, written, nextSeq, lastHash, log>>
    BY <1>4 DEF Bump, Rewriting, TypeOK
  <2>2. \/ pc'["pipeline"] = pc["pipeline"]
        \/ ~Rewriting /\ pc'["pipeline"] \notin {"slotWritten", "hashed", "sealed"}
    BY <1>4 DEF Bump, Rewriting, TypeOK
  <2>3. QED
    BY <2>1, <2>2, RingUntouched
<1>5. CASE Lock
  BY <1>5, RingUntouched DEF Lock, Rewriting, TypeOK
<1>6. ASSUME NEW src \in Sources, WriteSlot(src) PROVE RingInv'
  BY <1>6, RingWriteSlot
<1>7. CASE EmbedHash
  BY <1>7, RingEmbedHash
<1>8. CASE WriteCrc
  BY <1>8, RingWriteCrc
<1>9. CASE Publish
  BY <1>9, RingPublish
<1>10. CASE Verify
  <2>1. UNCHANGED <<store, written, nextSeq, lastHash, log>>
    BY <1>10 DEF Verify, TypeOK
  <2>2. pc'["pipeline"] = pc["pipeline"]
    BY <1>10 DEF Verify, TypeOK
  <2>3. QED
    BY <2>1, <2>2, RingUntouched
<1>11. ASSUME NEW src \in Sources, StartSearch(src) PROVE RingInv'
  <2>1. UNCHANGED <<store, written, nextSeq, lastHash, log>>
    BY <1>11 DEF StartSearch, TypeOK
  <2>2. pc'["pipeline"] = pc["pipeline"]
    BY <1>11 DEF StartSearch, TypeOK
  <2>3. QED
    BY <2>1, <2>2, RingUntouched
<1>12. CASE OtherRequest
  <2>1. UNCHANGED <<store, written, nextSeq, lastHash, log>>
    BY <1>12 DEF OtherRequest, TypeOK
  <2>2. pc'["pipeline"] = pc["pipeline"]
    BY <1>12 DEF OtherRequest, TypeOK
  <2>3. QED
    BY <2>1, <2>2, RingUntouched
<1>13. CASE Search
  <2>1. UNCHANGED <<store, written, nextSeq, lastHash, log>>
    BY <1>13 DEF Search, Examine, TypeOK
  <2>2. pc'["pipeline"] = pc["pipeline"]
    BY <1>13 DEF Search, Examine, TypeOK
  <2>3. QED
    BY <2>1, <2>2, RingUntouched
<1>14. CASE EndSearch
  <2>1. UNCHANGED <<store, written, nextSeq, lastHash, log>>
    BY <1>14 DEF EndSearch, TypeOK
  <2>2. pc'["pipeline"] = pc["pipeline"]
    BY <1>14 DEF EndSearch, TypeOK
  <2>3. QED
    BY <2>1, <2>2, RingUntouched
<1>15. CASE UNCHANGED vars
  <2>1. UNCHANGED <<store, written, nextSeq, lastHash, log>>
    BY <1>15 DEF vars
  <2>2. pc'["pipeline"] = pc["pipeline"]
    BY <1>15 DEF vars
  <2>3. QED
    BY <2>1, <2>2, RingUntouched
<1>16. QED
  BY <1>1, <1>2, <1>3, <1>4, <1>5, <1>6, <1>7, <1>8, <1>9, <1>10, <1>11,
     <1>12, <1>13, <1>14, <1>15 DEF Next, Pipeline, Control

(* While the mutex is free the chain of the retained records verifies.     *)
LEMMA ChainHolds ==
  ASSUME TypeOK, RingInv, mutex = "free"
  PROVE  HashChainVerifies
<1>1. written \in Nat /\ Slots \in Nat /\ Slots > 0
  BY SlotsAssumption DEF TypeOK
<1>2. Oldest \in Nat /\ Oldest >= written - Slots
  BY <1>1 DEF Oldest
<1>3. ASSUME NEW i \in Oldest .. written - 1
      PROVE  /\ store[i % Slots].crc
             /\ store[i % Slots].cur = Hash(store[i % Slots])
             /\ i > Oldest => store[i % Slots].prev = store[(i - 1) % Slots].cur
  <2>1. i \in Nat /\ i < written /\ i >= written - Slots
    BY <1>1, <1>2
  <2>2. Whole(i % Slots) /\ Filled(i % Slots) /\ i % Slots \in Slot /\ store[i % Slots].seq = i
    BY <2>1, RetainedInSlot
  <2>3. ASSUME i > Oldest
        PROVE  store[i % Slots].prev = store[(i - 1) % Slots].cur
    <3>1. i - 1 \in Nat /\ i - 1 < written /\ i - 1 >= written - Slots
      BY <1>1, <1>2, <2>1, <2>3
    <3>2. /\ Filled((i - 1) % Slots) /\ (i - 1) % Slots \in Slot
          /\ store[(i - 1) % Slots].seq = i - 1
      BY <3>1, RetainedInSlot
    <3>3. Linked((i - 1) % Slots, i % Slots)
      BY <2>2, <3>2 DEF RingInv
    <3>4. QED
      BY <2>1, <2>2, <3>2, <3>3 DEF Linked
  <2>4. QED
    BY <2>2, <2>3 DEF Whole
<1>4. QED
  BY <1>3 DEF HashChainVerifies

LEMMA ChainStep ==
  ASSUME TypeOK, RingInv, ChainAlwaysVerifies, [Next]_vars
  PROVE  ChainAlwaysVerifies'
<1>1. CASE Verify
  BY <1>1, ChainHolds DEF Verify, ChainAlwaysVerifies
<1>2. CASE ~Verify
  <2>1. verdict' = verdict
    BY <1>2 DEF Next, Pipeline, Control, LoadAuditId, LoadRequestId, Load, Reread, Bump,
       Lock, WriteSlot, EmbedHash, WriteCrc, Publish, StartSearch, OtherRequest, Search,
       Examine, EndSearch, vars, replies
  <2>2. QED
    BY <2>1 DEF ChainAlwaysVerifies
<1>3. QED
  BY <1>1, <1>2

(* What a search finds at its position, when it holds the mutex.           *)
LEMMA SearchSees ==
  ASSUME TypeOK, RingInv, mutex = "free", index < written
  PROVE  LET r == store[index % Slots] IN
         /\ r.crc
         /\ r.seq \in Retained
         /\ r.src = log[r.seq + 1].src
         /\ index \in Retained => r.seq = index
<1>1. written \in Nat /\ Slots \in Nat /\ Slots > 0 /\ index \in Nat /\ Len(log) = written
  BY SlotsAssumption DEF TypeOK, RingInv, Counted
<1>2. index % Slots \in Slot /\ index % Slots < written
  BY <1>1, SlotOf DEF Slot
<1>3. Filled(index % Slots)
  BY <1>2 DEF Filled, Rewriting, TypeOK
<1>4. Whole(index % Slots) /\ store[index % Slots].seq \in Nat
  BY <1>2, <1>3 DEF RingInv, TypeOK, IsRecord
<1>5. ASSUME index \in Retained
      PROVE  store[index % Slots].seq = index
  BY <1>1, <1>5, RetainedInSlot DEF Retained
<1>6. QED
  BY <1>1, <1>4, <1>5 DEF Whole, Retained

LEMMA SearchStep ==
  ASSUME TypeOK, RingInv, SearchInv, [Next]_vars
  PROVE  SearchInv'
<1>1. written \in Nat /\ Slots \in Nat /\ Slots > 0 /\ index \in Nat /\ Len(log) = written
  BY SlotsAssumption DEF TypeOK, RingInv, Counted
<1> USE DEF ring, replies, Threads, AtPipeline, AtControl
<1>2. ASSUME UNCHANGED <<written, log, index, query>>,
             pc'["control"] = "searching" => pc["control"] = "searching"
      PROVE  SearchInv'
  BY <1>2 DEF SearchInv, Passed, Retained
<1>3. CASE LoadAuditId
  BY <1>2, <1>3 DEF LoadAuditId, Load, TypeOK
<1>4. CASE LoadRequestId
  BY <1>2, <1>4 DEF LoadRequestId, Load, TypeOK
<1>5. ASSUME NEW t \in Threads, Reread(t) PROVE SearchInv'
  BY <1>2, <1>5 DEF Reread, TypeOK
<1>6. ASSUME NEW t \in Threads, Bump(t) PROVE SearchInv'
  BY <1>2, <1>6 DEF Bump, TypeOK
<1>7. CASE Lock
  BY <1>2, <1>7 DEF Lock, TypeOK
<1>8. ASSUME NEW src \in Sources, WriteSlot(src) PROVE SearchInv'
  BY <1>2, <1>8 DEF WriteSlot, TypeOK
<1>9. CASE EmbedHash
  BY <1>2, <1>9 DEF EmbedHash, TypeOK
<1>10. CASE WriteCrc
  BY <1>2, <1>10 DEF WriteCrc, TypeOK
<1>11. CASE Publish
  <2>1. /\ written' = written + 1 /\ index' = index /\ query' = query
        /\ log' = Append(log, [src |-> store[Here].src, audit |-> store[Here].audit])
        /\ pc'["control"] = pc["control"]
    BY <1>11 DEF Publish, TypeOK
  <2>2. Len(log') = written + 1 /\ \A i \in 1 .. written : log'[i] = log[i]
    BY <1>1, <2>1 DEF TypeOK
  <2>3. index' <= written'
    BY <1>1, <2>1 DEF SearchInv
  <2>4. ASSUME Passed, NEW i \in 0 .. Len(log') - 1, i >= Len(log') - Slots, i < index'
        PROVE  log'[i + 1].src # query'
    <3>1. i \in Retained /\ i < index /\ i + 1 \in 1 .. written
      BY <1>1, <2>1, <2>2, <2>4 DEF Retained, SearchInv
    <3>2. QED
      BY <2>1, <2>2, <2>4, <3>1 DEF Passed
  <2>5. Passed => Passed'
    BY <2>4 DEF Passed, Retained
  <2>6. QED
    BY <2>1, <2>3, <2>5 DEF SearchInv
<1>12. CASE Verify
  BY <1>2, <1>12 DEF Verify, TypeOK
<1>13. ASSUME NEW src \in Sources, StartSearch(src) PROVE SearchInv'
  <2>1. index' = Oldest /\ written' = written /\ log' = log
    BY <1>13 DEF StartSearch
  <2>2. Oldest \in Nat /\ Oldest <= written /\ \A i \in Retained : i >= Oldest
    BY <1>1 DEF Oldest, Retained
  <2>3. Passed' /\ index' <= written'
    BY <1>1, <2>1, <2>2 DEF Passed, Retained
  <2>4. QED
    BY <2>3 DEF SearchInv
<1>14. CASE OtherRequest
  BY <1>2, <1>14 DEF OtherRequest, TypeOK
<1>15. CASE Search
  <2> DEFINE r == store[index % Slots]
  <2>1. /\ mutex = "free" /\ index < written /\ pc["control"] = "searching"
        /\ UNCHANGED <<written, log, query>>
    BY <1>15 DEF Search, Examine
  <2>2. /\ r.crc /\ r.src = log[r.seq + 1].src
        /\ index \in Retained => r.seq = index
    BY <2>1, SearchSees
  <2> HIDE DEF r
  <2>3. CASE r.src = query
    <3>1. index' = index /\ pc'["control"] = "idle"
      BY <1>15, <2>2, <2>3 DEF Search, Examine, TypeOK, r
    <3>2. QED
      BY <1>2, <2>1, <3>1
  <2>4. CASE r.src # query
    <3>1. index' = index + 1
      BY <1>15, <2>2, <2>4 DEF Search, Examine, r
    <3>2. Passed
      BY <2>1 DEF SearchInv
    <3>3. ASSUME NEW i \in Retained, i < index + 1
          PROVE  log[i + 1].src # query
      <4>1. i \in Nat
        BY <1>1 DEF Retained
      <4>2. CASE i < index
        BY <3>2, <4>2 DEF Passed
      <4>3. CASE i = index
        BY <2>2, <2>4, <4>3
      <4>4. QED
        BY <1>1, <3>3, <4>1, <4>2, <4>3
    <3>4. Passed'
      BY <2>1, <3>1, <3>3 DEF Passed, Retained
    <3>5. QED
      BY <1>1, <2>1, <3>1, <3>4 DEF SearchInv
  <2>5. QED
    BY <2>3, <2>4
<1>16. CASE EndSearch
  BY <1>2, <1>16 DEF EndSearch, TypeOK
<1>17. CASE UNCHANGED vars
  BY <1>2, <1>17 DEF vars
<1>18. QED
  BY <1>3, <1>4, <1>5, <1>6, <1>7, <1>8, <1>9, <1>10, <1>11, <1>12, <1>13,
     <1>14, <1>15, <1>16, <1>17 DEF Next, Pipeline, Control

-----------------------------------------------------------------------------
(* Theorems *)

LEMMA Invariance == Spec => []IInv
<1>1. Init => IInv
  BY TypeInit, RingInit DEF IInv
<1>2. IInv /\ [Next]_vars => IInv'
  BY TypeStep, RingStep, SearchStep, ChainStep DEF IInv
<1>3. QED
  BY <1>1, <1>2, PTL DEF Spec

(* forensics.verify never reports a broken chain on a ring of any size,    *)
(* however many records are appended and overwritten around it.            *)
THEOREM ChainIsSound == Spec => []ChainAlwaysVerifies
<1>1. IInv => ChainAlwaysVerifies
  BY DEF IInv
<1>2. QED
  BY <1>1, Invariance, PTL

(* What one step may report of a search.                                   *)
LEMMA ExactStep ==
  ASSUME TypeOK, RingInv, SearchInv, [Next]_vars, answer # answer'
  PROVE  /\ answer' = "noMatch" => \A i \in Retained : log[i + 1].src # query
         /\ answer' = "match" => found' \in Retained /\ log[found' + 1].src = query
<1>1. CASE Search
  <2> DEFINE r == store[index % Slots]
  <2>1. mutex = "free" /\ index < written
    BY <1>1 DEF Search
  <2>2. r.crc /\ r.seq \in Retained /\ r.src = log[r.seq + 1].src
    BY <2>1, SearchSees
  <2> HIDE DEF r
  <2>3. r.src = query /\ answer' = "match" /\ found' = r.seq
    BY <1>1, <2>2 DEF Search, Examine, r
  <2>4. QED
    BY <2>2, <2>3
<1>2. CASE EndSearch
  <2>1. pc["control"] = "searching" /\ index >= written /\ answer' = "noMatch"
    BY <1>2 DEF EndSearch, AtControl
  <2>2. Len(log) = written /\ written \in Nat /\ index \in Nat
    BY DEF TypeOK, RingInv, Counted
  <2>3. Passed /\ \A i \in Retained : i < index
    BY <2>1, <2>2 DEF SearchInv, Retained
  <2>4. QED
    BY <2>1, <2>3 DEF Passed
<1>3. CASE ~Search /\ ~EndSearch
  <2>1. answer' = "none"
    BY <1>3 DEF Next, Pipeline, Control, LoadAuditId, LoadRequestId, Load, Reread, Bump,
       Lock, WriteSlot, EmbedHash, WriteCrc, Publish, Verify, StartSearch, OtherRequest,
       vars, replies
  <2>2. QED
    BY <2>1
<1>4. QED
  BY <1>1, <1>2, <1>3

(* A search of a ring of any size misses nothing the ring still holds when *)
(* it ends, and reports only a retained record that matches.               *)
THEOREM SearchIsSound == Spec => SearchIsExact
<1> DEFINE Exact ==
      /\ answer # answer' /\ answer' = "noMatch"
           => \A i \in Retained : log[i + 1].src # query
      /\ answer # answer' /\ answer' = "match"
           => found' \in Retained /\ log[found' + 1].src = query
<1>1. IInv /\ [Next]_vars => [Exact]_vars
  BY ExactStep DEF IInv
<1>2. QED
  BY <1>1, Invariance, PTL DEF Spec, SearchIsExact
=============================================================================

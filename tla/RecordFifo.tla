----------------------------- MODULE RecordFifo -----------------------------
(***************************************************************************)
(* What a driver's event ring promises the two sides of it: records leave  *)
(* whole, once, in the order in which they came; a record is dropped, and  *)
(* counted, only while the ring holds as many as it can; what is left when *)
(* the ring goes away is gone.                                             *)
(***************************************************************************)
EXTENDS Naturals, Sequences

CONSTANTS
  Records,  \* what a callback may report
  Capacity  \* records the ring can hold

VARIABLES
  queue,      \* accepted and not yet read, oldest first
  delivered,  \* everything read since the ring was made, in order
  dropped     \* how many records were refused since then

vars == <<queue, delivered, dropped>>

Init == queue = <<>> /\ delivered = <<>> /\ dropped = 0

Put(r) ==
  /\ Len(queue) < Capacity
  /\ queue' = Append(queue, r)
  /\ UNCHANGED <<delivered, dropped>>

Drop ==
  /\ Len(queue) = Capacity
  /\ dropped' = dropped + 1
  /\ UNCHANGED <<queue, delivered>>

Take(n) ==
  /\ n <= Len(queue)
  /\ queue' = SubSeq(queue, n + 1, Len(queue))
  /\ delivered' = delivered \o SubSeq(queue, 1, n)
  /\ UNCHANGED dropped

Discard == queue' = <<>> /\ delivered' = <<>> /\ dropped' = 0

Next ==
  \/ \E r \in Records : Put(r)
  \/ Drop
  \/ \E n \in 1 .. Capacity : Take(n)
  \/ Discard

Spec == Init /\ [][Next]_vars
=============================================================================

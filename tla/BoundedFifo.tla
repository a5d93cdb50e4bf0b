----------------------------- MODULE BoundedFifo -----------------------------
(***************************************************************************)
(* What the pipeline's event queue promises its callers, with nothing of   *)
(* how it keeps the promise: accepted events leave in the order in which   *)
(* they were accepted, each of them once; an event is refused only at a    *)
(* moment when the queue holds Size events.                                *)
(***************************************************************************)
EXTENDS Naturals, Sequences

CONSTANTS
  Events,  \* what a sensor may push
  Size     \* PIPELINE_QUEUE_SIZE

VARIABLES
  q,          \* accepted and not yet popped, oldest first
  delivered,  \* everything popped so far, in order
  refused     \* how many pushes were refused

vars == <<q, delivered, refused>>

Init ==
  /\ q = <<>>
  /\ delivered = <<>>
  /\ refused = 0

Put(e) ==
  /\ Len(q) < Size
  /\ q' = Append(q, e)
  /\ UNCHANGED <<delivered, refused>>

Refuse ==
  /\ Len(q) = Size
  /\ refused' = refused + 1
  /\ UNCHANGED <<q, delivered>>

Get ==
  /\ q # <<>>
  /\ q' = Tail(q)
  /\ delivered' = Append(delivered, Head(q))
  /\ UNCHANGED refused

Next ==
  \/ \E e \in Events : Put(e)
  \/ Refuse
  \/ Get

Spec == Init /\ [][Next]_vars
=============================================================================

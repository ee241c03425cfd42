------------------------------- MODULE RxFifo -------------------------------
(***************************************************************************)
(* What the receive half of the NIC driver promises to the network stack,  *)
(* with no descriptor, interrupt or tasklet in sight: the frames the NIC   *)
(* accepts are numbered 1, 2, 3 ...; they leave in that order, each        *)
(* exactly once, either to the stack (a good frame) or to the error        *)
(* counter (a frame the NIC flagged); and at most Capacity of them wait.   *)
(* NicRx is shown to implement this specification.                         *)
(***************************************************************************)
EXTENDS Integers, Sequences

CONSTANTS
  Capacity,   \* frames that may wait between the wire and the stack
  MaxFrames   \* bound on the frames a run accepts

VARIABLES
  traffic,    \* traffic[n]: is the n-th accepted frame good?
  stored,     \* number of frames accepted from the wire
  delivered,  \* the good frames handed to the stack, in order
  rxErrors    \* frames counted as errors

vars == <<traffic, stored, delivered, rxErrors>>

\* Number of frames that left the FIFO, one way or the other.
Left == Len(delivered) + rxErrors

Init ==
  /\ traffic \in [1..MaxFrames -> BOOLEAN]
  /\ stored = 0
  /\ delivered = << >>
  /\ rxErrors = 0

Accept ==
  /\ stored < MaxFrames
  /\ stored - Left < Capacity
  /\ stored' = stored + 1
  /\ UNCHANGED <<traffic, delivered, rxErrors>>

DeliverGood ==
  /\ Left < stored
  /\ traffic[Left + 1]
  /\ delivered' = Append(delivered, Left + 1)
  /\ UNCHANGED <<traffic, stored, rxErrors>>

CountBad ==
  /\ Left < stored
  /\ ~traffic[Left + 1]
  /\ rxErrors' = rxErrors + 1
  /\ UNCHANGED <<traffic, stored, delivered>>

Next == Accept \/ DeliverGood \/ CountBad

Spec == Init /\ [][Next]_vars
=============================================================================

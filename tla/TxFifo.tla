------------------------------- MODULE TxFifo -------------------------------
(***************************************************************************)
(* What the transmit half of the NIC driver promises: the frames it        *)
(* accepts go out in the order they were submitted, each once, with at     *)
(* most Capacity of them waiting, and a frame is refused for lack of a     *)
(* descriptor only when Capacity frames really wait.  NicTx is shown to    *)
(* implement this specification.                                           *)
(***************************************************************************)
EXTENDS Integers, Sequences

CONSTANTS
  Capacity,   \* frames that may wait for the wire
  MaxFrames   \* bound on the frames submitted in a run

VARIABLES
  accepted,   \* frames accepted, in order
  wire,       \* frames sent, in order
  refused     \* frames refused for lack of a descriptor

vars == <<accepted, wire, refused>>

Waiting == Len(accepted) - Len(wire)

Init ==
  /\ accepted = << >>
  /\ wire = << >>
  /\ refused = {}

Accept ==
  /\ Waiting < Capacity
  /\ \E n \in 1..MaxFrames :
       /\ \A i \in DOMAIN accepted : accepted[i] < n
       /\ n \notin refused
       /\ accepted' = Append(accepted, n)
  /\ UNCHANGED <<wire, refused>>

Refuse ==
  /\ Waiting = Capacity
  /\ \E n \in 1..MaxFrames :
       /\ \A i \in DOMAIN accepted : accepted[i] # n
       /\ n \notin refused
       /\ refused' = refused \cup {n}
  /\ UNCHANGED <<accepted, wire>>

Send ==
  /\ Waiting > 0
  /\ wire' = Append(wire, accepted[Len(wire) + 1])
  /\ UNCHANGED <<accepted, refused>>

Next == Accept \/ Refuse \/ Send

Spec == Init /\ [][Next]_vars
=============================================================================

----------------------------- MODULE MCRingFifo -----------------------------
(* RingFifo with four slots and two frames: the ring fills, empties, wraps  *)
(* and drops, and two frames are enough to tell an order from another.      *)
EXTENDS RingFifo
CONSTANTS f1, f2
MCFrames == {f1, f2}
MCNMAX == 4
=============================================================================

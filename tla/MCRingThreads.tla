---------------------------- MODULE MCRingThreads ----------------------------
(* Three slots, so that the ring is empty, part full and full; seven frames, *)
(* two full turns of the ring and one more after two lost updates.           *)
EXTENDS RingThreads
MCNMAX == 3
MCMaxFrames == 7
=============================================================================

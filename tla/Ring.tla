-------------------------------- MODULE Ring --------------------------------
(***************************************************************************)
(* What the ring of src/rtsp/ringfifo.c has however it is run: its slots,  *)
(* its three counters and the step from one slot to the next.  RingFifo    *)
(* runs it one call at a time, RingThreads with two threads and no lock.   *)
(***************************************************************************)
EXTENDS Integers

CONSTANT NMAX         \* the number of slots (32 in the code)

ASSUME RingAssumption == NMAX \in Nat \ {0}

VARIABLES iput,       \* the slot the next frame is copied to
          iget,       \* the slot the next frame is taken from
          n           \* the number of frames in the ring

Slots == 0 .. NMAX - 1

\* Faulty variant of addring: the slot after the last one is off the ring.
addring_NoWrap(i) == i + 1

addring(i) == IF i + 1 = NMAX THEN 0 ELSE i + 1
=============================================================================

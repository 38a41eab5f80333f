----------------------------- MODULE FrameQueue -----------------------------
(***************************************************************************)
(* What the video ring of src/rtsp/ringfifo.c promises the two threads     *)
(* that use it: a bounded first-in first-out queue of encoded frames that  *)
(* drops the frame offered to it when it is full.  The module knows        *)
(* nothing of slots, indices or counters; RingFifo implements it.          *)
(***************************************************************************)
EXTENDS Naturals, Sequences

CONSTANTS Frames,     \* the encoded frames
          NoFrame,    \* what a taker gets from an empty queue
          Capacity    \* the number of frames the queue holds

VARIABLES queue,      \* the frames waiting to be sent, the oldest first
          taken       \* the outcome of the latest Take

vars == <<queue, taken>>

Init == /\ queue = <<>>
        /\ taken = NoFrame

\* A frame is appended, or lost when there is no room: the writer never waits.
Put(f) == /\ queue' = IF Len(queue) < Capacity THEN Append(queue, f) ELSE queue
          /\ UNCHANGED taken

\* The oldest frame leaves the queue.
Take == /\ queue # <<>>
        /\ taken' = Head(queue)
        /\ queue' = Tail(queue)

\* A taker that finds the queue empty learns so and does not wait either.
TakeNothing == /\ queue = <<>>
               /\ taken' = NoFrame
               /\ UNCHANGED queue

Next == \/ \E f \in Frames : Put(f)
        \/ Take
        \/ TakeNothing

Spec == Init /\ [][Next]_vars
=============================================================================

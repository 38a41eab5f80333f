------------------------------ MODULE RingFifo ------------------------------
(***************************************************************************)
(* The ring of src/rtsp/ringfifo.c, one call at a time.  The frames of the *)
(* encoder are copied into the slot iput by HisiPutH264DataToBuffer and    *)
(* handed out from the slot iget by ringget; n counts the frames between.  *)
(*                                                                         *)
(* A call is one step here: this is the data structure, and the statement  *)
(* that it is a queue.  RingThreads has the same code with the two threads *)
(* that run it, statement by statement and without a lock.                 *)
(*                                                                         *)
(* A slot is the frame copied into it; NoFrame is the slot of size 0 that  *)
(* ringmalloc leaves.  ringput has the guard and the assignments of        *)
(* HisiPutH264DataToBuffer; ringput, ringreset and ringfree are never      *)
(* called while the program runs, and are not steps.                       *)
(***************************************************************************)
EXTENDS Ring, Sequences

CONSTANTS Frames,     \* the encoded frames, each of a size above 0
          NoFrame     \* the content of a slot nothing was copied to

ASSUME FifoAssumption == NoFrame \notin Frames

VARIABLES ringfifo,   \* the slots
          getinfo     \* the frame the latest ringget returned, NoFrame for 0

fifoVars == <<ringfifo, iput, iget, n, getinfo>>

\* ringmalloc
FifoInit == /\ ringfifo = [i \in Slots |-> NoFrame]
            /\ iput = 0
            /\ iget = 0
            /\ n = 0
            /\ getinfo = NoFrame

HisiPutH264DataToBuffer(f) ==
    /\ n < NMAX
    /\ ringfifo' = [ringfifo EXCEPT ![iput] = f]
    /\ iput' = addring(iput)
    /\ n' = n + 1
    /\ UNCHANGED <<iget, getinfo>>

\* The encoder's frame is dropped, the call still returns HI_SUCCESS.
HisiPutFull == /\ n >= NMAX
               /\ UNCHANGED fifoVars

\* Faulty variant of ringget: the reader stays where it is.
ringget_KeepsIget ==
    /\ n > 0
    /\ getinfo' = ringfifo[iget]
    /\ n' = n - 1
    /\ UNCHANGED <<ringfifo, iput, iget>>

\* Faulty variant of ringget: iget steps before the frame is taken from it.
ringget_StepsFirst ==
    /\ n > 0
    /\ iget' = addring(iget)
    /\ getinfo' = ringfifo[iget']
    /\ n' = n - 1
    /\ UNCHANGED <<ringfifo, iput>>

ringget == /\ n > 0
           /\ getinfo' = ringfifo[iget]
           /\ iget' = addring(iget)
           /\ n' = n - 1
           /\ UNCHANGED <<ringfifo, iput>>

ringgetEmpty == /\ n <= 0
                /\ getinfo' = NoFrame
                /\ UNCHANGED <<ringfifo, iput, iget, n>>

FifoNext == \/ \E f \in Frames : HisiPutH264DataToBuffer(f)
            \/ HisiPutFull
            \/ ringget
            \/ ringgetEmpty

FifoSpec == FifoInit /\ [][FifoNext]_fifoVars

-----------------------------------------------------------------------------
FifoTypeOK == /\ ringfifo \in [Slots -> Frames \cup {NoFrame}]
              /\ iput \in Slots
              /\ iget \in Slots
              /\ n \in 0 .. NMAX
              /\ getinfo \in Frames \cup {NoFrame}

\* The slot that lies k slots after the slot i, for k in 0 .. NMAX.
SlotAt(i, k) == IF i + k < NMAX THEN i + k ELSE i + k - NMAX

\* The three counters of the ring agree: the slot the writer will use is the
\* one n slots after the reader's, wherever either has wrapped, and each of
\* the n slots between them holds a frame.
CountersAgree == /\ iput = SlotAt(iget, n)
                 /\ \A k \in 0 .. n - 1 : ringfifo[SlotAt(iget, k)] \in Frames

\* The frames in the order they were put, read off the slots.
Contents == [k \in 1 .. n |-> ringfifo[SlotAt(iget, k - 1)]]

Queue == INSTANCE FrameQueue WITH Capacity <- NMAX,
                                  queue <- Contents,
                                  taken <- getinfo

\* The ring is a first-in first-out queue of NMAX frames that drops the
\* newest frame when it is full: no frame is returned twice, out of order, or
\* from a slot that was never filled.
ImplementsQueue == Queue!Spec
=============================================================================

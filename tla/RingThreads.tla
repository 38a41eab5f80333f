----------------------------- MODULE RingThreads -----------------------------
(***************************************************************************)
(* The ring of src/rtsp/ringfifo.c as the program runs it: the encoder     *)
(* thread (VENC_GetVencStreamProc) puts frames, the sender thread          *)
(* (schedule_do) takes and sends them, and no lock guards the slots or the *)
(* counter n.  The build sets no optimisation level, so n++ and n-- are a  *)
(* load, an addition and a store, and every access reads memory again; the *)
(* device has a single core, so stores are seen in program order.          *)
(*                                                                         *)
(* A step is one access to shared memory.  The buffer of a slot is copied  *)
(* and read in two halves, which is enough to see a frame cut in two.      *)
(* Frames are numbered from 1 in the order the encoder makes them.         *)
(***************************************************************************)
EXTENDS Ring

CONSTANT MaxFrames    \* bound: the number of frames the encoder makes

ASSUME RingThreadsAssumption == MaxFrames \in Nat

VARIABLES
    lo, hi,           \* the two halves of the buffer of each slot
    size,             \* the frame whose size and type each slot records
    made,             \* the number of frames made by the encoder
    vpc, vreg,        \* the encoder thread: where it is, and the n it loaded
    spc, sreg,        \* the sender thread: the same
    pos,              \* the slot ringget handed to the sender
    info,             \* getinfo->size, as the frame it is the size of
    sent              \* the halves sent for the latest frame, as a pair

ring == <<lo, hi, size, iput, iget, n>>
venc == <<made, vpc, vreg>>
sender == <<spc, sreg, pos, info, sent>>
vars == <<ring, venc, sender>>

Nothing == 0                       \* no frame: the buffer or size of a new slot
FrameIds == 0 .. MaxFrames

\* ringmalloc, before either thread is started
Init == /\ lo = [i \in Slots |-> Nothing]
        /\ hi = [i \in Slots |-> Nothing]
        /\ size = [i \in Slots |-> Nothing]
        /\ iput = 0 /\ iget = 0 /\ n = 0
        /\ made = 0
        /\ vpc = "idle" /\ vreg = 0
        /\ spc = "idle" /\ sreg = 0
        /\ pos = 0 /\ info = Nothing
        /\ sent = <<Nothing, Nothing>>

-----------------------------------------------------------------------------
(* The encoder thread: HisiPutH264DataToBuffer *)

\* Faulty variant of PutRoom: it takes a full ring for one with room.
PutRoom_OffByOne ==
    /\ vpc = "idle" /\ made < MaxFrames
    /\ n <= NMAX
    /\ made' = made + 1
    /\ vpc' = "copy"
    /\ UNCHANGED <<ring, vreg, sender>>

\* A frame arrives and there is room for it.
PutRoom == /\ vpc = "idle" /\ made < MaxFrames
           /\ n < NMAX
           /\ made' = made + 1
           /\ vpc' = "copy"
           /\ UNCHANGED <<ring, vreg, sender>>

\* A frame arrives and is dropped.
PutFull == /\ vpc = "idle" /\ made < MaxFrames
           /\ n >= NMAX
           /\ made' = made + 1
           /\ UNCHANGED <<ring, vpc, vreg, sender>>

PutCopyLo == /\ vpc = "copy"
             /\ lo' = [lo EXCEPT ![iput] = made]
             /\ vpc' = "copy2"
             /\ UNCHANGED <<hi, size, iput, iget, n, made, vreg, sender>>

PutCopyHi == /\ vpc = "copy2"
             /\ hi' = [hi EXCEPT ![iput] = made]
             /\ vpc' = "info"
             /\ UNCHANGED <<lo, size, iput, iget, n, made, vreg, sender>>

\* size, frame_type and the step of iput, which only this thread uses
PutInfo == /\ vpc = "info"
           /\ size' = [size EXCEPT ![iput] = made]
           /\ iput' = addring(iput)
           /\ vpc' = "load"
           /\ UNCHANGED <<lo, hi, iget, n, made, vreg, sender>>

PutLoad == /\ vpc = "load"
           /\ vreg' = n
           /\ vpc' = "store"
           /\ UNCHANGED <<ring, made, sender>>

PutStore == /\ vpc = "store"
            /\ n' = vreg + 1
            /\ vreg' = 0
            /\ vpc' = "idle"
            /\ UNCHANGED <<lo, hi, size, iput, iget, made, sender>>

Venc == \/ PutRoom \/ PutFull \/ PutCopyLo \/ PutCopyHi
        \/ PutInfo \/ PutLoad \/ PutStore

-----------------------------------------------------------------------------
(* The sender thread: ringget, then the loop over the sessions *)

GetEmpty == /\ spc = "idle"
            /\ n <= 0
            /\ UNCHANGED vars

\* Faulty variant of GetTake: it leaves the last frame in the ring.
GetTake_LeavesOne ==
    /\ spc = "idle"
    /\ n > 1
    /\ pos' = iget
    /\ iget' = addring(iget)
    /\ spc' = "load"
    /\ UNCHANGED <<lo, hi, size, iput, n, venc, sreg, info, sent>>

\* n > 0; the step of iget, which only this thread uses, comes with it
GetTake == /\ spc = "idle"
           /\ n > 0
           /\ pos' = iget
           /\ iget' = addring(iget)
           /\ spc' = "load"
           /\ UNCHANGED <<lo, hi, size, iput, n, venc, sreg, info, sent>>

GetLoad == /\ spc = "load"
           /\ sreg' = n
           /\ spc' = "store"
           /\ UNCHANGED <<ring, venc, pos, info, sent>>

GetStore == /\ spc = "store"
            /\ n' = sreg - 1
            /\ sreg' = 0
            /\ spc' = "info"
            /\ UNCHANGED <<lo, hi, size, iput, iget, venc, pos, info, sent>>

GetInfo == /\ spc = "info"
           /\ info' = size[pos]
           /\ spc' = "return"
           /\ UNCHANGED <<ring, venc, sreg, pos, sent>>

\* Faulty variant of GetReturn: a frame of size 0 is sent like any other.
GetReturn_IgnoresSize ==
    /\ spc = "return"
    /\ spc' = "send"
    /\ UNCHANGED <<ring, venc, sreg, pos, info, sent>>

\* The value returned is read from the slot a second time; 0 sends nothing.
GetReturn == /\ spc = "return"
             /\ spc' = IF size[pos] = Nothing THEN "idle" ELSE "send"
             /\ UNCHANGED <<ring, venc, sreg, pos, info, sent>>

\* No session is playing: the frame is discarded.
SendNone == /\ spc = "send"
            /\ spc' = "idle"
            /\ UNCHANGED <<ring, venc, sreg, pos, info, sent>>

SendLo == /\ spc = "send"
          /\ sent' = <<lo[pos], Nothing>>
          /\ spc' = "send2"
          /\ UNCHANGED <<ring, venc, sreg, pos, info>>

\* and back to the top of the loop of schedule_do
SendHi == /\ spc = "send2"
          /\ sent' = <<sent[1], hi[pos]>>
          /\ spc' = "idle"
          /\ UNCHANGED <<ring, venc, sreg, pos, info>>

Sender == \/ GetEmpty \/ GetTake \/ GetLoad \/ GetStore \/ GetInfo
          \/ GetReturn \/ SendNone \/ SendLo \/ SendHi

-----------------------------------------------------------------------------
Next == Venc \/ Sender

\* Both threads are loops that the kernel keeps scheduling.
Spec == Init /\ [][Next]_vars /\ WF_vars(Venc) /\ WF_vars(Sender)

-----------------------------------------------------------------------------
TypeOK == /\ lo \in [Slots -> FrameIds]
          /\ hi \in [Slots -> FrameIds]
          /\ size \in [Slots -> FrameIds]
          /\ iput \in Slots
          /\ iget \in Slots
          /\ n \in Int
          /\ made \in FrameIds
          /\ vpc \in {"idle", "copy", "copy2", "info", "load", "store"}
          /\ vreg \in Int
          /\ spc \in {"idle", "load", "store", "info", "return", "send", "send2"}
          /\ sreg \in Int
          /\ pos \in Slots
          /\ info \in FrameIds
          /\ sent \in FrameIds \X FrameIds

\* Although n++ and n-- race, so that updates are lost and n drifts from the
\* number of frames in the ring, it never leaves 0 .. NMAX: neither thread
\* can be led to decrement an empty ring or to fill a full one.
CountInRange == n \in 0 .. NMAX

\* The sender is never given a slot that nothing was copied to: size is
\* stored after the copy, so a size that is not 0 vouches for the buffer,
\* also when the drift of n leads the sender past the last frame.
SendsOnlyFilledSlots == spc \in {"send", "send2"} =>
                            lo[pos] # Nothing /\ hi[pos] # Nothing

\* When the encoder stops, the sender empties the ring and then idles: no
\* lost update leaves it counting down for ever or stuck above 0.
RingDrains == <>[](n = 0 /\ spc = "idle")
=============================================================================

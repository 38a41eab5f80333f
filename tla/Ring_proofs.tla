----------------------------- MODULE Ring_proofs -----------------------------
(***************************************************************************)
(* The ring of ringfifo.c, for every number of slots and frames.  Called   *)
(* one call at a time it is a bounded first-in first-out queue (RingFifo); *)
(* without a lock, under every interleaving of its two threads, its        *)
(* counter keeps its range and the sender is given filled slots only       *)
(* (RingThreads).                                                          *)
(***************************************************************************)
EXTENDS RingFifo, RingThreads, SequenceTheorems, TLAPS

(* One call at a time. *)

\* Initially every counter is in its range.
LEMMA FifoInitTypeOK == FifoInit => FifoTypeOK
  BY RingAssumption DEF FifoInit, FifoTypeOK, Slots

\* Each call of the ring keeps every counter in its range.
LEMMA FifoNextTypeOK == FifoTypeOK /\ [FifoNext]_fifoVars => FifoTypeOK'
<1> SUFFICES ASSUME FifoTypeOK, [FifoNext]_fifoVars
             PROVE  FifoTypeOK'
  OBVIOUS
<1> USE RingAssumption DEF FifoTypeOK, Slots, addring
<1>1. CASE \E f \in Frames : HisiPutH264DataToBuffer(f)
  BY <1>1 DEF HisiPutH264DataToBuffer
<1>2. CASE HisiPutFull
  BY <1>2 DEF HisiPutFull, fifoVars
<1>3. CASE ringget
  BY <1>3 DEF ringget
<1>4. CASE ringgetEmpty
  BY <1>4 DEF ringgetEmpty
<1>5. CASE UNCHANGED fifoVars
  BY <1>5 DEF fifoVars
<1>6. QED
  BY <1>1, <1>2, <1>3, <1>4, <1>5 DEF FifoNext

\* Every counter stays in its range: iput and iget name a slot, n is 0..NMAX.
THEOREM FifoTypeCorrect == FifoSpec => []FifoTypeOK
  BY FifoInitTypeOK, FifoNextTypeOK, PTL DEF FifoSpec

-----------------------------------------------------------------------------
\* SlotAt names a slot.
LEMMA SlotAtType ==
    ASSUME NEW i \in Slots, NEW k \in 0 .. NMAX
    PROVE  SlotAt(i, k) \in Slots
  BY RingAssumption DEF SlotAt, Slots

\* No step on the ring is no step.
LEMMA SlotAtZero ==
    ASSUME NEW i \in Slots
    PROVE  SlotAt(i, 0) = i
  BY RingAssumption DEF SlotAt, Slots

\* One step of addring is one step of SlotAt, at its far end or at its start.
LEMMA SlotAtSucc ==
    ASSUME NEW i \in Slots, NEW k \in 0 .. NMAX - 1
    PROVE  /\ addring(SlotAt(i, k)) = SlotAt(i, k + 1)
           /\ SlotAt(addring(i), k) = SlotAt(i, k + 1)
  BY RingAssumption DEF SlotAt, Slots, addring

\* Fewer than NMAX steps do not come back to a slot already passed.
LEMMA SlotAtInjective ==
    ASSUME NEW i \in Slots, NEW j \in 0 .. NMAX - 1, NEW k \in 0 .. NMAX - 1,
           j # k
    PROVE  SlotAt(i, j) # SlotAt(i, k)
  BY RingAssumption DEF SlotAt, Slots

-----------------------------------------------------------------------------
\* The strengthening that the refinement rests on.
IInv == FifoTypeOK /\ CountersAgree

\* The ring starts empty with its counters in agreement.
LEMMA InitIInv == FifoInit => IInv
  BY RingAssumption, FifoInitTypeOK
  DEF FifoInit, IInv, CountersAgree, SlotAt

\* A frame put in the ring is put behind the frames it holds.
LEMMA PutPreserves ==
    ASSUME IInv, NEW f \in Frames, HisiPutH264DataToBuffer(f)
    PROVE  CountersAgree'
<1> USE DEF HisiPutH264DataToBuffer
<1>1. /\ n \in 0 .. NMAX - 1 /\ n' = n + 1 /\ iget' = iget
      /\ iput = SlotAt(iget, n) /\ iput \in Slots /\ iget \in Slots
  BY RingAssumption DEF IInv, FifoTypeOK, CountersAgree
<1>2. iput' = SlotAt(iget', n')
  BY <1>1, SlotAtSucc
<1>3. ASSUME NEW k \in 0 .. n' - 1
      PROVE  ringfifo'[SlotAt(iget, k)] \in Frames
  <2>1. k \in 0 .. NMAX - 1 /\ k \in 0 .. NMAX /\ k \in 0 .. n
    BY <1>1, RingAssumption
  <2>2. SlotAt(iget, k) \in Slots
    BY <1>1, <2>1, SlotAtType
  <2>3. CASE k = n
    BY <2>3, <1>1 DEF IInv, FifoTypeOK
  <2>4. CASE k # n
    <3>1. k \in 0 .. n - 1
      BY <2>1, <2>4, <1>1
    <3>2. SlotAt(iget, k) # iput
      BY <1>1, <2>1, <2>4, SlotAtInjective
    <3>3. ringfifo'[SlotAt(iget, k)] = ringfifo[SlotAt(iget, k)]
      BY <2>2, <3>2, <1>1 DEF IInv, FifoTypeOK
    <3>4. QED
      BY <3>1, <3>3 DEF IInv, CountersAgree
  <2>5. QED
    BY <2>3, <2>4
<1>4. QED
  BY <1>1, <1>2, <1>3 DEF CountersAgree

\* The frames left by ringget are the ones one slot further on.
LEMMA GetPreserves ==
    ASSUME IInv, ringget
    PROVE  CountersAgree'
<1> USE DEF ringget
<1>1. /\ n \in 1 .. NMAX /\ n' = n - 1 /\ n' \in 0 .. NMAX - 1
      /\ iget \in Slots /\ iget' = addring(iget) /\ n' + 1 = n
  BY RingAssumption DEF IInv, FifoTypeOK
<1>2. iput' = SlotAt(iget', n')
  <2>1. SlotAt(iget', n') = SlotAt(iget, n' + 1)
    BY <1>1, SlotAtSucc
  <2>2. QED
    BY <1>1, <2>1 DEF IInv, CountersAgree
<1>3. ASSUME NEW k \in 0 .. n' - 1
      PROVE  ringfifo'[SlotAt(iget', k)] \in Frames
  <2>1. k \in 0 .. NMAX - 1 /\ k + 1 \in 0 .. n - 1
    BY <1>1, RingAssumption
  <2>2. SlotAt(iget', k) = SlotAt(iget, k + 1)
    BY <1>1, <2>1, SlotAtSucc
  <2>3. QED
    BY <2>1, <2>2 DEF IInv, CountersAgree
<1>4. QED
  BY <1>2, <1>3 DEF CountersAgree

\* The invariant is inductive.
LEMMA NextIInv == IInv /\ [FifoNext]_fifoVars => IInv'
<1> SUFFICES ASSUME IInv, [FifoNext]_fifoVars
             PROVE  CountersAgree'
  BY FifoNextTypeOK DEF IInv
<1>1. CASE \E f \in Frames : HisiPutH264DataToBuffer(f)
  BY <1>1, PutPreserves
<1>2. CASE ringget
  BY <1>2, GetPreserves
<1>3. CASE HisiPutFull \/ ringgetEmpty \/ UNCHANGED fifoVars
  BY <1>3 DEF HisiPutFull, ringgetEmpty, fifoVars, IInv, CountersAgree
<1>4. QED
  BY <1>1, <1>2, <1>3 DEF FifoNext

LEMMA SpecIInv == FifoSpec => []IInv
  BY InitIInv, NextIInv, PTL DEF FifoSpec

\* The counters iput, iget and n always describe the same queue of filled
\* slots.
THEOREM CountersCorrect == FifoSpec => []CountersAgree
<1>1. IInv => CountersAgree
  BY DEF IInv
<1>2. QED
  BY <1>1, SpecIInv, PTL

-----------------------------------------------------------------------------
\* Read from iget on, the slots in use are a sequence of n frames.
LEMMA ContentsType ==
    ASSUME IInv
    PROVE  /\ Contents \in Seq(Frames)
           /\ Len(Contents) = n
           /\ n \in Nat
           /\ \A k \in 1 .. n : Contents[k] = ringfifo[SlotAt(iget, k - 1)]
<1>1. n \in Nat
  BY RingAssumption DEF IInv, FifoTypeOK
<1>2. ASSUME NEW k \in 1 .. n
      PROVE  ringfifo[SlotAt(iget, k - 1)] \in Frames
  <2>1. k - 1 \in 0 .. n - 1
    BY <1>1
  <2>2. QED
    BY <2>1 DEF IInv, CountersAgree
<1>3. QED
  BY <1>1, <1>2 DEF Contents

\* HisiPutH264DataToBuffer appends its frame to the sequence.
LEMMA PutRefines ==
    ASSUME IInv, NEW f \in Frames, HisiPutH264DataToBuffer(f)
    PROVE  Contents' = Append(Contents, f)
<1> USE DEF HisiPutH264DataToBuffer
<1>1. /\ n \in 0 .. NMAX - 1 /\ n' = n + 1 /\ iget' = iget
      /\ iput = SlotAt(iget, n) /\ iput \in Slots /\ iget \in Slots
  BY RingAssumption DEF IInv, FifoTypeOK, CountersAgree
<1>2. /\ Contents \in Seq(Frames)
      /\ Len(Contents) = n
      /\ \A k \in 1 .. n : Contents[k] = ringfifo[SlotAt(iget, k - 1)]
  BY ContentsType
<1>3. Contents' = [k \in 1 .. n + 1 |-> ringfifo'[SlotAt(iget, k - 1)]]
  BY <1>1 DEF Contents
<1>4. ASSUME NEW k \in 1 .. n + 1
      PROVE  ringfifo'[SlotAt(iget, k - 1)] = Append(Contents, f)[k]
  <2>1. k - 1 \in 0 .. NMAX - 1 /\ k - 1 \in 0 .. NMAX
    BY <1>1, RingAssumption
  <2>2. SlotAt(iget, k - 1) \in Slots
    BY <1>1, <2>1, SlotAtType
  <2>3. CASE k = n + 1
    <3>1. k - 1 = n
      BY <2>3, <1>1
    <3>2. ringfifo'[iput] = f
      BY <1>1 DEF IInv, FifoTypeOK
    <3>3. Append(Contents, f)[k] = f
      BY <1>1, <1>2, <2>3
    <3>4. QED
      BY <3>1, <3>2, <3>3, <1>1
  <2>4. CASE k # n + 1
    <3>1. k \in 1 .. n /\ k - 1 # n /\ n \in 0 .. NMAX - 1
      BY <2>4, <1>1
    <3>2. SlotAt(iget, k - 1) # iput
      BY <1>1, <2>1, <3>1, SlotAtInjective
    <3>3. ringfifo'[SlotAt(iget, k - 1)] = ringfifo[SlotAt(iget, k - 1)]
      BY <2>2, <3>2, <1>1 DEF IInv, FifoTypeOK
    <3>4. Append(Contents, f)[k] = Contents[k]
      BY <1>2, <3>1
    <3>5. QED
      BY <3>1, <3>3, <3>4, <1>2
  <2>5. QED
    BY <2>3, <2>4
<1>5. Append(Contents, f) \in [1 .. n + 1 -> Frames]
  <2>1. Append(Contents, f) \in Seq(Frames) /\ Len(Append(Contents, f)) = n + 1
    BY <1>2, AppendProperties
  <2>2. QED
    BY <2>1, LenProperties
<1>6. QED
  BY <1>3, <1>4, <1>5

\* ringget returns the head of the sequence and leaves its tail.
LEMMA GetRefines ==
    ASSUME IInv, ringget
    PROVE  /\ Contents # <<>>
           /\ getinfo' = Head(Contents)
           /\ Contents' = Tail(Contents)
<1> USE DEF ringget
<1>1. /\ n \in 1 .. NMAX /\ n' = n - 1 /\ n \in Nat
      /\ iget \in Slots /\ iget' = addring(iget)
  BY RingAssumption DEF IInv, FifoTypeOK
<1>2. /\ Contents \in Seq(Frames)
      /\ Len(Contents) = n
      /\ \A k \in 1 .. n : Contents[k] = ringfifo[SlotAt(iget, k - 1)]
  BY ContentsType
<1>3. Contents # <<>>
  BY <1>1, <1>2
<1>4. getinfo' = Head(Contents)
  <2>1. Head(Contents) = Contents[1] /\ 1 \in 1 .. n
    BY <1>1, <1>2, <1>3
  <2>2. Contents[1] = ringfifo[SlotAt(iget, 0)]
    BY <2>1, <1>2
  <2>3. QED
    BY <1>1, <2>1, <2>2, SlotAtZero
<1>5. Contents' = Tail(Contents)
  <2>1. Contents' = [k \in 1 .. n - 1 |-> ringfifo[SlotAt(addring(iget), k - 1)]]
    BY <1>1 DEF Contents
  <2>2. ASSUME NEW k \in 1 .. n - 1
        PROVE  ringfifo[SlotAt(addring(iget), k - 1)] = Contents[k + 1]
    <3>1. /\ k - 1 \in 0 .. NMAX - 1 /\ k + 1 \in 1 .. n
          /\ (k - 1) + 1 = (k + 1) - 1
      BY <1>1, RingAssumption
    <3>2. SlotAt(addring(iget), k - 1) = SlotAt(iget, (k - 1) + 1)
      BY <1>1, <3>1, SlotAtSucc
    <3>3. Contents[k + 1] = ringfifo[SlotAt(iget, (k + 1) - 1)]
      BY <1>2, <3>1
    <3>4. QED
      BY <3>1, <3>2, <3>3
  <2>3. /\ Tail(Contents) \in Seq(Frames)
        /\ Len(Tail(Contents)) = n - 1
        /\ \A k \in 1 .. n - 1 : Tail(Contents)[k] = Contents[k + 1]
    BY <1>2, <1>3, HeadTailProperties
  <2>4. Tail(Contents) \in [1 .. n - 1 -> Frames]
    BY <2>3, LenProperties
  <2>5. QED
    BY <2>1, <2>2, <2>3, <2>4
<1>6. QED
  BY <1>3, <1>4, <1>5

\* The ring implements the queue: a put appends or drops, a get takes the
\* oldest frame, for every number of slots.
THEOREM RingImplementsQueue == FifoSpec => ImplementsQueue
<1>1. FifoInit => Queue!Init
  BY RingAssumption DEF FifoInit, Queue!Init, Contents
<1>2. IInv /\ [FifoNext]_fifoVars => [Queue!Next]_(Queue!vars)
  <2> SUFFICES ASSUME IInv, [FifoNext]_fifoVars
               PROVE  [Queue!Next]_(Queue!vars)
    OBVIOUS
  <2>0. n \in 0 .. NMAX /\ Len(Contents) = n
    BY ContentsType DEF IInv, FifoTypeOK
  <2>1. ASSUME NEW f \in Frames, HisiPutH264DataToBuffer(f)
        PROVE  Queue!Put(f)
    <3>1. Len(Contents) < NMAX /\ getinfo' = getinfo
      BY <2>0, <2>1 DEF HisiPutH264DataToBuffer
    <3>2. Contents' = Append(Contents, f)
      BY <2>1, PutRefines
    <3>3. QED
      BY <3>1, <3>2 DEF Queue!Put
  <2>2. ASSUME ringget
        PROVE  Queue!Take
    BY <2>2, GetRefines DEF Queue!Take
  <2>3. ASSUME ringgetEmpty
        PROVE  Queue!TakeNothing
    <3>1. n = 0 /\ getinfo' = NoFrame
      BY <2>3, <2>0, RingAssumption DEF ringgetEmpty
    <3>2. Contents = <<>>
      BY <3>1 DEF Contents
    <3>3. Contents' = Contents
      BY <2>3 DEF ringgetEmpty, Contents
    <3>4. QED
      BY <3>1, <3>2, <3>3 DEF Queue!TakeNothing
  <2>4. ASSUME HisiPutFull \/ UNCHANGED fifoVars
        PROVE  UNCHANGED Queue!vars
    BY <2>4 DEF HisiPutFull, fifoVars, Queue!vars, Contents
  <2>5. QED
    BY <2>1, <2>2, <2>3, <2>4 DEF FifoNext, Queue!Next
<1>3. QED
  BY <1>1, <1>2, SpecIInv, PTL DEF FifoSpec, Queue!Spec, ImplementsQueue
-----------------------------------------------------------------------------
(* The two threads, one memory access at a time. *)

\* The range of the shared counter needs the range of the copies the two
\* threads hold.  Between its check and its store a thread relies on the
\* other one: the encoder thread only ever stores a number above 0, so what
\* the sender loads is above 0; the sender only ever stores a number below
\* NMAX, so what the encoder thread loads is below NMAX.
CountInv ==
    /\ CountInRange
    /\ vpc \in {"copy", "copy2", "info", "load"} => n < NMAX
    /\ vpc = "store" => vreg \in 0 .. NMAX - 1
    /\ spc = "load" => n > 0
    /\ spc = "store" => sreg \in 1 .. NMAX

\* A slot whose size is set has both its halves set, and so has the slot
\* being filled as far as the copy has come.
FilledInv ==
    /\ \A i \in Slots : size[i] # Nothing => lo[i] # Nothing /\ hi[i] # Nothing
    /\ vpc \in {"copy", "copy2", "info"} => made # Nothing
    /\ vpc \in {"copy2", "info"} => lo[iput] # Nothing
    /\ vpc = "info" => hi[iput] # Nothing
    /\ spc \in {"send", "send2"} => size[pos] # Nothing

-----------------------------------------------------------------------------
LEMMA InitTypeOK == Init => TypeOK
  BY RingAssumption, RingThreadsAssumption DEF Init, TypeOK, Slots, FrameIds, Nothing

\* A step round the ring names a slot.
LEMMA AddringType == \A i \in Slots : addring(i) \in Slots
  BY RingAssumption DEF Slots, addring

LEMMA NextTypeOK == TypeOK /\ [Next]_vars => TypeOK'
<1> SUFFICES ASSUME TypeOK, [Next]_vars
             PROVE  TypeOK'
  OBVIOUS
<1> USE RingAssumption, RingThreadsAssumption
    DEF TypeOK, FrameIds, Nothing, vars, ring, venc, sender
<1>1. CASE PutRoom
  BY <1>1 DEF PutRoom
<1>2. CASE PutFull
  BY <1>2 DEF PutFull
<1>3. CASE PutCopyLo
  BY <1>3 DEF PutCopyLo
<1>4. CASE PutCopyHi
  BY <1>4 DEF PutCopyHi
<1>5. CASE PutInfo
  BY <1>5, AddringType DEF PutInfo
<1>6. CASE PutLoad
  BY <1>6 DEF PutLoad
<1>7. CASE PutStore
  BY <1>7 DEF PutStore
<1>8. CASE GetEmpty
  BY <1>8 DEF GetEmpty
<1>9. CASE GetTake
  BY <1>9, AddringType DEF GetTake
<1>10. CASE GetLoad
  BY <1>10 DEF GetLoad
<1>11. CASE GetStore
  BY <1>11 DEF GetStore
<1>12. CASE GetInfo
  BY <1>12 DEF GetInfo
<1>13. CASE GetReturn
  BY <1>13 DEF GetReturn
<1>14. CASE SendNone
  BY <1>14 DEF SendNone
<1>15. CASE SendLo
  <2>1. lo[pos] \in 0 .. MaxFrames /\ 0 \in 0 .. MaxFrames
    OBVIOUS
  <2>2. sent' \in (0 .. MaxFrames) \X (0 .. MaxFrames)
    BY <1>15, <2>1 DEF SendLo
  <2>3. QED
    BY <1>15, <2>2 DEF SendLo
<1>16. CASE SendHi
  <2>1. sent[1] \in 0 .. MaxFrames /\ hi[pos] \in 0 .. MaxFrames
    OBVIOUS
  <2>2. sent' \in (0 .. MaxFrames) \X (0 .. MaxFrames)
    BY <1>16, <2>1 DEF SendHi
  <2>3. QED
    BY <1>16, <2>2 DEF SendHi
<1>17. CASE UNCHANGED vars
  BY <1>17
<1>18. QED
  BY <1>1, <1>2, <1>3, <1>4, <1>5, <1>6, <1>7, <1>8, <1>9, <1>10, <1>11,
     <1>12, <1>13, <1>14, <1>15, <1>16, <1>17 DEF Next, Venc, Sender

\* Every variable keeps its type; iput, iget and pos always name a slot.
THEOREM TypeCorrect == Spec => []TypeOK
  BY InitTypeOK, NextTypeOK, PTL DEF Spec

-----------------------------------------------------------------------------
LEMMA InitCountInv == Init => CountInv
  BY RingAssumption, RingThreadsAssumption DEF Init, CountInv, CountInRange

LEMMA NextCountInv == TypeOK /\ CountInv /\ [Next]_vars => CountInv'
<1> SUFFICES ASSUME TypeOK, CountInv, [Next]_vars
             PROVE  CountInv'
  OBVIOUS
<1> USE RingAssumption, RingThreadsAssumption DEF TypeOK, CountInv, CountInRange
\* The check of the encoder thread.
<1>1. CASE PutRoom
  BY <1>1 DEF PutRoom, ring, sender
\* Steps of the encoder thread that leave n and keep n < NMAX in force.
<1>2. CASE PutFull \/ PutCopyLo \/ PutCopyHi \/ PutInfo
  BY <1>2 DEF PutFull, PutCopyLo, PutCopyHi, PutInfo, ring, sender
<1>3. CASE PutLoad
  BY <1>3 DEF PutLoad, ring, sender
\* It stores a number in 1 .. NMAX, under which the sender may be loading.
<1>4. CASE PutStore
  BY <1>4 DEF PutStore, sender
\* The check of the sender.
<1>5. CASE GetTake
  BY <1>5 DEF GetTake, venc
<1>6. CASE GetLoad
  BY <1>6 DEF GetLoad, ring, venc
\* It stores a number in 0 .. NMAX - 1, under which a put may be under way.
<1>7. CASE GetStore
  BY <1>7 DEF GetStore, venc
<1>8. CASE GetInfo \/ GetReturn \/ SendNone \/ SendLo \/ SendHi
  BY <1>8 DEF GetInfo, GetReturn, SendNone, SendLo, SendHi, ring, venc
<1>9. CASE GetEmpty \/ UNCHANGED vars
  BY <1>9 DEF GetEmpty, vars, ring, venc, sender
<1>10. QED
  BY <1>1, <1>2, <1>3, <1>4, <1>5, <1>6, <1>7, <1>8, <1>9
     DEF Next, Venc, Sender

\* The racy counter never leaves 0 .. NMAX.
THEOREM CountStaysInRange == Spec => []CountInRange
<1>1. CountInv => CountInRange
  BY DEF CountInv
<1>2. QED
  BY <1>1, InitTypeOK, NextTypeOK, InitCountInv, NextCountInv, PTL DEF Spec

-----------------------------------------------------------------------------
LEMMA InitFilledInv == Init => FilledInv
  BY RingAssumption, RingThreadsAssumption DEF Init, FilledInv, Slots, Nothing

LEMMA NextFilledInv == TypeOK /\ FilledInv /\ [Next]_vars => FilledInv'
<1> SUFFICES ASSUME TypeOK, FilledInv, [Next]_vars
             PROVE  FilledInv'
  OBVIOUS
<1> USE RingAssumption, RingThreadsAssumption DEF TypeOK, FilledInv, FrameIds, Nothing
\* A frame being copied has a number above 0.
<1>1. CASE PutRoom
  BY <1>1 DEF PutRoom, ring, sender
<1>2. CASE PutFull
  BY <1>2 DEF PutFull, ring, sender
\* Overwriting a half puts a frame where a frame may already be.
<1>3. CASE PutCopyLo
  BY <1>3 DEF PutCopyLo, sender
<1>4. CASE PutCopyHi
  BY <1>4 DEF PutCopyHi, sender
\* The size is set once both halves are.
<1>5. CASE PutInfo
  BY <1>5 DEF PutInfo, sender
<1>6. CASE PutLoad \/ PutStore
  BY <1>6 DEF PutLoad, PutStore, ring, sender
<1>7. CASE GetTake \/ GetLoad \/ GetStore \/ GetInfo
  BY <1>7 DEF GetTake, GetLoad, GetStore, GetInfo, ring, venc
\* The sender goes on only with a slot whose size is set.
<1>8. CASE GetReturn
  BY <1>8 DEF GetReturn, ring, venc
<1>9. CASE SendNone \/ SendLo \/ SendHi
  BY <1>9 DEF SendNone, SendLo, SendHi, ring, venc
<1>10. CASE GetEmpty \/ UNCHANGED vars
  BY <1>10 DEF GetEmpty, vars, ring, venc, sender
<1>11. QED
  BY <1>1, <1>2, <1>3, <1>4, <1>5, <1>6, <1>7, <1>8, <1>9, <1>10
     DEF Next, Venc, Sender

\* No session is ever sent the buffer of a slot that was never filled.
THEOREM SenderReadsFilledSlots == Spec => []SendsOnlyFilledSlots
<1>1. TypeOK /\ FilledInv => SendsOnlyFilledSlots
  BY DEF TypeOK, FilledInv, SendsOnlyFilledSlots
<1>2. QED
  BY <1>1, InitTypeOK, NextTypeOK, InitFilledInv, NextFilledInv, PTL DEF Spec
=============================================================================

--------------------------- MODULE RtpSender_proofs ---------------------------
(***************************************************************************)
(* Proofs about RtpSender, for frames and packets of any size and any      *)
(* number of sequence numbers.                                             *)
(***************************************************************************)
EXTENDS RtpSender, TLAPS

\* The frame in hand, while it is being sent.
SendInv == /\ pc \in {"nalu", "fu"} => frame >= 1
           /\ pc = "nalu" => s32NaluRemain = size - 1
           /\ pc = "fu" => s32NaluRemain > 0

\* The frames come in order, and one that had its marker is done with.
FramesInv ==
    \A k \in DOMAIN received :
        /\ received[k].payload.frame <= frame
        /\ received[k].hdr.marker /\ received[k].payload.frame = frame
              => pc \notin {"nalu", "fu"}

Packet == [hdr : [seq : 0 .. SeqMod - 1, marker : BOOLEAN,
                  timestamp : {0}, ssrc : 1 .. MaxFrames],
           payload : [start : BOOLEAN, end : BOOLEAN,
                      frame : 1 .. MaxFrames, from : Nat, len : Nat],
           nth : Nat]

-----------------------------------------------------------------------------
LEMMA SeqType == ASSUME u16SeqNum \in 0 .. SeqMod - 1
                 PROVE  NextSeq \in 0 .. SeqMod - 1
  BY RtpAssumption DEF NextSeq

LEMMA InitTypeOK == Init => TypeOK /\ SendInv
  BY RtpAssumption DEF Init, TypeOK, SendInv

\* A packet that is sent is well-formed.
LEMMA PacketType ==
    ASSUME TypeOK, frame >= 1, NEW marker \in BOOLEAN, NEW start \in BOOLEAN,
           NEW end \in BOOLEAN, NEW len \in Nat
    PROVE  [hdr |-> Header(marker), payload |-> Payload(start, end, len), nth |-> made] \in Packet
<1>1. Header(marker) \in [seq : 0 .. SeqMod - 1, marker : BOOLEAN,
                          timestamp : {0}, ssrc : 1 .. MaxFrames]
  BY DEF Header, TypeOK
<1>2. Payload(start, end, len) \in [start : BOOLEAN, end : BOOLEAN,
                                    frame : 1 .. MaxFrames, from : Nat, len : Nat]
  BY DEF Payload, TypeOK
<1>3. QED
  BY <1>1, <1>2 DEF Packet, TypeOK

LEMMA SendType ==
    ASSUME TypeOK, frame >= 1, NEW marker \in BOOLEAN, NEW start \in BOOLEAN,
           NEW end \in BOOLEAN, NEW len \in Nat,
           sendto(Header(marker), Payload(start, end, len))
    PROVE  received' \in Seq(Packet) /\ u16SeqNum' \in 0 .. SeqMod - 1 /\ made' \in Nat
<1>1. received \in Seq(Packet) /\ u16SeqNum \in 0 .. SeqMod - 1 /\ made \in Nat
  BY DEF TypeOK, Packet
<1>2. [hdr |-> Header(marker), payload |-> Payload(start, end, len), nth |-> made] \in Packet
  BY PacketType
<1>3. QED
  BY <1>1, <1>2, SeqType DEF sendto, CountPacket

LEMMA NextTypeOK == TypeOK /\ SendInv /\ [Next]_vars => TypeOK' /\ SendInv'
<1> SUFFICES ASSUME TypeOK, SendInv, [Next]_vars
             PROVE  TypeOK' /\ SendInv'
  OBVIOUS
<1> USE RtpAssumption DEF SendInv
<1>1. CASE RtpSend
  BY <1>1 DEF RtpSend, TypeOK
<1>2. CASE SendNegative
  BY <1>2 DEF SendNegative, TypeOK
<1>3. CASE SendSingle
  <2>1. s32NaluRemain \in Nat /\ frame >= 1
    BY <1>3 DEF SendSingle, TypeOK
  <2>2. sendto(Header(TRUE), Payload(TRUE, TRUE, s32NaluRemain))
    BY <1>3 DEF SendSingle
  <2>3. received' \in Seq(Packet) /\ u16SeqNum' \in 0 .. SeqMod - 1 /\ made' \in Nat
    BY <2>1, <2>2, SendType
  <2>4. QED
    BY <1>3, <2>3 DEF SendSingle, TypeOK, Packet
<1>4. CASE StartFu
  BY <1>4 DEF StartFu, FitsPacket, TypeOK
<1>5. CASE SendFu
  <2>1. FuLength \in Nat /\ FitsPacket \in BOOLEAN /\ IsFirst \in BOOLEAN
    BY <1>5 DEF SendFu, FuLength, FitsPacket, IsFirst, TypeOK
  <2>2. received' \in Seq(Packet) /\ u16SeqNum' \in 0 .. SeqMod - 1 /\ made' \in Nat
    BY <1>5, <2>1, SendType DEF SendFu
  <2>3. QED
    BY <1>5, <2>2 DEF SendFu, TypeOK, Packet
<1>6. CASE SendFuFails
  BY <1>6, SeqType DEF SendFuFails, CountPacket, TypeOK
<1>7. CASE UNCHANGED vars
  BY <1>7 DEF vars, TypeOK
<1>8. QED
  BY <1>1, <1>2, <1>3, <1>4, <1>5, <1>6, <1>7 DEF Next, SendPacket

\* The numbers of a packet stay in their fields, and no fragment has a
\* negative length.
THEOREM TypeCorrect == Spec => []TypeOK
  BY InitTypeOK, NextTypeOK, PTL DEF Spec

-----------------------------------------------------------------------------
IInv == FramesInv /\ MarkerEndsFrame

\* A packet of the frame in hand keeps the order, if it is the last when it
\* has the marker.
LEMMA AppendKeepsOrder ==
    ASSUME TypeOK, IInv, pc \in {"nalu", "fu"}, frame' = frame,
           NEW marker \in BOOLEAN, NEW start \in BOOLEAN, NEW len \in Nat,
           sendto(Header(marker), Payload(start, marker, len)),
           marker => pc' = "idle"
    PROVE  IInv'
<1>1. received \in Seq(Packet) /\ DOMAIN received = 1 .. Len(received)
  BY DEF TypeOK, Packet
<1> DEFINE packet == [hdr |-> Header(marker), payload |-> Payload(start, marker, len),
                      nth |-> made]
<1>2. packet.hdr.marker = marker /\ packet.payload.end = marker /\ packet.payload.frame = frame
  BY DEF Header, Payload
<1>3. \A k \in 1 .. Len(received) :
         received[k].payload.frame \in Nat /\ received[k].payload.frame <= frame
  <2>1. \A k \in 1 .. Len(received) : received[k] \in Packet
    BY <1>1
  <2>2. \A k \in 1 .. Len(received) : received[k].payload.frame \in Nat
    BY <2>1 DEF Packet
  <2>3. QED
    BY <1>1, <2>2 DEF IInv, FramesInv
<1>4. \A k \in 1 .. Len(received) :
         received[k].hdr.marker => received[k].payload.frame < frame
  <2> SUFFICES ASSUME NEW k \in 1 .. Len(received), received[k].hdr.marker
               PROVE  received[k].payload.frame < frame
    OBVIOUS
  <2>1. received[k].payload.frame # frame
    BY <1>1 DEF IInv, FramesInv
  <2>2. received[k].payload.frame \in Nat /\ received[k].payload.frame <= frame /\ frame \in Nat
    BY <1>3 DEF TypeOK
  <2>3. QED
    BY <2>1, <2>2
<1>5. CASE received' = received
  BY <1>1, <1>4, <1>5 DEF IInv, FramesInv, MarkerEndsFrame
<1>6. CASE received' = Append(received, packet)
  <2>1. /\ DOMAIN received' = 1 .. Len(received) + 1 /\ Len(received') = Len(received) + 1
        /\ \A k \in 1 .. Len(received) : received'[k] = received[k]
        /\ received'[Len(received) + 1] = packet
    BY <1>1, <1>6
  <2>2. FramesInv'
    <3> SUFFICES ASSUME NEW k \in DOMAIN received'
                 PROVE  /\ received'[k].payload.frame <= frame'
                        /\ received'[k].hdr.marker /\ received'[k].payload.frame = frame'
                              => pc' \notin {"nalu", "fu"}
      BY DEF FramesInv
    <3>1. CASE k \in 1 .. Len(received)
      BY <1>3, <1>4, <2>1, <3>1
    <3>2. CASE k = Len(received) + 1
      BY <1>2, <2>1, <3>2 DEF TypeOK
    <3>3. QED
      BY <1>1, <2>1, <3>1, <3>2
  <2>3. MarkerEndsFrame'
    <3> SUFFICES ASSUME NEW k \in DOMAIN received'
                 PROVE  /\ received'[k].hdr.marker <=> received'[k].payload.end
                        /\ received'[k].hdr.marker =>
                              \A j \in k + 1 .. Len(received') :
                                  received'[j].payload.frame > received'[k].payload.frame
      BY DEF MarkerEndsFrame
    <3>1. CASE k \in 1 .. Len(received)
      <4>1. received[k].hdr.marker <=> received[k].payload.end
        BY <1>1, <3>1 DEF IInv, MarkerEndsFrame
      <4>2. ASSUME received[k].hdr.marker, NEW j \in k + 1 .. Len(received)
            PROVE  received[j].payload.frame > received[k].payload.frame
        BY <1>1, <3>1, <4>2 DEF IInv, MarkerEndsFrame
      <4>3. received[k].hdr.marker => packet.payload.frame > received[k].payload.frame
        BY <1>2, <1>3, <1>4, <3>1 DEF TypeOK
      <4>4. QED
        BY <1>1, <2>1, <3>1, <4>1, <4>2, <4>3
    <3>2. CASE k = Len(received) + 1
      BY <1>1, <1>2, <2>1, <3>2
    <3>3. QED
      BY <1>1, <2>1, <3>1, <3>2
  <2>4. QED
    BY <2>2, <2>3 DEF IInv
<1>7. QED
  BY <1>5, <1>6 DEF sendto

LEMMA NextIInv == TypeOK /\ SendInv /\ IInv /\ [Next]_vars => IInv'
<1> SUFFICES ASSUME TypeOK, SendInv, IInv, [Next]_vars
             PROVE  IInv'
  OBVIOUS
\* A new frame has a higher number than all packets.
<1>1. CASE RtpSend
  <2>1. frame' = frame + 1 /\ received' = received /\ frame \in Nat
    BY <1>1, RtpAssumption DEF RtpSend, TypeOK
  <2>2. \A k \in DOMAIN received : received[k].payload.frame \in Nat
    <3>1. received \in Seq(Packet)
      BY DEF TypeOK, Packet
    <3>2. \A k \in DOMAIN received : received[k] \in Packet
      BY <3>1
    <3>3. QED
      BY <3>2 DEF Packet
  <2>3. \A k \in DOMAIN received : received[k].payload.frame < frame'
    BY <2>1, <2>2 DEF IInv, FramesInv
  <2>4. QED
    BY <2>1, <2>2, <2>3 DEF IInv, FramesInv, MarkerEndsFrame
<1>2. CASE SendSingle
  <2>1. /\ sendto(Header(TRUE), Payload(TRUE, TRUE, s32NaluRemain))
        /\ pc = "nalu" /\ pc' = "idle" /\ frame' = frame
    BY <1>2 DEF SendSingle
  <2>2. s32NaluRemain \in Nat
    BY <1>2 DEF SendSingle, TypeOK
  <2>3. QED
    BY <2>1, <2>2, AppendKeepsOrder
\* The last fragment, and only the last, has the marker.
<1>3. CASE SendFu
  <2>1. FuLength \in Nat /\ FitsPacket \in BOOLEAN /\ IsFirst \in BOOLEAN
    BY <1>3, RtpAssumption DEF SendFu, FuLength, FitsPacket, IsFirst, TypeOK, SendInv
  <2>2. FitsPacket => pc' = "idle"
    BY <1>3, RtpAssumption DEF SendFu, FitsPacket, TypeOK
  <2>3. QED
    BY <1>3, <2>1, <2>2, AppendKeepsOrder DEF SendFu
<1>4. CASE SendNegative \/ StartFu \/ SendFuFails \/ UNCHANGED vars
  <2>1. received' = received /\ frame' = frame
        /\ (pc' \in {"nalu", "fu"} => pc \in {"nalu", "fu"})
    BY <1>4 DEF SendNegative, StartFu, SendFuFails, vars
  <2>2. QED
    BY <2>1 DEF IInv, FramesInv, MarkerEndsFrame
<1>5. QED
  BY <1>1, <1>2, <1>3, <1>4 DEF Next, SendPacket

\* The marker and the end bit agree, and nothing of a frame follows the packet
\* that has them, whatever was lost and for frames and packets of any size.
THEOREM MarkerIsLast == Spec => []MarkerEndsFrame
<1>1. Init => IInv
  BY DEF Init, IInv, FramesInv, MarkerEndsFrame
<1>2. IInv => MarkerEndsFrame
  BY DEF IInv
<1>3. QED
  BY <1>1, <1>2, InitTypeOK, NextTypeOK, NextIInv, PTL DEF Spec

-----------------------------------------------------------------------------
(* Arithmetic of the sequence number *)

\* A product with a whole number other than 0 is no smaller than the factor.
LEMMA Multiple ==
    ASSUME NEW M \in Nat \ {0}, NEW x \in Int, M * x < M, M * x > -M
    PROVE  x = 0
<1>1. CASE x >= 1
  <2>1. M * x = M + M * (x - 1)
    OBVIOUS
  <2>2. M * (x - 1) >= 0
    BY <1>1
  <2>3. QED
    BY <2>1, <2>2
<1>2. CASE x <= -1
  <2>1. M * x = -M + M * (x + 1)
    OBVIOUS
  <2>2. M * (x + 1) <= 0
    BY <1>2
  <2>3. QED
    BY <2>1, <2>2
<1>3. QED
  BY <1>1, <1>2

\* The remainder is the only one.
LEMMA ModUnique ==
    ASSUME NEW M \in Nat \ {0}, NEW a \in Nat, NEW q \in Int, NEW r \in 0 .. M - 1, a = M * q + r
    PROVE  a % M = r
<1>1. a = M * (a \div M) + (a % M) /\ a % M \in 0 .. M - 1 /\ a \div M \in Int
  OBVIOUS
<1> DEFINE x == (a \div M) - q
<1>2. M * x = r - (a % M)
  BY <1>1
<1>3. M * x < M /\ M * x > -M
  BY <1>1, <1>2
<1>4. x = 0
  BY <1>1, <1>3, Multiple
<1>5. QED
  BY <1>1, <1>2, <1>4

\* The remainder steps with the number.
LEMMA ModNext ==
    ASSUME NEW M \in Nat \ {0}, NEW a \in Nat
    PROVE  ((a % M) + 1) % M = (a + 1) % M
<1>1. a = M * (a \div M) + (a % M) /\ a % M \in 0 .. M - 1 /\ a \div M \in Int
  OBVIOUS
<1>2. CASE (a % M) + 1 < M
  <2>1. /\ a + 1 = M * (a \div M) + ((a % M) + 1)
        /\ (a % M) + 1 \in 0 .. M - 1 /\ a + 1 \in Nat
    BY <1>1, <1>2
  <2>2. (a + 1) % M = (a % M) + 1
    BY <1>1, <2>1, ModUnique
  <2>3. (a % M) + 1 = M * 0 + ((a % M) + 1)
    BY <1>1
  <2>4. ((a % M) + 1) % M = (a % M) + 1
    BY <2>1, <2>3, <1>1, ModUnique
  <2>5. QED
    BY <2>2, <2>4
<1>3. CASE (a % M) + 1 = M
  <2>1. /\ a + 1 = M * ((a \div M) + 1) + 0 /\ M = M * 1 + 0
        /\ (a \div M) + 1 \in Int /\ 0 \in 0 .. M - 1 /\ a + 1 \in Nat
    BY <1>1, <1>3
  <2>2. (a + 1) % M = 0
    BY <1>1, <2>1, ModUnique
  <2>3. M % M = 0
    BY <2>1, ModUnique
  <2>4. QED
    BY <1>3, <2>2, <2>3
<1>4. QED
  BY <1>1, <1>2, <1>3

\* Numbers that follow each other modulo M and are at most M apart follow
\* each other.
LEMMA ModStep ==
    ASSUME NEW M \in Nat \ {0}, NEW a \in Nat, NEW b \in Nat,
           a < b, b <= a + M, b % M = ((a % M) + 1) % M
    PROVE  b = a + 1
<1>1. b % M = (a + 1) % M
  BY ModNext
<1>2. /\ b = M * (b \div M) + (b % M) /\ b \div M \in Int
      /\ a + 1 = M * ((a + 1) \div M) + ((a + 1) % M) /\ (a + 1) \div M \in Int
      /\ b % M \in 0 .. M - 1
  OBVIOUS
<1> DEFINE x == (b \div M) - ((a + 1) \div M)
<1>3. M * x = b - (a + 1)
  BY <1>1, <1>2
<1>4. x = 0
  BY <1>2, <1>3, Multiple
<1>5. QED
  BY <1>3, <1>4

-----------------------------------------------------------------------------
(* What a client joins *)

Part(k) == received[k].payload
Last == Len(received)

\* Where the frame in hand is cut.
PlaceInv ==
    /\ pc = "nalu" => pNaluCurr = 1 /\ s32NaluRemain = size - 1
    /\ pc = "fu" => pNaluCurr + s32NaluRemain = size

\* The sequence number is the number of the packet modulo SeqMod, and packets
\* arrive in the order of their numbers.
NumberInv ==
    /\ u16SeqNum = made % SeqMod
    /\ \A k \in DOMAIN received :
          /\ received[k].nth < made
          /\ received[k].hdr.seq = received[k].nth % SeqMod
    /\ \A k \in 2 .. Last : received[k - 1].nth < received[k].nth

\* A packet that starts a frame has its first byte, one that ends it has its
\* last, and one that does neither goes on where the packet before it ended.
EdgeInv ==
    \A k \in DOMAIN received :
        /\ Part(k).start => Part(k).from = 1
        /\ Part(k).end /\ Part(k).frame = frame => Part(k).from + Part(k).len = size

StepInv ==
    \A k \in 2 .. Last :
        received[k].nth = received[k - 1].nth + 1 /\ ~Part(k).start =>
            /\ Part(k).frame = Part(k - 1).frame
            /\ Part(k).from = Part(k - 1).from + Part(k - 1).len

\* The same of the packet to be sent next.
HandInv ==
    pc = "fu" /\ s32NaluRemain # size - 1 /\ received # <<>> /\ received[Last].nth + 1 = made =>
        /\ Part(Last).frame = frame
        /\ Part(Last).from + Part(Last).len = pNaluCurr

\* The packets from p to q are all there, and none starts a frame but p.
Unbroken(p, q) ==
    \A k \in p + 1 .. q : received[k].nth = received[k - 1].nth + 1 /\ ~Part(k).start

RunInv == \A p, q \in DOMAIN received : p <= q /\ Unbroken(p, q) => Part(p).frame = Part(q).frame

JoinInv == PlaceInv /\ NumberInv /\ EdgeInv /\ StepInv /\ HandInv /\ RunInv

LEMMA InitJoinInv == Init => JoinInv
  BY RtpAssumption
     DEF Init, JoinInv, PlaceInv, NumberInv, EdgeInv, StepInv, HandInv, RunInv, Last

LEMMA ReceivedType ==
    ASSUME TypeOK
    PROVE  /\ received \in Seq(Packet) /\ Last \in Nat /\ DOMAIN received = 1 .. Last
           /\ made \in Nat /\ frame \in Nat /\ pNaluCurr \in Nat /\ s32NaluRemain \in Int
           /\ size \in Nat
           /\ \A k \in 1 .. Last :
                 /\ received[k].nth \in Nat
                 /\ Part(k).frame \in Nat /\ Part(k).from \in Nat /\ Part(k).len \in Nat
                 /\ Part(k).start \in BOOLEAN /\ Part(k).end \in BOOLEAN
<1>1. received \in Seq(Packet)
  BY DEF TypeOK, Packet
<1>2. Last \in Nat /\ DOMAIN received = 1 .. Last
  BY <1>1 DEF Last
<1>3. \A k \in 1 .. Last : received[k] \in Packet
  BY <1>1, <1>2
<1>4. \A k \in 1 .. Last : received[k].nth \in Nat /\ Part(k) \in
         [start : BOOLEAN, end : BOOLEAN, frame : 1 .. MaxFrames, from : Nat, len : Nat]
  BY <1>3 DEF Packet, Part
<1>5. \A k \in 1 .. Last :
         /\ Part(k).frame \in Nat /\ Part(k).from \in Nat /\ Part(k).len \in Nat
         /\ Part(k).start \in BOOLEAN /\ Part(k).end \in BOOLEAN
  BY <1>4, RtpAssumption
<1>6. /\ made \in Nat /\ frame \in Nat /\ pNaluCurr \in Nat /\ s32NaluRemain \in Int
      /\ size \in Nat
  BY RtpAssumption DEF TypeOK
<1>7. QED
  BY <1>1, <1>2, <1>4, <1>5, <1>6

\* A packet that goes on where the one before it ended, or starts its frame,
\* keeps what has arrived in pieces of one frame, whether it arrives or not.
LEMMA SendKeepsJoin ==
    ASSUME TypeOK, TypeOK', SendInv, JoinInv, NEW marker \in BOOLEAN, NEW start \in BOOLEAN,
           NEW end \in BOOLEAN, NEW len \in Nat,
           sendto(Header(marker), Payload(start, end, len)),
           UNCHANGED <<frame, size>>, PlaceInv',
           pc \in {"nalu", "fu"},
           start => pNaluCurr = 1,
           ~start => pc = "fu" /\ s32NaluRemain # size - 1,
           end => pNaluCurr + len = size,
           pc' = "fu" => pNaluCurr' = pNaluCurr + len
    PROVE  JoinInv'
<1> DEFINE packet == [hdr |-> Header(marker), payload |-> Payload(start, end, len), nth |-> made]
<1>1. /\ packet.nth = made /\ packet.hdr.seq = u16SeqNum
      /\ packet.payload = Payload(start, end, len)
      /\ packet.payload.start = start /\ packet.payload.end = end
      /\ packet.payload.frame = frame
      /\ packet.payload.from = pNaluCurr /\ packet.payload.len = len
  BY DEF Header, Payload
<1>2. made' = made + 1 /\ u16SeqNum' = made' % SeqMod
  BY ReceivedType, RtpAssumption, ModNext DEF sendto, CountPacket, NextSeq, JoinInv, NumberInv
<1>3. CASE received' = received
  <2>1. Last' = Last /\ \A k \in 1 .. Last : Part(k)' = Part(k)
    BY <1>3 DEF Last, Part
  <2>2. NumberInv'
    BY <1>2, <1>3, <2>1, ReceivedType DEF JoinInv, NumberInv
  <2>3. EdgeInv' /\ StepInv'
    <3>1. EdgeInv'
      BY <1>3 DEF JoinInv, EdgeInv, Part
    <3>2. StepInv'
      BY <1>3 DEF JoinInv, StepInv, Part, Last
    <3>3. QED
      BY <3>1, <3>2
  <2>4. HandInv'
    BY <1>2, <1>3, <2>1, ReceivedType DEF JoinInv, HandInv, NumberInv
  <2>5. RunInv'
    BY <1>3 DEF JoinInv, RunInv, Unbroken, Part
  <2>6. QED
    BY <2>2, <2>3, <2>4, <2>5 DEF JoinInv
<1>4. CASE received' = Append(received, packet)
  <2> DEFINE part(k) == received'[k].payload
  <2>0. PICK L \in Nat : L = Last
    BY ReceivedType
  <2>1. /\ DOMAIN received' = 1 .. L + 1 /\ Last' = L + 1
        /\ \A k \in 1 .. L : received'[k] = received[k] /\ part(k) = Part(k)
        /\ received'[L + 1] = packet /\ part(L + 1) = Payload(start, end, len)
    BY <1>1, <1>4, <2>0, ReceivedType DEF Last, Part
  <2>2. \A k \in 2 .. L + 1 : k - 1 \in 1 .. L
    BY ReceivedType
  <2>3. NumberInv'
    <3>1. \A k \in 1 .. L + 1 :
             received'[k].nth < made' /\ received'[k].hdr.seq = received'[k].nth % SeqMod
      <4> SUFFICES ASSUME NEW k \in 1 .. L + 1
                   PROVE  received'[k].nth < made' /\ received'[k].hdr.seq = received'[k].nth % SeqMod
        OBVIOUS
      <4>1. CASE k \in 1 .. L
        <5>1. /\ received'[k] = received[k] /\ received[k].nth \in Nat
              /\ received[k].nth < made /\ received[k].hdr.seq = received[k].nth % SeqMod
          BY <2>0, <2>1, <4>1, ReceivedType DEF JoinInv, NumberInv
        <5>2. QED
          BY <1>2, <5>1, ReceivedType
      <4>2. CASE k = L + 1
        <5>1. received'[k].nth = made /\ received'[k].hdr.seq = made % SeqMod
          BY <1>1, <2>1, <4>2 DEF JoinInv, NumberInv
        <5>2. QED
          BY <1>2, <5>1, ReceivedType
      <4>3. QED
        BY <4>1, <4>2
    <3>2. \A k \in 2 .. L + 1 : received'[k - 1].nth < received'[k].nth
      <4> SUFFICES ASSUME NEW k \in 2 .. L + 1
                   PROVE  received'[k - 1].nth < received'[k].nth
        OBVIOUS
      <4>1. received'[k - 1] = received[k - 1] /\ k - 1 \in 1 .. L
        BY <2>1, <2>2
      <4>2. CASE k \in 1 .. L
        <5>1. received'[k] = received[k] /\ k \in 2 .. Last
          BY <2>0, <2>1, <4>2
        <5>2. received[k - 1].nth < received[k].nth
          BY <5>1 DEF JoinInv, NumberInv
        <5>3. QED
          BY <4>1, <5>1, <5>2
      <4>3. CASE k = L + 1
        <5>1. received'[k].nth = made
          BY <1>1, <2>1, <4>3
        <5>2. received[k - 1].nth < made
          <6>1. k - 1 \in DOMAIN received
            BY <2>0, <4>1, ReceivedType DEF Last
          <6>2. QED
            BY <6>1 DEF JoinInv, NumberInv
        <5>3. QED
          BY <4>1, <5>1, <5>2
      <4>4. QED
        BY <4>2, <4>3
    <3>3. QED
      BY <1>2, <2>0, <2>1, <3>1, <3>2 DEF NumberInv
  <2>4. EdgeInv'
    BY <1>1, <2>0, <2>1, ReceivedType DEF JoinInv, EdgeInv, Part
  \* The packet before the new one, if it arrived, is the one made before it.
  <2>5. ASSUME L >= 1, received[L].nth + 1 = made, ~start
        PROVE  Part(L).frame = frame /\ Part(L).from + Part(L).len = pNaluCurr
    BY <2>0, <2>5, ReceivedType DEF JoinInv, HandInv, Last
  <2>6. StepInv'
    <3> SUFFICES ASSUME NEW k \in 2 .. L + 1,
                        received'[k].nth = received'[k - 1].nth + 1, ~part(k).start
                 PROVE  /\ part(k).frame = part(k - 1).frame
                        /\ part(k).from = part(k - 1).from + part(k - 1).len
      BY <2>0, <2>1 DEF StepInv, Part
    <3>1. CASE k = L + 1
      <4>1. L >= 1 /\ k - 1 = L /\ ~start /\ received[L].nth + 1 = made
        BY <1>1, <2>0, <2>1, <3>1, ReceivedType
      <4>2. QED
        BY <1>1, <2>0, <2>1, <2>5, <3>1, <4>1, ReceivedType
    <3>2. CASE k # L + 1
      <4>1. k \in 2 .. L /\ k \in 1 .. L /\ k - 1 \in 1 .. L
        BY <3>2, ReceivedType
      <4>2. QED
        BY <2>0, <2>1, <4>1 DEF JoinInv, StepInv, Part
    <3>3. QED
      BY <3>1, <3>2
  <2>7. HandInv'
    BY <1>1, <2>1 DEF HandInv, Part
  <2>8. RunInv'
    <3> SUFFICES ASSUME NEW p \in 1 .. L + 1, NEW q \in 1 .. L + 1, p <= q,
                        Unbroken(p, q)'
                 PROVE  part(p).frame = part(q).frame
      BY <2>0, <2>1 DEF RunInv, Part
    <3>1. CASE q # L + 1
      <4>1. p \in 1 .. L /\ q \in 1 .. L
        BY <3>1, ReceivedType
      <4>2. Unbroken(p, q)
        <5> SUFFICES ASSUME NEW k \in p + 1 .. q
                     PROVE  received[k].nth = received[k - 1].nth + 1 /\ ~Part(k).start
          BY DEF Unbroken
        <5>1. k \in 1 .. L /\ k - 1 \in 1 .. L
          BY <4>1
        <5>2. received'[k].nth = received'[k - 1].nth + 1 /\ ~part(k).start
          BY DEF Unbroken, Part
        <5>3. QED
          BY <2>1, <5>1, <5>2
      <4>3. QED
        <5>1. p \in DOMAIN received /\ q \in DOMAIN received
          BY <2>0, <4>1, ReceivedType
        <5>2. Part(p).frame = Part(q).frame
          BY <4>2, <5>1 DEF JoinInv, RunInv
        <5>3. QED
          BY <2>1, <4>1, <5>2
    <3>2. CASE q = L + 1 /\ p # q
      <4>1. p \in 1 .. L /\ L \in 1 .. L /\ p <= L /\ q \in p + 1 .. q /\ q \in 2 .. L + 1
        BY <3>2, ReceivedType
      <4>2. Unbroken(p, L)
        <5> SUFFICES ASSUME NEW k \in p + 1 .. L
                     PROVE  received[k].nth = received[k - 1].nth + 1 /\ ~Part(k).start
          BY DEF Unbroken
        <5>1. k \in 1 .. L /\ k - 1 \in 1 .. L /\ k \in p + 1 .. q
          BY <3>2, <4>1
        <5>2. received'[k].nth = received'[k - 1].nth + 1 /\ ~part(k).start
          BY <5>1 DEF Unbroken, Part
        <5>3. QED
          BY <2>1, <5>1, <5>2
      <4>3. Part(p).frame = Part(L).frame
        <5>1. p \in DOMAIN received /\ L \in DOMAIN received
          BY <2>0, <4>1, ReceivedType
        <5>2. QED
          BY <4>1, <4>2, <5>1 DEF JoinInv, RunInv
      <4>4. part(q).frame = part(q - 1).frame
        BY <2>0, <2>1, <2>6, <4>1 DEF Unbroken, StepInv, Part
      <4>5. QED
        BY <2>0, <2>1, <3>2, <4>1, <4>3, <4>4, ReceivedType
    <3>3. QED
      BY <3>1, <3>2
  <2>9. QED
    BY <2>3, <2>4, <2>6, <2>7, <2>8 DEF JoinInv
<1>5. QED
  BY <1>3, <1>4 DEF sendto

LEMMA NextJoinInv == TypeOK /\ TypeOK' /\ SendInv /\ IInv /\ JoinInv /\ [Next]_vars => JoinInv'
<1> SUFFICES ASSUME TypeOK, TypeOK', SendInv, IInv, JoinInv, [Next]_vars
             PROVE  JoinInv'
  OBVIOUS
\* No packet that has arrived is of a new frame.
<1>1. CASE RtpSend
  <2>1. /\ UNCHANGED <<received, made, u16SeqNum>> /\ frame' = frame + 1
        /\ pc' = "nalu" /\ pNaluCurr' = 1 /\ s32NaluRemain' = size' - 1
    BY <1>1 DEF RtpSend
  <2>2. Last' = Last /\ \A k \in 1 .. Last : Part(k).frame < frame'
    BY <2>1, ReceivedType DEF IInv, FramesInv, Last, Part
  <2>3. EdgeInv'
    BY <2>1, <2>2, ReceivedType DEF JoinInv, EdgeInv, Part
  <2>4. PlaceInv' /\ HandInv'
    BY <2>1, ReceivedType DEF PlaceInv, HandInv
  <2>5. NumberInv' /\ StepInv' /\ RunInv'
    BY <2>1, <2>2 DEF JoinInv, NumberInv, StepInv, RunInv, Unbroken, Part
  <2>6. QED
    BY <2>3, <2>4, <2>5 DEF JoinInv
<1>2. CASE SendSingle
  <2>1. /\ sendto(Header(TRUE), Payload(TRUE, TRUE, s32NaluRemain))
        /\ pc = "nalu" /\ pc' = "idle" /\ UNCHANGED <<frame, size>> /\ s32NaluRemain >= 0
    BY <1>2 DEF SendSingle
  <2>2. pNaluCurr = 1 /\ pNaluCurr + s32NaluRemain = size /\ s32NaluRemain \in Nat
    BY <2>1, ReceivedType DEF JoinInv, PlaceInv
  <2>3. PlaceInv'
    BY <2>1 DEF PlaceInv
  <2>4. QED
    BY <2>1, <2>2, <2>3, SendKeepsJoin
\* A fragment that does not start the frame goes on where the last one ended.
<1>3. CASE SendFu
  <2>1. /\ sendto(Header(FitsPacket), Payload(IsFirst, FitsPacket, FuLength))
        /\ pc = "fu" /\ UNCHANGED <<frame, size>>
        /\ pNaluCurr' = pNaluCurr + MAX_RTP_PKT_LENGTH
        /\ s32NaluRemain' = s32NaluRemain - MAX_RTP_PKT_LENGTH
        /\ pc' = IF s32NaluRemain' <= 0 THEN "idle" ELSE "fu"
    BY <1>3 DEF SendFu
  <2>2. pNaluCurr + s32NaluRemain = size /\ s32NaluRemain > 0
    BY <2>1 DEF JoinInv, PlaceInv, SendInv
  <2>3. FuLength \in Nat /\ FitsPacket \in BOOLEAN /\ IsFirst \in BOOLEAN
    BY <2>2, RtpAssumption, ReceivedType DEF FuLength, FitsPacket, IsFirst
  <2>4. IsFirst => pNaluCurr = 1
    BY <2>2, ReceivedType DEF IsFirst
  <2>5. FitsPacket => pNaluCurr + FuLength = size
    BY <2>2, RtpAssumption, ReceivedType DEF FitsPacket, FuLength
  <2>6. pc' = "fu" => pNaluCurr' = pNaluCurr + FuLength
    BY <2>1, <2>2, RtpAssumption, ReceivedType DEF FuLength
  <2>7. PlaceInv'
    BY <2>1, <2>2, RtpAssumption, ReceivedType DEF PlaceInv
  <2>8. ~IsFirst => s32NaluRemain # size - 1
    BY DEF IsFirst
  <2>9. QED
    BY <2>1, <2>3, <2>4, <2>5, <2>6, <2>7, <2>8, SendKeepsJoin
\* The packet that was made is missing, and the next one starts a frame.
<1>4. CASE SendFuFails
  <2>1. /\ UNCHANGED <<received, frame, size>> /\ made' = made + 1
        /\ u16SeqNum' = (u16SeqNum + 1) % SeqMod /\ pc' = "idle"
    BY <1>4 DEF SendFuFails, CountPacket, NextSeq
  <2>2. u16SeqNum' = made' % SeqMod
    BY <2>1, ReceivedType, RtpAssumption, ModNext DEF JoinInv, NumberInv
  <2>3. NumberInv'
    BY <2>1, <2>2, ReceivedType DEF JoinInv, NumberInv, Last
  <2>4. EdgeInv' /\ StepInv' /\ RunInv'
    BY <2>1 DEF JoinInv, EdgeInv, StepInv, RunInv, Unbroken, Part, Last
  <2>5. PlaceInv' /\ HandInv'
    BY <2>1 DEF PlaceInv, HandInv
  <2>6. QED
    BY <2>3, <2>4, <2>5 DEF JoinInv
\* Before the first fragment none of the frame has been sent.
<1>5. CASE StartFu
  <2>1. /\ UNCHANGED <<received, made, u16SeqNum, frame, size, pNaluCurr, s32NaluRemain>>
        /\ pc = "nalu" /\ pc' = "fu"
    BY <1>5 DEF StartFu
  <2>2. NumberInv' /\ EdgeInv' /\ StepInv' /\ RunInv'
    BY <2>1 DEF JoinInv, NumberInv, EdgeInv, StepInv, RunInv, Unbroken, Part, Last
  <2>3. PlaceInv' /\ HandInv'
    BY <2>1, ReceivedType DEF JoinInv, PlaceInv, HandInv
  <2>4. QED
    BY <2>2, <2>3 DEF JoinInv
<1>6. CASE SendNegative \/ UNCHANGED vars
  <2>1. /\ UNCHANGED <<received, made, u16SeqNum, frame, size, pNaluCurr, s32NaluRemain>>
        /\ pc' \in {pc, "crashed"}
    BY <1>6 DEF SendNegative, vars
  <2>2. NumberInv' /\ EdgeInv' /\ StepInv' /\ RunInv'
    BY <2>1 DEF JoinInv, NumberInv, EdgeInv, StepInv, RunInv, Unbroken, Part, Last
  <2>3. PlaceInv' /\ HandInv'
    BY <2>1 DEF JoinInv, PlaceInv, HandInv, Part, Last
  <2>4. QED
    BY <2>2, <2>3 DEF JoinInv
<1>7. QED
  BY <1>1, <1>2, <1>3, <1>4, <1>5, <1>6 DEF Next, SendPacket

\* Consecutive sequence numbers are those of consecutive packets, unless a
\* burst of loss is as long as their range.
LEMMA JoinedIsUnbroken ==
    ASSUME TypeOK, JoinInv, NEW p \in DOMAIN received, NEW q \in DOMAIN received, p <= q,
           Joined(p, q), ShortBursts(p, q)
    PROVE  Unbroken(p, q)
<1> SUFFICES ASSUME NEW k \in p + 1 .. q
             PROVE  received[k].nth = received[k - 1].nth + 1
  BY DEF Unbroken, Joined, Part
<1>1. k \in 2 .. Last /\ k \in 1 .. Last /\ k - 1 \in 1 .. Last
  BY ReceivedType
<1>2. /\ received[k - 1].nth \in Nat /\ received[k].nth \in Nat
      /\ received[k - 1].nth < received[k].nth
      /\ received[k].hdr.seq = received[k].nth % SeqMod
      /\ received[k - 1].hdr.seq = received[k - 1].nth % SeqMod
  BY <1>1, ReceivedType DEF JoinInv, NumberInv
<1>3. /\ received[k].nth <= received[k - 1].nth + SeqMod
      /\ received[k].nth % SeqMod = ((received[k - 1].nth % SeqMod) + 1) % SeqMod
  BY <1>2 DEF ShortBursts, Joined
<1>4. QED
  BY <1>2, <1>3, RtpAssumption, ModStep

LEMMA JoinInvImplies == TypeOK /\ JoinInv => JoinedIsFrame
<1> SUFFICES ASSUME TypeOK, JoinInv, NEW p \in DOMAIN received, NEW q \in DOMAIN received,
                    p <= q, Joined(p, q), ShortBursts(p, q)
             PROVE  /\ Part(p).from = 1
                    /\ \A k \in p + 1 .. q :
                          /\ Part(k).frame = Part(p).frame
                          /\ Part(k).from = Part(k - 1).from + Part(k - 1).len
                    /\ Part(q).frame = frame => Part(q).from + Part(q).len = size
  BY DEF JoinedIsFrame, Part
<1>1. Unbroken(p, q)
  BY JoinedIsUnbroken
<1>2. Part(p).start /\ Part(q).end
  BY DEF Joined, Part
<1>3. Part(p).from = 1 /\ (Part(q).frame = frame => Part(q).from + Part(q).len = size)
  BY <1>2 DEF JoinInv, EdgeInv
<1>4. ASSUME NEW k \in p + 1 .. q
      PROVE  /\ Part(k).frame = Part(p).frame
             /\ Part(k).from = Part(k - 1).from + Part(k - 1).len
  <2>1. k \in DOMAIN received /\ p <= k /\ k \in 2 .. Last
    BY ReceivedType
  <2>2. Unbroken(p, k)
    BY <1>1, <2>1, ReceivedType DEF Unbroken
  <2>3. Part(k).frame = Part(p).frame
    BY <2>1, <2>2 DEF JoinInv, RunInv
  <2>4. QED
    BY <1>1, <2>1, <2>3 DEF JoinInv, StepInv, Unbroken
<1>5. QED
  BY <1>3, <1>4

\* What a client joins is one frame, from its first byte to its last, for
\* frames and packets of any size, whichever sends fail and packets are lost,
\* while no burst of loss is as long as the range of the sequence numbers.
THEOREM JoinedFrameIsWhole == Spec => []JoinedIsFrame
<1>1. Init => IInv
  BY DEF Init, IInv, FramesInv, MarkerEndsFrame
<1>2. QED
  BY <1>1, InitTypeOK, NextTypeOK, NextIInv, InitJoinInv, NextJoinInv, JoinInvImplies,
     PTL DEF Spec
=============================================================================

----------------------------- MODULE RtpSender -----------------------------
(***************************************************************************)
(* src/rtsp/rtputils.c: RtpSend and SendNalu264, which cut the frames of   *)
(* one stream into RTP packets: a frame that fits goes out whole, a longer *)
(* one as FU-A fragments.  One step is one packet.                         *)
(*                                                                         *)
(* The bytes of a frame are the numbers 0 .. size - 1; a packet carries    *)
(* the bytes from .. from + len - 1, and byte 0 goes into its header.  The *)
(* clock reading of a frame is its number.  A sendto may fail, which ends  *)
(* the frame and which schedule_do ignores, and the network may lose what  *)
(* was sent; the network is external.  The packet buffer is assumed to     *)
(* be allocated.                                                           *)
(*                                                                         *)
(* RTSP_setup creates every handle with the payload _h264nalu: the parts   *)
(* of RtpSend for other payloads are never run and are left out.           *)
(***************************************************************************)
EXTENDS Integers, Sequences

CONSTANTS MAX_RTP_PKT_LENGTH,   \* the most bytes in a packet (1400 in the code)
          SeqMod,               \* the values of u16SeqNum (2^16 in the code)
          FrameSizes,           \* the sizes RtpSend is called with
          MaxFrames             \* bound: the number of frames

ASSUME RtpAssumption == /\ MAX_RTP_PKT_LENGTH \in Nat \ {0}
                        /\ SeqMod \in Nat \ {0}
                        /\ FrameSizes \subseteq Nat
                        /\ MaxFrames \in Nat

VARIABLES
    u16SeqNum,        \* of the handle: the next sequence number
    frame,            \* the number of the current frame, and of frames so far
    size,             \* s32NalBufSize
    pNaluCurr,        \* the next byte to send
    s32NaluRemain,    \* the bytes not yet sent
    pc,               \* "idle", "nalu" at the length test, "fu" in the loop,
                      \* "crashed"
    received,         \* the packets that reach the client, in order
    made              \* ghost: the packets made so far

vars == <<u16SeqNum, frame, size, pNaluCurr, s32NaluRemain, pc, received, made>>

\* RtpCreate
Init == /\ u16SeqNum = 0
        /\ frame = 0 /\ size = 0
        /\ pNaluCurr = 0 /\ s32NaluRemain = 0
        /\ pc = "idle"
        /\ received = <<>>
        /\ made = 0

\* RtpSend, and SendNalu264 up to the length test.  A frame of size 0 leaves
\* -1 bytes.
RtpSend == /\ pc = "idle" /\ frame < MaxFrames
           /\ frame' = frame + 1
           /\ size' \in FrameSizes
           /\ pNaluCurr' = 1
           /\ s32NaluRemain' = size' - 1
           /\ pc' = "nalu"
           /\ UNCHANGED <<u16SeqNum, received, made>>

\* The fixed header as it lies in the buffer: the 64 bits of u32TimeStamp are
\* aligned to 8 bytes, and so stand where the client reads the SSRC; where it
\* reads the time stamp are the zeros of calloc.  u32SSrc is overwritten by
\* the payload or not sent.
Header(marker) == [seq |-> u16SeqNum, marker |-> marker,
                   timestamp |-> 0, ssrc |-> frame]

\* The fragment header's first and last bits, both set where there is none.
Payload(start, end, len) ==
    [start |-> start, end |-> end, frame |-> frame, from |-> pNaluCurr, len |-> len]

\* Faulty variant of NextSeq: the number is wider than the header's 16 bits.
NextSeq_NoWrap == u16SeqNum + 1

NextSeq == (u16SeqNum + 1) % SeqMod

\* u16SeqNum++
CountPacket == u16SeqNum' = NextSeq /\ made' = made + 1

\* A packet whose sendto succeeds: it arrives or is lost.
sendto(hdr, payload) ==
    /\ CountPacket
    /\ \/ received' = Append(received, [hdr |-> hdr, payload |-> payload, nth |-> made])
       \/ UNCHANGED received

\* The length handed to memcpy is -1.
SendNegative == /\ pc = "nalu"
                /\ s32NaluRemain < 0
                /\ pc' = "crashed"
                /\ UNCHANGED <<u16SeqNum, frame, size, pNaluCurr,
                               s32NaluRemain, received, made>>

\* Faulty variant of FitsPacket: byte 0 is taken off a second time.
FitsPacket_OffByOne == s32NaluRemain - 1 <= MAX_RTP_PKT_LENGTH

\* What is left of the frame goes into one packet.
FitsPacket == s32NaluRemain <= MAX_RTP_PKT_LENGTH

\* The frame goes out in one packet; a sendto that fails is like one lost.
SendSingle ==
    /\ pc = "nalu" /\ s32NaluRemain >= 0 /\ FitsPacket
    /\ sendto(Header(TRUE), Payload(TRUE, TRUE, s32NaluRemain))
    /\ pc' = "idle"
    /\ UNCHANGED <<frame, size, pNaluCurr, s32NaluRemain>>

StartFu == /\ pc = "nalu" /\ ~FitsPacket
           /\ pc' = "fu"
           /\ UNCHANGED <<u16SeqNum, frame, size, pNaluCurr, s32NaluRemain, received, made>>

\* Faulty variant of IsFirst: the start bit of a fragment is never cleared.
IsFirst_Sticky == TRUE

\* The start bit is set for the fragment that has all but byte 0 before it.
IsFirst == s32NaluRemain = size - 1

FuLength == IF s32NaluRemain < MAX_RTP_PKT_LENGTH
            THEN s32NaluRemain ELSE MAX_RTP_PKT_LENGTH

\* One turn of the FU-A loop whose sendto succeeds.
SendFu ==
    /\ pc = "fu"
    /\ sendto(Header(FitsPacket), Payload(IsFirst, FitsPacket, FuLength))
    /\ pNaluCurr' = pNaluCurr + MAX_RTP_PKT_LENGTH
    /\ s32NaluRemain' = s32NaluRemain - MAX_RTP_PKT_LENGTH
    /\ pc' = IF s32NaluRemain' <= 0 THEN "idle" ELSE "fu"
    /\ UNCHANGED <<frame, size>>

\* The sendto of a fragment fails, and the rest of the frame is given up.
SendFuFails ==
    /\ pc = "fu"
    /\ CountPacket
    /\ pc' = "idle"
    /\ UNCHANGED <<frame, size, pNaluCurr, s32NaluRemain, received>>

SendPacket == SendNegative \/ SendSingle \/ StartFu \/ SendFu \/ SendFuFails

Next == RtpSend \/ SendPacket

Spec == Init /\ [][Next]_vars

-----------------------------------------------------------------------------
TypeOK ==
    /\ u16SeqNum \in 0 .. SeqMod - 1
    /\ frame \in 0 .. MaxFrames
    /\ size \in FrameSizes \cup {0}
    /\ pNaluCurr \in Nat
    /\ s32NaluRemain \in Int
    /\ pc \in {"idle", "nalu", "fu", "crashed"}
    /\ received \in Seq([hdr : [seq : 0 .. SeqMod - 1, marker : BOOLEAN,
                                timestamp : {0}, ssrc : 1 .. MaxFrames],
                         payload : [start : BOOLEAN, end : BOOLEAN,
                                    frame : 1 .. MaxFrames, from : Nat, len : Nat],
                         nth : Nat])
    /\ made \in Nat

\* A client joins the packets p .. q: the first starts a frame, the last ends
\* one, none between starts another, and no sequence number is missing.
Joined(p, q) ==
    /\ received[p].payload.start /\ received[q].payload.end
    /\ \A k \in p + 1 .. q :
          /\ ~received[k].payload.start
          /\ received[k].hdr.seq = (received[k - 1].hdr.seq + 1) % SeqMod

\* Between the packets p and q fewer than SeqMod ones are missing in a row.
ShortBursts(p, q) ==
    \A k \in p + 1 .. q : received[k].nth <= received[k - 1].nth + SeqMod

\* The bytes that a client joins are those of one frame, in order and from
\* its first to its last byte, whatever packets failed or were lost before,
\* between or after them, as long as the 16 bits of the sequence number can
\* tell a loss from none.
JoinedIsFrame ==
    \A p, q \in DOMAIN received : p <= q /\ Joined(p, q) /\ ShortBursts(p, q) =>
        LET part(k) == received[k].payload
        IN  /\ part(p).from = 1
            /\ \A k \in p + 1 .. q :
                  /\ part(k).frame = part(p).frame
                  /\ part(k).from = part(k - 1).from + part(k - 1).len
            /\ part(q).frame = frame =>
                  part(q).from + part(q).len = size

\* The marker of the fixed header and the end bit tell a client the same, and
\* after a packet that carries them nothing of the frame follows.
MarkerEndsFrame ==
    \A k \in DOMAIN received :
        LET packet == received[k]
        IN  /\ packet.hdr.marker <=> packet.payload.end
            /\ packet.hdr.marker =>
                  \A j \in k + 1 .. Len(received) :
                      received[j].payload.frame > packet.payload.frame
=============================================================================

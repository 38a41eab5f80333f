------------------------------ MODULE ParamSets ------------------------------
(***************************************************************************)
(* The parameter sets that DESCRIBE publishes.  The encoder thread goes    *)
(* through the packs of a frame (HisiPutH264DataToBuffer,                  *)
(* src/rtsp/ringfifo.c) and, at an SPS or a PPS, rewrites the strings of   *)
(* psp (UpdateSps, UpdatePps, src/rtsp/rtspservice.c).  The main thread    *)
(* answers DESCRIBE by copying the same strings (GetSdpDescr), without a   *)
(* lock.                                                                   *)
(*                                                                         *)
(* A step of either thread is one character of psp.  A character is 0 for  *)
(* the terminating zero, else the number of the key frame whose update     *)
(* wrote it; a character of the two base64 texts stands for the four that  *)
(* base64 makes of three bytes.  Which bytes of the slot are encoded is    *)
(* left out, and the ring with them.                                       *)
(***************************************************************************)
EXTENDS Integers, Sequences

CONSTANTS
    SPS_LEN,         \* characters of the text of an SPS (9 bytes make 12)
    PPS_LEN,         \* characters of the text of a PPS (4 bytes make 8)
    PROFILE_LEN,     \* the most digits that three "%x" of a byte print (6)
    ProfileWidths,   \* the numbers of digits they do print
    MaxKeyFrames     \* bound: key frames made by the encoder

\* The packs of a key frame and of any other, as the encoder delivers them.
KeyFrame == <<"sps", "pps", "idr">>
OtherFrame == <<"slice">>
Frames == {KeyFrame, OtherFrame}

ASSUME ParamSetsAssumption ==
    /\ SPS_LEN \in Nat \ {0} /\ PPS_LEN \in Nat \ {0}
    /\ PROFILE_LEN \in Nat \ {0}
    /\ ProfileWidths \subseteq 1 .. PROFILE_LEN
    /\ MaxKeyFrames \in Nat

VARIABLES
    base64profileid, base64sps, base64pps,    \* the strings of psp
    made,            \* key frames made so far
    packs, i,        \* encoder thread: the frame, and the pack in hand
    vpc, k, width,   \*   where it is, its place in the string, the digits to print
    dpc, j,          \* DESCRIBE: the string it copies, its place in it
    whole,           \*   whether every set had been published when it began
    pDescr           \*   the three texts copied so far

psp == <<base64profileid, base64sps, base64pps>>
venc == <<made, packs, i, vpc, k, width>>
describe == <<dpc, j, whole, pDescr>>
vars == <<psp, venc, describe>>

NUL == 0
Char == 0 .. MaxKeyFrames
Empty == [profileid |-> <<>>, sps |-> <<>>, pps |-> <<>>]

Init == /\ base64profileid = [p \in 0 .. PROFILE_LEN |-> NUL]
        /\ base64sps = [p \in 0 .. SPS_LEN |-> NUL]
        /\ base64pps = [p \in 0 .. PPS_LEN |-> NUL]
        /\ made = 0
        /\ packs = OtherFrame /\ i = 1
        /\ vpc = "idle" /\ k = 0 /\ width = PROFILE_LEN
        /\ dpc = "idle" /\ j = 0 /\ whole = FALSE
        /\ pDescr = Empty

-----------------------------------------------------------------------------
(* The encoder thread: HisiPutH264DataToBuffer *)

\* A frame for which there is room.
NewFrame(f) ==
    /\ vpc = "idle"
    /\ f = KeyFrame => made < MaxKeyFrames
    /\ made' = IF f = KeyFrame THEN made + 1 ELSE made
    /\ packs' = f /\ i' = 1
    /\ vpc' = "look"
    /\ UNCHANGED <<psp, k, width, describe>>

\* UpdateSps is called.  Its three "%x" print one or two digits each.
CallUpdateSps ==
    /\ vpc = "look" /\ packs[i] = "sps"
    /\ width' \in ProfileWidths
    /\ k' = 0
    /\ vpc' = "profileid"
    /\ UNCHANGED <<psp, made, packs, i, describe>>

\* Faulty variant of CallUpdatePps: the PPS is published once only.
CallUpdatePps_Once ==
    /\ vpc = "look" /\ packs[i] = "pps"
    /\ k' = 0
    /\ IF base64pps[0] = NUL THEN vpc' = "pps" /\ i' = i
                             ELSE vpc' = "look" /\ i' = i + 1
    /\ UNCHANGED <<psp, made, packs, width, describe>>

CallUpdatePps ==
    /\ vpc = "look" /\ packs[i] = "pps"
    /\ k' = 0
    /\ vpc' = "pps"
    /\ UNCHANGED <<psp, made, packs, i, width, describe>>

\* After the last pack, which is never an SPS or a PPS, the frame is complete.
LastPack ==
    /\ vpc = "look" /\ packs[i] \notin {"sps", "pps"}
    /\ vpc' = "idle"
    /\ UNCHANGED <<psp, made, packs, i, k, width, describe>>

\* The k-th character of a text of len characters and a terminating zero.
Written(len) == IF k < len THEN made ELSE NUL

\* Faulty variant of sprintf: it prints a digit too many.
sprintf_Wider ==
    /\ vpc = "profileid"
    /\ k <= PROFILE_LEN
    /\ base64profileid' = [base64profileid EXCEPT ![k] = made]
    /\ k' = IF k < PROFILE_LEN THEN k + 1 ELSE 0
    /\ vpc' = IF k < PROFILE_LEN THEN vpc ELSE "sps"
    /\ UNCHANGED <<base64sps, base64pps, made, packs, i, width, describe>>

\* UpdateSps: the profile id, from the bytes 1 to 3 of its data
sprintf ==
    /\ vpc = "profileid"
    /\ base64profileid' = [base64profileid EXCEPT ![k] = Written(width)]
    /\ k' = IF k < width THEN k + 1 ELSE 0
    /\ vpc' = IF k < width THEN vpc ELSE "sps"
    /\ UNCHANGED <<base64sps, base64pps, made, packs, i, width, describe>>

\* The place in a text of len characters moves on; after the zero the encoder
\* looks at the next pack.
Advance(len) ==
    IF k < len THEN k' = k + 1 /\ UNCHANGED <<vpc, i>>
               ELSE k' = 0 /\ vpc' = "look" /\ i' = i + 1

\* Faulty variant of EncodeSps: the string is emptied before it is written.
EncodeSps_ClearsFirst ==
    /\ vpc = "sps"
    /\ IF k = 0 /\ base64sps[0] # NUL
       THEN base64sps' = [p \in 0 .. SPS_LEN |-> NUL] /\ UNCHANGED <<k, vpc, i>>
       ELSE base64sps' = [base64sps EXCEPT ![k] = Written(SPS_LEN)] /\ Advance(SPS_LEN)
    /\ UNCHANGED <<base64profileid, base64pps, made, packs, width, describe>>

\* UpdateSps: base64_encode2 into base64sps
EncodeSps ==
    /\ vpc = "sps"
    /\ base64sps' = [base64sps EXCEPT ![k] = Written(SPS_LEN)]
    /\ Advance(SPS_LEN)
    /\ UNCHANGED <<base64profileid, base64pps, made, packs, width, describe>>

\* UpdatePps: base64_encode2 into base64pps
EncodePps ==
    /\ vpc = "pps"
    /\ base64pps' = [base64pps EXCEPT ![k] = Written(PPS_LEN)]
    /\ Advance(PPS_LEN)
    /\ UNCHANGED <<base64profileid, base64sps, made, packs, width, describe>>

Venc == \/ \E f \in Frames : NewFrame(f)
        \/ CallUpdateSps \/ CallUpdatePps \/ LastPack
        \/ sprintf \/ EncodeSps \/ EncodePps

-----------------------------------------------------------------------------
(* The main thread: RTSP_describe and GetSdpDescr *)

\* Every parameter set has been published once.
Published == base64pps[PPS_LEN - 1] # NUL

DescribeBegin ==
    /\ dpc = "idle"
    /\ dpc' = "profileid" /\ j' = 0
    /\ whole' = Published
    /\ UNCHANGED <<psp, venc, pDescr>>

\* strcat of one string of psp: the next character of string s, or its end.
strcat(field, s, next) ==
    /\ dpc = field
    /\ IF s[j] = NUL
       THEN /\ dpc' = next /\ j' = 0
            /\ UNCHANGED pDescr
       ELSE /\ j' = j + 1
            /\ pDescr' = [pDescr EXCEPT ![field] = Append(@, s[j])]
            /\ UNCHANGED dpc
    /\ UNCHANGED <<psp, venc, whole>>

CopyProfileId == strcat("profileid", base64profileid, "sps")
CopySps == strcat("sps", base64sps, "pps")
CopyPps == strcat("pps", base64pps, "send")

\* SendDescribeReply, with the text as it was copied
SendDescribeReply ==
    /\ dpc = "send"
    /\ dpc' = "idle"
    /\ whole' = FALSE
    /\ pDescr' = Empty
    /\ UNCHANGED <<psp, venc, j>>

Describe == DescribeBegin \/ CopyProfileId \/ CopySps \/ CopyPps \/ SendDescribeReply

-----------------------------------------------------------------------------
Next == Venc \/ Describe

Spec == Init /\ [][Next]_vars

-----------------------------------------------------------------------------
TypeOK ==
    /\ base64profileid \in [0 .. PROFILE_LEN -> Char]
    /\ base64sps \in [0 .. SPS_LEN -> Char]
    /\ base64pps \in [0 .. PPS_LEN -> Char]
    /\ made \in 0 .. MaxKeyFrames
    /\ packs \in Frames
    /\ i \in DOMAIN packs
    /\ vpc \in {"idle", "look", "profileid", "sps", "pps"}
    /\ width \in 1 .. PROFILE_LEN
    /\ k \in Nat
    /\ vpc = "profileid" => k <= width
    /\ vpc = "sps" => k <= SPS_LEN
    /\ vpc = "pps" => k <= PPS_LEN
    /\ dpc \in {"idle", "profileid", "sps", "pps", "send"}
    /\ j \in Nat
    /\ whole \in BOOLEAN
    /\ pDescr \in [profileid : Seq(Char), sps : Seq(Char), pps : Seq(Char)]

\* However an update and a DESCRIBE interleave, the copy of each string ends
\* inside its array: the two base64 texts always have the same length, the
\* profile id varies from 3 to 6 digits, and the zero that ended the longest
\* text so far is never overwritten by the first characters of a longer one.
CopyEndsInArray ==
    /\ dpc = "profileid" => \E p \in j .. PROFILE_LEN : base64profileid[p] = NUL
    /\ dpc = "sps" => \E p \in j .. SPS_LEN : base64sps[p] = NUL
    /\ dpc = "pps" => \E p \in j .. PPS_LEN : base64pps[p] = NUL

\* A DESCRIBE that begins after the first key frame was published sends an
\* SPS and a PPS of full length, whatever updates run while it copies them:
\* an update never shortens a text that is in use.
WholeTextsOncePublished ==
    dpc = "send" /\ whole => /\ Len(pDescr.sps) = SPS_LEN
                             /\ Len(pDescr.pps) = PPS_LEN

\* The frames that a text of the reply was made from.
FramesOf(text) == {text[p] : p \in DOMAIN text}

\* The texts of one reply may come from different key frames.  Each was
\* written before the next is read, and read before the next is: no
\* character is more than one key frame older than one copied before it.
OneFrameBehind ==
    dpc = "send" /\ whole =>
        /\ \A u \in FramesOf(pDescr.profileid), v \in FramesOf(pDescr.sps) : v >= u - 1
        /\ \A u \in FramesOf(pDescr.sps), v \in FramesOf(pDescr.pps) : v >= u - 1
=============================================================================

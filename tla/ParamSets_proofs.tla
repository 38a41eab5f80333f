--------------------------- MODULE ParamSets_proofs ---------------------------
(***************************************************************************)
(* Proofs about ParamSets, for texts of any length and any number of key   *)
(* frames.  At every moment each character of a base64 text is that of the *)
(* latest key frame or of the one before it, by where the encoder thread   *)
(* is: what DESCRIBE copies, and in which order, follows from that.        *)
(***************************************************************************)
EXTENDS ParamSets, TLAPS

\* The pack that each step of the encoder thread is about.
EncoderInv ==
    /\ packs = KeyFrame => made >= 1
    /\ vpc = "idle" => packs = OtherFrame \/ i = 3
    /\ vpc \in {"profileid", "sps"} => packs = KeyFrame /\ i = 1
    /\ vpc = "pps" => packs = KeyFrame /\ i = 2

SpsDone(p) == packs = OtherFrame \/ i >= 2 \/ (vpc = "sps" /\ p < k)
PpsDone(p) == packs = OtherFrame \/ i >= 3 \/ (vpc = "pps" /\ p < k)

\* The texts as the latest update and the one before it wrote them, and the
\* zero that ends each array.
TextsInv ==
    /\ \A p \in 0 .. SPS_LEN - 1 : base64sps[p] = IF SpsDone(p) THEN made ELSE made - 1
    /\ \A p \in 0 .. PPS_LEN - 1 : base64pps[p] = IF PpsDone(p) THEN made ELSE made - 1
    /\ \A p \in 0 .. PROFILE_LEN : base64profileid[p] <= made
    /\ base64sps[SPS_LEN] = NUL /\ base64pps[PPS_LEN] = NUL
    /\ base64profileid[PROFILE_LEN] = NUL

\* DESCRIBE is within the array it copies.
PlaceInv ==
    /\ dpc = "profileid" => j <= PROFILE_LEN
    /\ dpc = "sps" => j <= SPS_LEN
    /\ dpc = "pps" => j <= PPS_LEN

\* What is copied so far, for a DESCRIBE that began with full texts.
LengthInv ==
    /\ dpc \in {"idle", "profileid"} => pDescr.sps = <<>> /\ pDescr.pps = <<>>
    /\ dpc = "sps" => Len(pDescr.sps) = j /\ pDescr.pps = <<>>
    /\ dpc = "pps" => Len(pDescr.pps) = j
    /\ whole => /\ \A p \in 0 .. SPS_LEN - 1 : base64sps[p] # NUL
                /\ \A p \in 0 .. PPS_LEN - 1 : base64pps[p] # NUL
                /\ dpc \in {"pps", "send"} => Len(pDescr.sps) = SPS_LEN
                /\ dpc = "send" => Len(pDescr.pps) = PPS_LEN

\* No character copied is newer than the latest key frame, and none is more
\* than one frame older than one copied before it.
AgeInv ==
    /\ \A p \in DOMAIN pDescr.profileid : pDescr.profileid[p] <= made
    /\ \A p \in DOMAIN pDescr.sps : pDescr.sps[p] <= made
    /\ \A p \in DOMAIN pDescr.profileid, q \in DOMAIN pDescr.sps :
          pDescr.sps[q] >= pDescr.profileid[p] - 1
    /\ \A p \in DOMAIN pDescr.sps, q \in DOMAIN pDescr.pps :
          pDescr.pps[q] >= pDescr.sps[p] - 1

-----------------------------------------------------------------------------
\* The two frames, by their packs.
LEMMA FramesKnown ==
    /\ Frames = {KeyFrame, OtherFrame} /\ KeyFrame # OtherFrame
    /\ DOMAIN KeyFrame = 1 .. 3 /\ DOMAIN OtherFrame = 1 .. 1
    /\ KeyFrame[1] = "sps" /\ KeyFrame[2] = "pps" /\ KeyFrame[3] = "idr"
    /\ OtherFrame[1] = "slice"
<1>1. DOMAIN KeyFrame = 1 .. 3 /\ DOMAIN OtherFrame = 1 .. 1
  BY DEF KeyFrame, OtherFrame
<1>2. /\ KeyFrame[1] = "sps" /\ KeyFrame[2] = "pps" /\ KeyFrame[3] = "idr"
      /\ OtherFrame[1] = "slice"
  BY DEF KeyFrame, OtherFrame
<1>3. QED
  BY <1>1, <1>2 DEF Frames

LEMMA InitTypeOK == Init => TypeOK /\ EncoderInv
<1> SUFFICES ASSUME Init
             PROVE  TypeOK /\ EncoderInv
  OBVIOUS
<1> USE DEF Init
<1>0. whole \in BOOLEAN
  OBVIOUS
<1>1. 0 \in Char
  BY ParamSetsAssumption DEF Char
<1>2. pDescr \in [profileid : Seq(Char), sps : Seq(Char), pps : Seq(Char)]
  BY DEF Empty
<1>3. packs \in Frames /\ i \in DOMAIN packs /\ EncoderInv
  BY FramesKnown DEF EncoderInv
<1>4. QED
  BY <1>0, <1>1, <1>2, <1>3, ParamSetsAssumption DEF TypeOK, NUL

\* The parts of TypeOK: the strings, the encoder thread and DESCRIBE.
TextsType == /\ base64profileid \in [0 .. PROFILE_LEN -> Char]
             /\ base64sps \in [0 .. SPS_LEN -> Char]
             /\ base64pps \in [0 .. PPS_LEN -> Char]

VencType == /\ made \in 0 .. MaxKeyFrames
            /\ packs \in Frames /\ i \in DOMAIN packs
            /\ vpc \in {"idle", "look", "profileid", "sps", "pps"}
            /\ width \in 1 .. PROFILE_LEN
            /\ k \in Nat
            /\ vpc = "profileid" => k <= width
            /\ vpc = "sps" => k <= SPS_LEN
            /\ vpc = "pps" => k <= PPS_LEN

DescribeType == /\ dpc \in {"idle", "profileid", "sps", "pps", "send"}
                /\ j \in Nat
                /\ pDescr \in [profileid : Seq(Char), sps : Seq(Char), pps : Seq(Char)]

LEMMA TypeParts == TypeOK <=> TextsType /\ VencType /\ DescribeType /\ whole \in BOOLEAN
  BY DEF TypeOK, TextsType, VencType, DescribeType

LEMMA NextTextsType == TextsType /\ VencType /\ [Next]_vars => TextsType'
<1> SUFFICES ASSUME TextsType, VencType, [Next]_vars
             PROVE  TextsType'
  OBVIOUS
<1>1. made \in Char /\ NUL \in Char
  BY ParamSetsAssumption DEF VencType, Char, NUL
<1>2. Written(width) \in Char /\ Written(SPS_LEN) \in Char /\ Written(PPS_LEN) \in Char
  BY <1>1 DEF Written
<1>3. CASE sprintf \/ EncodeSps \/ EncodePps
  BY <1>2, <1>3 DEF sprintf, EncodeSps, EncodePps, TextsType
<1>4. CASE UNCHANGED psp
  BY <1>4 DEF psp, TextsType
<1>5. QED
  BY <1>3, <1>4
     DEF Next, Venc, Describe, NewFrame, CallUpdateSps, CallUpdatePps, LastPack,
         DescribeBegin, CopyProfileId, CopySps, CopyPps, strcat, SendDescribeReply, vars

LEMMA NextVencType == VencType /\ EncoderInv /\ [Next]_vars => VencType' /\ EncoderInv'
<1> SUFFICES ASSUME VencType, EncoderInv, [Next]_vars
             PROVE  VencType' /\ EncoderInv'
  OBVIOUS
<1> USE ParamSetsAssumption, FramesKnown DEF VencType, EncoderInv
<1>1. CASE \E f \in Frames : NewFrame(f)
  BY <1>1 DEF NewFrame
<1>2. CASE CallUpdateSps
  BY <1>2 DEF CallUpdateSps
<1>3. CASE CallUpdatePps
  BY <1>3 DEF CallUpdatePps
<1>4. CASE LastPack
  BY <1>4 DEF LastPack
<1>5. CASE sprintf
  BY <1>5 DEF sprintf
<1>6. CASE EncodeSps
  BY <1>6 DEF EncodeSps, Advance
<1>7. CASE EncodePps
  BY <1>7 DEF EncodePps, Advance
<1>8. CASE UNCHANGED venc
  BY <1>8 DEF venc
<1>9. QED
  BY <1>1, <1>2, <1>3, <1>4, <1>5, <1>6, <1>7, <1>8
     DEF Next, Venc, Describe, DescribeBegin, CopyProfileId, CopySps, CopyPps,
         strcat, SendDescribeReply, vars

LEMMA NextWholeType == whole \in BOOLEAN /\ [Next]_vars => whole' \in BOOLEAN
  BY DEF Next, Venc, Describe, vars, describe, NewFrame, CallUpdateSps,
         CallUpdatePps, LastPack, sprintf, EncodeSps, EncodePps, DescribeBegin,
         Published, CopyProfileId, CopySps, CopyPps, strcat, SendDescribeReply

-----------------------------------------------------------------------------
(* The texts *)

LEMMA InitTextsInv == Init => TextsInv
  BY ParamSetsAssumption, FramesKnown DEF Init, TextsInv, SpsDone, PpsDone, NUL

LEMMA NextTextsInv ==
    TextsType /\ VencType /\ EncoderInv /\ TextsInv /\ [Next]_vars => TextsInv'
<1> SUFFICES ASSUME TextsType, VencType, EncoderInv, TextsInv, [Next]_vars
             PROVE  TextsInv'
  OBVIOUS
<1> USE ParamSetsAssumption, FramesKnown
    DEF TextsType, VencType, EncoderInv, TextsInv, SpsDone, PpsDone, Char, NUL, psp
\* A new key frame finds every character done, and leaves them one behind.
<1>1. CASE \E f \in Frames : NewFrame(f)
  BY <1>1 DEF NewFrame
<1>2. CASE CallUpdateSps
  BY <1>2 DEF CallUpdateSps
<1>3. CASE CallUpdatePps
  BY <1>3 DEF CallUpdatePps
<1>4. CASE LastPack
  BY <1>4 DEF LastPack
\* The last place of the array is only ever given the zero.
<1>5. CASE sprintf
  BY <1>5 DEF sprintf, Written
<1>6. CASE EncodeSps
  <2>1. /\ vpc = "sps" /\ packs = KeyFrame /\ i = 1 /\ k \in 0 .. SPS_LEN
        /\ base64sps' = [base64sps EXCEPT ![k] = IF k < SPS_LEN THEN made ELSE NUL]
        /\ UNCHANGED <<base64profileid, base64pps, made, packs>>
    BY <1>6 DEF EncodeSps, Written
  <2>2. \/ k < SPS_LEN /\ k' = k + 1 /\ vpc' = vpc /\ i' = i
        \/ k = SPS_LEN /\ k' = 0 /\ vpc' = "look" /\ i' = i + 1
    BY <1>6, <2>1 DEF EncodeSps, Advance
  <2>3. \A p \in 0 .. SPS_LEN - 1 : base64sps'[p] = IF SpsDone(p)' THEN made' ELSE made' - 1
    <3>1. CASE k < SPS_LEN
      <4>1. vpc' = vpc /\ i' = i /\ k' = k + 1 /\ packs' = packs /\ made' = made
        BY <2>1, <2>2, <3>1
      <4> SUFFICES ASSUME NEW p \in 0 .. SPS_LEN - 1
                   PROVE  base64sps'[p] = IF SpsDone(p)' THEN made' ELSE made' - 1
        OBVIOUS
      <4>2. SpsDone(p)' <=> p <= k
        BY <2>1, <4>1
      <4>3. SpsDone(p) <=> p < k
        BY <2>1
      <4>4. base64sps'[p] = IF p = k THEN made ELSE base64sps[p]
        BY <2>1, <3>1
      <4>5. base64sps[p] = IF p < k THEN made ELSE made - 1
        BY <4>3
      <4>6. QED
        BY <2>1, <4>1, <4>2, <4>4, <4>5
    <3>2. CASE k = SPS_LEN
      BY <2>1, <2>2, <3>2
    <3>3. QED
      BY <2>2, <3>1, <3>2
  <2>4. \A p \in 0 .. PPS_LEN - 1 : base64pps'[p] = IF PpsDone(p)' THEN made' ELSE made' - 1
    BY <2>1, <2>2
  <2>5. base64sps'[SPS_LEN] = NUL
    BY <2>1, <2>2
  <2>6. QED
    BY <2>1, <2>3, <2>4, <2>5
<1>7. CASE EncodePps
  <2>1. /\ vpc = "pps" /\ packs = KeyFrame /\ i = 2 /\ k \in 0 .. PPS_LEN
        /\ base64pps' = [base64pps EXCEPT ![k] = IF k < PPS_LEN THEN made ELSE NUL]
        /\ UNCHANGED <<base64profileid, base64sps, made, packs>>
    BY <1>7 DEF EncodePps, Written
  <2>2. \/ k < PPS_LEN /\ k' = k + 1 /\ vpc' = vpc /\ i' = i
        \/ k = PPS_LEN /\ k' = 0 /\ vpc' = "look" /\ i' = i + 1
    BY <1>7, <2>1 DEF EncodePps, Advance
  <2>3. \A p \in 0 .. PPS_LEN - 1 : base64pps'[p] = IF PpsDone(p)' THEN made' ELSE made' - 1
    <3>1. CASE k < PPS_LEN
      <4>1. vpc' = vpc /\ i' = i /\ k' = k + 1 /\ packs' = packs /\ made' = made
        BY <2>1, <2>2, <3>1
      <4> SUFFICES ASSUME NEW p \in 0 .. PPS_LEN - 1
                   PROVE  base64pps'[p] = IF PpsDone(p)' THEN made' ELSE made' - 1
        OBVIOUS
      <4>2. PpsDone(p)' <=> p <= k
        BY <2>1, <4>1
      <4>3. PpsDone(p) <=> p < k
        BY <2>1
      <4>4. base64pps'[p] = IF p = k THEN made ELSE base64pps[p]
        BY <2>1, <3>1
      <4>5. base64pps[p] = IF p < k THEN made ELSE made - 1
        BY <4>3
      <4>6. QED
        BY <2>1, <4>1, <4>2, <4>4, <4>5
    <3>2. CASE k = PPS_LEN
      BY <2>1, <2>2, <3>2
    <3>3. QED
      BY <2>2, <3>1, <3>2
  <2>4. \A p \in 0 .. SPS_LEN - 1 : base64sps'[p] = IF SpsDone(p)' THEN made' ELSE made' - 1
    BY <2>1, <2>2
  <2>5. base64pps'[PPS_LEN] = NUL
    BY <2>1, <2>2
  <2>6. QED
    BY <2>1, <2>3, <2>4, <2>5
<1>8. CASE UNCHANGED <<psp, venc>>
  BY <1>8 DEF venc
<1>9. QED
  BY <1>1, <1>2, <1>3, <1>4, <1>5, <1>6, <1>7, <1>8
     DEF Next, Venc, Describe, DescribeBegin, CopyProfileId, CopySps, CopyPps,
         strcat, SendDescribeReply, vars

-----------------------------------------------------------------------------
(* DESCRIBE's place *)

LEMMA InitPlaceInv == Init => PlaceInv
  BY DEF Init, PlaceInv

\* The place moves past characters that are no zero only, so that it never
\* passes the zero that ends the array.
LEMMA NextPlaceInv ==
    DescribeType /\ PlaceInv /\ TextsInv /\ [Next]_vars => PlaceInv'
<1> SUFFICES ASSUME DescribeType, PlaceInv, TextsInv, [Next]_vars
             PROVE  PlaceInv'
  OBVIOUS
<1> USE ParamSetsAssumption DEF DescribeType, PlaceInv
<1>1. CASE DescribeBegin
  BY <1>1 DEF DescribeBegin
<1>2. CASE CopyProfileId
  BY <1>2 DEF CopyProfileId, strcat, TextsInv
<1>3. CASE CopySps
  BY <1>3 DEF CopySps, strcat, TextsInv
<1>4. CASE CopyPps
  BY <1>4 DEF CopyPps, strcat, TextsInv
<1>5. CASE SendDescribeReply
  BY <1>5 DEF SendDescribeReply
<1>6. CASE UNCHANGED describe
  BY <1>6 DEF describe
<1>7. QED
  BY <1>1, <1>2, <1>3, <1>4, <1>5, <1>6
     DEF Next, Venc, Describe, NewFrame, CallUpdateSps, CallUpdatePps, LastPack,
         sprintf, EncodeSps, EncodePps, vars

\* What is copied is a character, since the place is inside the array.
LEMMA NextDescribeType ==
    TextsType /\ DescribeType /\ PlaceInv /\ [Next]_vars => DescribeType'
<1> SUFFICES ASSUME TextsType, DescribeType, PlaceInv, [Next]_vars
             PROVE  DescribeType'
  OBVIOUS
<1> USE ParamSetsAssumption DEF DescribeType
<1>1. CASE DescribeBegin
  BY <1>1 DEF DescribeBegin
<1>2. CASE CopyProfileId
  <2>1. base64profileid[j] \in Char
    BY <1>2 DEF CopyProfileId, strcat, TextsType, PlaceInv
  <2>2. \/ pDescr' = pDescr
        \/ pDescr' = [pDescr EXCEPT !.profileid = Append(pDescr.profileid, base64profileid[j])]
    BY <1>2 DEF CopyProfileId, strcat
  <2>3. pDescr' \in [profileid : Seq(Char), sps : Seq(Char), pps : Seq(Char)]
    <3>1. Append(pDescr.profileid, base64profileid[j]) \in Seq(Char)
      BY <2>1
    <3>2. QED
      BY <2>2, <3>1
  <2>4. QED
    BY <1>2, <2>3 DEF CopyProfileId, strcat
<1>3. CASE CopySps
  <2>1. base64sps[j] \in Char
    BY <1>3 DEF CopySps, strcat, TextsType, PlaceInv
  <2>2. \/ pDescr' = pDescr
        \/ pDescr' = [pDescr EXCEPT !.sps = Append(pDescr.sps, base64sps[j])]
    BY <1>3 DEF CopySps, strcat
  <2>3. pDescr' \in [profileid : Seq(Char), sps : Seq(Char), pps : Seq(Char)]
    <3>1. Append(pDescr.sps, base64sps[j]) \in Seq(Char)
      BY <2>1
    <3>2. QED
      BY <2>2, <3>1
  <2>4. QED
    BY <1>3, <2>3 DEF CopySps, strcat
<1>4. CASE CopyPps
  <2>1. base64pps[j] \in Char
    BY <1>4 DEF CopyPps, strcat, TextsType, PlaceInv
  <2>2. \/ pDescr' = pDescr
        \/ pDescr' = [pDescr EXCEPT !.pps = Append(pDescr.pps, base64pps[j])]
    BY <1>4 DEF CopyPps, strcat
  <2>3. pDescr' \in [profileid : Seq(Char), sps : Seq(Char), pps : Seq(Char)]
    <3>1. Append(pDescr.pps, base64pps[j]) \in Seq(Char)
      BY <2>1
    <3>2. QED
      BY <2>2, <3>1
  <2>4. QED
    BY <1>4, <2>3 DEF CopyPps, strcat
<1>5. CASE SendDescribeReply
  BY <1>5 DEF SendDescribeReply, Empty
<1>6. CASE UNCHANGED describe
  BY <1>6 DEF describe
<1>7. QED
  BY <1>1, <1>2, <1>3, <1>4, <1>5, <1>6
     DEF Next, Venc, Describe, NewFrame, CallUpdateSps, CallUpdatePps, LastPack,
         sprintf, EncodeSps, EncodePps, vars

-----------------------------------------------------------------------------
\* All of the above: what every later invariant relies on.
BaseInv == TypeOK /\ EncoderInv /\ TextsInv /\ PlaceInv

LEMMA InitBaseInv == Init => BaseInv
  BY InitTypeOK, InitTextsInv, InitPlaceInv DEF BaseInv

LEMMA NextBaseInv == BaseInv /\ [Next]_vars => BaseInv'
<1> SUFFICES ASSUME BaseInv, [Next]_vars
             PROVE  BaseInv'
  OBVIOUS
<1>1. TextsType /\ VencType /\ DescribeType /\ whole \in BOOLEAN
  BY TypeParts DEF BaseInv
<1>2. TextsType' /\ VencType' /\ DescribeType' /\ whole' \in BOOLEAN /\ EncoderInv'
  BY <1>1, NextTextsType, NextVencType, NextDescribeType, NextWholeType DEF BaseInv
<1>3. TypeOK'
  BY <1>2 DEF TypeOK, TextsType, VencType, DescribeType
<1>4. QED
  BY <1>1, <1>2, <1>3, NextTextsInv, NextPlaceInv DEF BaseInv

\* Every string keeps the characters of its array, and the encoder thread's
\* place stays inside the array it writes.
THEOREM TypeCorrect == Spec => []TypeOK
<1>1. BaseInv => TypeOK
  BY DEF BaseInv
<1>2. QED
  BY <1>1, InitBaseInv, NextBaseInv, PTL DEF Spec

\* A DESCRIBE never copies past the array, however updates interleave.
THEOREM CopiesEnd == Spec => []CopyEndsInArray
<1>1. BaseInv => CopyEndsInArray
  <2> SUFFICES ASSUME BaseInv PROVE CopyEndsInArray
    OBVIOUS
  <2> USE ParamSetsAssumption DEF BaseInv, TypeOK, TextsInv, PlaceInv
  <2>1. dpc = "profileid" => PROFILE_LEN \in j .. PROFILE_LEN /\ base64profileid[PROFILE_LEN] = NUL
    OBVIOUS
  <2>2. dpc = "sps" => SPS_LEN \in j .. SPS_LEN /\ base64sps[SPS_LEN] = NUL
    OBVIOUS
  <2>3. dpc = "pps" => PPS_LEN \in j .. PPS_LEN /\ base64pps[PPS_LEN] = NUL
    OBVIOUS
  <2>4. QED
    BY <2>1, <2>2, <2>3 DEF CopyEndsInArray
<1>2. QED
  BY <1>1, InitBaseInv, NextBaseInv, PTL DEF Spec

-----------------------------------------------------------------------------
(* What the reply is made of *)

\* One character appended to a text: the rest of it stays as it was.
LEMMA Appended ==
    ASSUME NEW s \in Seq(Char), NEW c \in Char
    PROVE  /\ Len(Append(s, c)) = Len(s) + 1
           /\ DOMAIN s = 1 .. Len(s) /\ DOMAIN Append(s, c) = 1 .. Len(s) + 1
           /\ \A p \in 1 .. Len(s) : Append(s, c)[p] = s[p]
           /\ Append(s, c)[Len(s) + 1] = c
  OBVIOUS

\* A step of DESCRIBE either copies the next character of its string or has
\* met the zero.
Copies(field, s) ==
    /\ s[j] # NUL /\ s[j] \in Char
    /\ dpc' = dpc /\ j' = j + 1
    /\ pDescr' = [pDescr EXCEPT ![field] = Append(pDescr[field], s[j])]

Ends(next, s) == s[j] = NUL /\ dpc' = next /\ j' = 0 /\ pDescr' = pDescr

LEMMA CopySteps ==
    ASSUME BaseInv
    PROVE  /\ CopyProfileId => /\ dpc = "profileid" /\ j \in 0 .. PROFILE_LEN
                               /\ UNCHANGED <<psp, venc, whole>>
                               /\ \/ Copies("profileid", base64profileid)
                                  \/ Ends("sps", base64profileid)
           /\ CopySps => /\ dpc = "sps" /\ j \in 0 .. SPS_LEN
                         /\ UNCHANGED <<psp, venc, whole>>
                         /\ Copies("sps", base64sps) \/ Ends("pps", base64sps)
           /\ CopyPps => /\ dpc = "pps" /\ j \in 0 .. PPS_LEN
                         /\ UNCHANGED <<psp, venc, whole>>
                         /\ Copies("pps", base64pps) \/ Ends("send", base64pps)
<1>1. DescribeType /\ TextsType /\ PlaceInv
  BY TypeParts DEF BaseInv
<1> USE <1>1, ParamSetsAssumption DEF strcat, Copies, Ends, DescribeType, TextsType, PlaceInv
<1>2. CopyProfileId => /\ dpc = "profileid" /\ j \in 0 .. PROFILE_LEN
                       /\ UNCHANGED <<psp, venc, whole>>
                       /\ \/ Copies("profileid", base64profileid)
                          \/ Ends("sps", base64profileid)
  BY DEF CopyProfileId
<1>3. CopySps => /\ dpc = "sps" /\ j \in 0 .. SPS_LEN
                 /\ UNCHANGED <<psp, venc, whole>>
                 /\ Copies("sps", base64sps) \/ Ends("pps", base64sps)
  BY DEF CopySps
<1>4. CopyPps => /\ dpc = "pps" /\ j \in 0 .. PPS_LEN
                 /\ UNCHANGED <<psp, venc, whole>>
                 /\ Copies("pps", base64pps) \/ Ends("send", base64pps)
  BY DEF CopyPps
<1>5. QED
  BY <1>2, <1>3, <1>4

\* Once the last character of the PPS is there, so are all the others.
LEMMA PublishedIsFull ==
    BaseInv /\ Published => /\ \A p \in 0 .. SPS_LEN - 1 : base64sps[p] # NUL
                            /\ \A p \in 0 .. PPS_LEN - 1 : base64pps[p] # NUL
<1> SUFFICES ASSUME BaseInv, Published
             PROVE  /\ \A p \in 0 .. SPS_LEN - 1 : base64sps[p] # NUL
                    /\ \A p \in 0 .. PPS_LEN - 1 : base64pps[p] # NUL
  OBVIOUS
<1>1. VencType
  BY TypeParts DEF BaseInv
<1>2. PPS_LEN - 1 \in 0 .. PPS_LEN - 1
  BY ParamSetsAssumption
<1>3. IF PpsDone(PPS_LEN - 1) THEN made # 0 ELSE made - 1 # 0
  BY <1>2 DEF BaseInv, TextsInv, Published, NUL
<1>4. made # 0 /\ \A p \in 0 .. SPS_LEN - 1 : ~SpsDone(p) => made # 1
  BY <1>1, <1>2, <1>3, ParamSetsAssumption, FramesKnown
     DEF BaseInv, EncoderInv, VencType, SpsDone, PpsDone
<1>5. \A p \in 0 .. PPS_LEN - 1 : ~PpsDone(p) => made # 1
  BY <1>1, <1>2, <1>3, ParamSetsAssumption, FramesKnown
     DEF BaseInv, EncoderInv, VencType, PpsDone
<1>6. QED
  BY <1>1, <1>4, <1>5 DEF BaseInv, TextsInv, NUL, VencType

LEMMA InitLengthInv == Init => LengthInv
  BY DEF Init, LengthInv, Empty

\* A step of the encoder thread: characters that are there stay, as it only
\* writes the number of a key frame, but for the zero at the end.
LEMMA VencKeepsLengths ==
    BaseInv /\ BaseInv' /\ LengthInv /\ UNCHANGED describe /\ (Venc \/ UNCHANGED <<psp, venc>>)
      => LengthInv'
<1> SUFFICES ASSUME BaseInv, BaseInv', LengthInv, UNCHANGED describe,
                    Venc \/ UNCHANGED <<psp, venc>>
             PROVE  LengthInv'
  OBVIOUS
<1>1. TextsType /\ VencType /\ EncoderInv
  BY TypeParts DEF BaseInv
<1>2. vpc \in {"sps", "pps"} => made # NUL
  BY <1>1 DEF VencType, EncoderInv, NUL
<1>3. (\A p \in 0 .. SPS_LEN - 1 : base64sps[p] # NUL)
         => \A p \in 0 .. SPS_LEN - 1 : base64sps'[p] # NUL
  BY <1>1, <1>2, ParamSetsAssumption
     DEF TextsType, VencType, Venc, NewFrame, CallUpdateSps, CallUpdatePps, LastPack,
         sprintf, EncodeSps, EncodePps, Written, psp
<1>4. (\A p \in 0 .. PPS_LEN - 1 : base64pps[p] # NUL)
         => \A p \in 0 .. PPS_LEN - 1 : base64pps'[p] # NUL
  BY <1>1, <1>2, ParamSetsAssumption
     DEF TextsType, VencType, Venc, NewFrame, CallUpdateSps, CallUpdatePps, LastPack,
         sprintf, EncodeSps, EncodePps, Written, psp
<1>5. QED
  BY <1>3, <1>4 DEF LengthInv, describe

LEMMA NextLengthInv == BaseInv /\ BaseInv' /\ LengthInv /\ [Next]_vars => LengthInv'
<1> SUFFICES ASSUME BaseInv, BaseInv', LengthInv, [Next]_vars
             PROVE  LengthInv'
  OBVIOUS
<1>1. DescribeType /\ TextsType
  BY TypeParts DEF BaseInv
<1>2. /\ pDescr.profileid \in Seq(Char) /\ pDescr.sps \in Seq(Char)
      /\ pDescr.pps \in Seq(Char)
  BY <1>1 DEF DescribeType
<1>3. CASE UNCHANGED describe /\ (Venc \/ UNCHANGED <<psp, venc>>)
  BY <1>3, VencKeepsLengths
<1>4. CASE DescribeBegin
  BY <1>1, <1>4, PublishedIsFull DEF DescribeBegin, LengthInv, DescribeType, psp
<1>5. CASE CopyProfileId
  BY <1>1, <1>5, CopySteps DEF Copies, Ends, LengthInv, DescribeType, psp
\* The text ends where the array does, if every character is there.
<1>6. CASE CopySps
  <2>1. CASE Copies("sps", base64sps)
    BY <1>1, <1>2, <1>6, <2>1, CopySteps, Appended DEF Copies, LengthInv, DescribeType, psp
  <2>2. CASE Ends("pps", base64sps)
    BY <1>1, <1>2, <1>6, <2>2, CopySteps, ParamSetsAssumption DEF Ends, LengthInv, DescribeType, psp
  <2>3. QED
    BY <1>6, <2>1, <2>2, CopySteps
<1>7. CASE CopyPps
  <2>1. CASE Copies("pps", base64pps)
    BY <1>1, <1>2, <1>7, <2>1, CopySteps, Appended DEF Copies, LengthInv, DescribeType, psp
  <2>2. CASE Ends("send", base64pps)
    BY <1>1, <1>2, <1>7, <2>2, CopySteps, ParamSetsAssumption DEF Ends, LengthInv, DescribeType, psp
  <2>3. QED
    BY <1>7, <2>1, <2>2, CopySteps
<1>8. CASE SendDescribeReply
  BY <1>8 DEF SendDescribeReply, Empty, LengthInv
<1>9. QED
  BY <1>3, <1>4, <1>5, <1>6, <1>7, <1>8
     DEF Next, Venc, Describe, NewFrame, CallUpdateSps, CallUpdatePps, LastPack,
         sprintf, EncodeSps, EncodePps, vars

\* After the first key frame was published a reply has an SPS and a PPS of
\* full length, whatever updates run while they are copied.
THEOREM WholeTexts == Spec => []WholeTextsOncePublished
<1>1. LengthInv => WholeTextsOncePublished
  BY DEF LengthInv, WholeTextsOncePublished
<1>2. QED
  BY <1>1, InitBaseInv, NextBaseInv, InitLengthInv, NextLengthInv, PTL DEF Spec

-----------------------------------------------------------------------------
LEMMA InitAgeInv == Init => AgeInv
  BY DEF Init, AgeInv, Empty

\* The number of the latest key frame only grows.
LEMMA MadeGrows == VencType /\ [Next]_vars => made' \in Nat /\ made' >= made
  BY ParamSetsAssumption DEF VencType, Next, Venc, Describe, DescribeBegin,
     CopyProfileId, CopySps, CopyPps, strcat, SendDescribeReply, NewFrame, CallUpdateSps,
     CallUpdatePps, LastPack, sprintf, EncodeSps, EncodePps, vars, venc

LEMMA NextAgeInv == BaseInv /\ LengthInv /\ AgeInv /\ [Next]_vars => AgeInv'
<1> SUFFICES ASSUME BaseInv, LengthInv, AgeInv, [Next]_vars
             PROVE  AgeInv'
  OBVIOUS
<1>1. DescribeType /\ TextsType /\ VencType
  BY TypeParts DEF BaseInv
<1>2. /\ pDescr.profileid \in Seq(Char) /\ pDescr.sps \in Seq(Char)
      /\ pDescr.pps \in Seq(Char)
  BY <1>1 DEF DescribeType
<1>3. /\ \A p \in DOMAIN pDescr.profileid : pDescr.profileid[p] \in Nat
      /\ \A p \in DOMAIN pDescr.sps : pDescr.sps[p] \in Nat
      /\ \A p \in DOMAIN pDescr.pps : pDescr.pps[p] \in Nat
  BY <1>2, ParamSetsAssumption DEF Char
<1>4. made \in Nat /\ made' \in Nat /\ made' >= made
  BY <1>1, MadeGrows DEF VencType
<1>5. CASE pDescr' = pDescr
  BY <1>3, <1>4, <1>5 DEF AgeInv
<1>6. CASE SendDescribeReply
  BY <1>6 DEF SendDescribeReply, Empty, AgeInv
\* What is copied now was written by the latest key frame or the one before,
\* and what was copied before is no newer than the latest.
<1>7. CASE CopyProfileId /\ Copies("profileid", base64profileid)
  <2>1. dpc = "profileid" /\ j \in 0 .. PROFILE_LEN /\ made' = made
    BY <1>7, CopySteps DEF venc
  <2>2. base64profileid[j] <= made
    BY <2>1 DEF BaseInv, TextsInv
  <2>3. DOMAIN pDescr.sps = {} /\ DOMAIN pDescr.pps = {}
    BY <2>1 DEF LengthInv
  <2>4. QED
    BY <1>1, <1>2, <1>7, <2>1, <2>2, <2>3, Appended DEF AgeInv, Copies, DescribeType
<1>8. CASE CopySps /\ Copies("sps", base64sps)
  <2>1. dpc = "sps" /\ j \in 0 .. SPS_LEN /\ made' = made
    BY <1>8, CopySteps DEF venc
  <2>2. base64sps[j] \in {made, made - 1}
    BY <1>8, <2>1, ParamSetsAssumption DEF BaseInv, TextsInv, Copies
  <2>3. DOMAIN pDescr.pps = {}
    BY <2>1 DEF LengthInv
  <2>4. QED
    BY <1>1, <1>2, <1>3, <1>4, <1>8, <2>1, <2>2, <2>3, Appended
       DEF AgeInv, Copies, DescribeType
<1>9. CASE CopyPps /\ Copies("pps", base64pps)
  <2>1. dpc = "pps" /\ j \in 0 .. PPS_LEN /\ made' = made
    BY <1>9, CopySteps DEF venc
  <2>2. base64pps[j] \in {made, made - 1}
    BY <1>9, <2>1, ParamSetsAssumption DEF BaseInv, TextsInv, Copies
  <2>3. QED
    BY <1>1, <1>2, <1>3, <1>4, <1>9, <2>1, <2>2, Appended
       DEF AgeInv, Copies, DescribeType
<1>10. QED
  BY <1>5, <1>6, <1>7, <1>8, <1>9, CopySteps
     DEF Next, Venc, Describe, DescribeBegin, Ends, NewFrame, CallUpdateSps, CallUpdatePps,
         LastPack, sprintf, EncodeSps, EncodePps, vars, describe

\* In a reply that began with full texts no character is more than one key
\* frame older than one copied before it.
THEOREM ReplySpansTwoFrames == Spec => []OneFrameBehind
<1>1. AgeInv => OneFrameBehind
  BY DEF AgeInv, OneFrameBehind, FramesOf
<1>2. QED
  BY <1>1, InitBaseInv, NextBaseInv, InitLengthInv, NextLengthInv, InitAgeInv,
     NextAgeInv, PTL DEF Spec
=============================================================================
